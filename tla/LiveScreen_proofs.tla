-------------------------- MODULE LiveScreen_proofs ---------------------------
(***************************************************************************)
(* Proofs about what the screen of a live shows: the gifts (GiftQueue, for *)
(* any gifts, weights and any order of the callbacks) and those on the     *)
(* call (LiveWith, for any viewers, any number of them and any events).    *)
(***************************************************************************)
EXTENDS GiftQueue, LiveWith, FiniteSetTheorems, FunctionTheorems, WellFoundedInduction, TLAPS

-----------------------------------------------------------------------------
(* Lists                                                                   *)

Elements(s) == {s[i] : i \in DOMAIN s}

(* Nothing stands twice in a list.                                         *)
Distinct(s) == \A i, j \in DOMAIN s : s[i] = s[j] => i = j

(* A set of numbers that is not empty has a least one.                     *)
LEMMA Least ==
    ASSUME NEW S, S \subseteq Nat, S # {}
    PROVE  \E i \in S : \A j \in S : i <= j
<1>1. PICK i \in S : \A j \in S : ~(<<j, i>> \in OpToRel(<, Nat))
    BY NatLessThanWellFounded, WFMin
<1>2. ASSUME NEW j \in S PROVE i <= j
    <2>1. j \in Nat /\ i \in Nat /\ <<j, i>> \in Nat \X Nat
        OBVIOUS
    <2>2. ~(j < i)
        BY <1>1, <2>1 DEF OpToRel
    <2> QED BY <2>1, <2>2
<1> QED BY <1>2

(* The list r has one more than s, e at place i.                           *)
Longer(s, i, e, r) ==
    /\ Len(r) = Len(s) + 1
    /\ \A j \in 1 .. Len(s) + 1 :
           r[j] = IF j < i THEN s[j] ELSE IF j = i THEN e ELSE s[j - 1]

LEMMA LongerFacts ==
    ASSUME NEW S, NEW s \in Seq(S), NEW e \in S, NEW i \in 1 .. Len(s) + 1,
           NEW r \in Seq(S), Longer(s, i, e, r),
           Distinct(s), e \notin Elements(s)
    PROVE  Distinct(r) /\ Elements(r) = Elements(s) \cup {e}
<1>1. /\ DOMAIN r = 1 .. Len(s) + 1 /\ DOMAIN s = 1 .. Len(s) /\ Len(s) \in Nat
      /\ \A j \in 1 .. Len(s) + 1 :
             r[j] = IF j < i THEN s[j] ELSE IF j = i THEN e ELSE s[j - 1]
    BY DEF Longer
<1>2. ASSUME NEW j \in DOMAIN r, NEW k \in DOMAIN r, r[j] = r[k] PROVE j = k
    <2>1. ASSUME NEW l \in DOMAIN r, l # i
          PROVE  /\ r[l] = s[IF l < i THEN l ELSE l - 1] /\ r[l] # e
                 /\ (IF l < i THEN l ELSE l - 1) \in DOMAIN s
        <3>1. r[l] = s[IF l < i THEN l ELSE l - 1]
            BY <2>1, <1>1
        <3>2. (IF l < i THEN l ELSE l - 1) \in DOMAIN s
            BY <2>1, <1>1
        <3> QED BY <3>1, <3>2 DEF Elements
    <2>2. r[i] = e
        BY <1>1
    <2>3. CASE j = i \/ k = i
        BY <2>1, <2>2, <2>3, <1>2
    <2>4. CASE j # i /\ k # i
        <3>1. (IF j < i THEN j ELSE j - 1) = (IF k < i THEN k ELSE k - 1)
            BY <2>1, <2>4, <1>2 DEF Distinct
        <3> QED BY <3>1, <2>4, <1>1
    <2> QED BY <2>3, <2>4
<1>3. Elements(r) \subseteq Elements(s) \cup {e}
    BY <1>1 DEF Elements
<1>4. e \in Elements(r)
    BY <1>1 DEF Elements
<1>5. ASSUME NEW j \in 1 .. Len(s) PROVE s[j] \in Elements(r)
    <2>1. CASE j < i
        BY <2>1, <1>1 DEF Elements
    <2>2. CASE ~(j < i)
        <3>1. j + 1 \in 1 .. Len(s) + 1 /\ r[j + 1] = s[j]
            BY <2>2, <1>1
        <3> QED BY <3>1, <1>1 DEF Elements
    <2> QED BY <2>1, <2>2
<1>6. Elements(s) \subseteq Elements(r)
    BY <1>1, <1>5 DEF Elements
<1> QED BY <1>2, <1>3, <1>4, <1>6 DEF Distinct

(* The list r has one less than s, the one at place i.                     *)
Shorter(s, i, r) ==
    /\ Len(r) = Len(s) - 1
    /\ \A j \in 1 .. Len(s) - 1 : r[j] = IF j < i THEN s[j] ELSE s[j + 1]

LEMMA ShorterFacts ==
    ASSUME NEW S, NEW s \in Seq(S), NEW i \in 1 .. Len(s),
           NEW r \in Seq(S), Shorter(s, i, r), Distinct(s)
    PROVE  Distinct(r) /\ Elements(r) \subseteq Elements(s) \ {s[i]}
<1>1. /\ DOMAIN r = 1 .. Len(s) - 1 /\ DOMAIN s = 1 .. Len(s) /\ Len(s) \in Nat
      /\ \A j \in 1 .. Len(s) - 1 : r[j] = IF j < i THEN s[j] ELSE s[j + 1]
    BY DEF Shorter
<1>2. ASSUME NEW j \in DOMAIN r, NEW k \in DOMAIN r, r[j] = r[k] PROVE j = k
    <2>1. ASSUME NEW l \in DOMAIN r
          PROVE  /\ r[l] = s[IF l < i THEN l ELSE l + 1]
                 /\ (IF l < i THEN l ELSE l + 1) \in DOMAIN s
        BY <1>1
    <2>2. (IF j < i THEN j ELSE j + 1) = (IF k < i THEN k ELSE k + 1)
        BY <2>1, <1>2 DEF Distinct
    <2> QED BY <2>2, <1>1
<1>3. Elements(r) \subseteq Elements(s)
    BY <1>1 DEF Elements
<1>4. s[i] \notin Elements(r)
    <2>1. ASSUME NEW j \in DOMAIN r PROVE r[j] # s[i]
        <3>1. /\ (IF j < i THEN j ELSE j + 1) \in DOMAIN s
              /\ (IF j < i THEN j ELSE j + 1) # i
            BY <1>1
        <3> QED BY <1>1, <3>1 DEF Distinct
    <2> QED BY <2>1 DEF Elements
<1> QED BY <1>2, <1>3, <1>4 DEF Distinct

(* Of the gifts that came, in the order of u, the heavier stands before    *)
(* the lighter, and of two of the same weight the one that came first.     *)
Precedes(g, h, u) ==
    \/ Weight[g] > Weight[h]
    \/ /\ Weight[g] = Weight[h]
       /\ PlaceOf(g, u) < PlaceOf(h, u)

Ordered(s, u) == \A i, j \in DOMAIN s : i < j => Precedes(s[i], s[j], u)

(* What stands in order still does when one is taken out,                  *)
LEMMA ShorterOrdered ==
    ASSUME NEW S, NEW s \in Seq(S), NEW i \in 1 .. Len(s),
           NEW r \in Seq(S), Shorter(s, i, r), NEW u, Ordered(s, u)
    PROVE  Ordered(r, u)
<1>1. /\ DOMAIN r = 1 .. Len(s) - 1 /\ DOMAIN s = 1 .. Len(s) /\ Len(s) \in Nat
      /\ \A j \in 1 .. Len(s) - 1 : r[j] = IF j < i THEN s[j] ELSE s[j + 1]
    BY DEF Shorter
<1>2. ASSUME NEW j \in DOMAIN r, NEW k \in DOMAIN r, j < k
      PROVE  Precedes(r[j], r[k], u)
    <2>1. PICK m, n : /\ m = IF j < i THEN j ELSE j + 1
                      /\ n = IF k < i THEN k ELSE k + 1
        OBVIOUS
    <2>2. m \in DOMAIN s /\ n \in DOMAIN s /\ m < n
        BY <2>1, <1>1, <1>2
    <2>3. r[j] = s[m] /\ r[k] = s[n]
        BY <2>1, <1>1
    <2> QED BY <2>2, <2>3 DEF Ordered
<1> QED BY <1>2 DEF Ordered

(* and when one is put in behind those it may not precede and before the   *)
(* others.                                                                 *)
LEMMA LongerOrdered ==
    ASSUME NEW S, NEW s \in Seq(S), NEW e \in S, NEW p \in 1 .. Len(s) + 1,
           NEW r \in Seq(S), Longer(s, p, e, r), NEW u, Ordered(s, u),
           \A i \in DOMAIN s : i < p => Precedes(s[i], e, u),
           \A i \in DOMAIN s : p <= i => Precedes(e, s[i], u)
    PROVE  Ordered(r, u)
<1>1. /\ DOMAIN r = 1 .. Len(s) + 1 /\ DOMAIN s = 1 .. Len(s) /\ Len(s) \in Nat
      /\ \A j \in 1 .. Len(s) + 1 :
             r[j] = IF j < p THEN s[j] ELSE IF j = p THEN e ELSE s[j - 1]
    BY DEF Longer
<1>2. ASSUME NEW j \in DOMAIN r, NEW k \in DOMAIN r, j < k
      PROVE  Precedes(r[j], r[k], u)
    <2>1. CASE k = p
        <3>1. r[k] = e /\ r[j] = s[j] /\ j \in DOMAIN s /\ j < p
            BY <2>1, <1>1, <1>2
        <3> QED BY <3>1
    <2>2. CASE j = p
        <3>1. r[j] = e /\ r[k] = s[k - 1] /\ k - 1 \in DOMAIN s /\ p <= k - 1
            BY <2>2, <1>1, <1>2
        <3> QED BY <3>1
    <2>3. CASE j # p /\ k # p
        <3>1. PICK m, n : /\ m = IF j < p THEN j ELSE j - 1
                          /\ n = IF k < p THEN k ELSE k - 1
            OBVIOUS
        <3>2. m \in DOMAIN s /\ n \in DOMAIN s /\ m < n
            BY <2>3, <3>1, <1>1, <1>2
        <3>3. r[j] = s[m] /\ r[k] = s[n]
            BY <2>3, <3>1, <1>1
        <3> QED BY <3>2, <3>3 DEF Ordered
    <2> QED BY <2>1, <2>2, <2>3
<1> QED BY <1>2 DEF Ordered

(* A gift that comes is the last to have come, and moves no other.         *)
LEMMA PlaceOfFacts ==
    ASSUME NEW S, NEW u \in Seq(S), Distinct(u), NEW e \in S, e \notin Elements(u)
    PROVE  /\ Distinct(Append(u, e))
           /\ Elements(Append(u, e)) = Elements(u) \cup {e}
           /\ PlaceOf(e, Append(u, e)) = Len(u) + 1
           /\ \A x \in Elements(u) : /\ PlaceOf(x, u) \in 1 .. Len(u)
                                     /\ PlaceOf(x, Append(u, e)) = PlaceOf(x, u)
<1>1. PICK v : v = Append(u, e)
    OBVIOUS
<1>2. /\ v \in Seq(S) /\ DOMAIN v = 1 .. Len(u) + 1 /\ Len(v) = Len(u) + 1
      /\ DOMAIN u = 1 .. Len(u) /\ Len(u) \in Nat /\ v[Len(u) + 1] = e
      /\ \A i \in 1 .. Len(u) : v[i] = u[i]
    BY <1>1
<1>3. Longer(u, Len(u) + 1, e, v)
    BY <1>2 DEF Longer
<1>4. Distinct(v) /\ Elements(v) = Elements(u) \cup {e}
    BY <1>2, <1>3, LongerFacts
<1>5. ASSUME NEW x, NEW i \in DOMAIN v, v[i] = x PROVE PlaceOf(x, v) = i
    BY <1>4, <1>5 DEF PlaceOf, Distinct
<1>6. PlaceOf(e, v) = Len(u) + 1
    BY <1>2, <1>5
<1>7. ASSUME NEW x \in Elements(u)
      PROVE  PlaceOf(x, u) \in 1 .. Len(u) /\ PlaceOf(x, v) = PlaceOf(x, u)
    <2>1. PICK i \in DOMAIN u : u[i] = x
        BY DEF Elements
    <2>2. PlaceOf(x, u) = i
        BY <2>1 DEF PlaceOf, Distinct
    <2>3. PlaceOf(x, v) = i
        BY <2>1, <1>2, <1>5
    <2> QED BY <2>1, <2>2, <2>3, <1>2
<1> QED BY <1>1, <1>4, <1>6, <1>7

(* Inserting one.                                                          *)
LEMMA InsertLonger ==
    ASSUME NEW S, NEW s \in Seq(S), NEW e \in S, NEW i \in 1 .. Len(s) + 1
    PROVE  InsertAt(s, i, e) \in Seq(S) /\ Longer(s, i, e, InsertAt(s, i, e))
<1>1. PICK b : b = SubSeq(s, 1, i - 1)
    OBVIOUS
<1>2. PICK c : c = SubSeq(s, i, Len(s))
    OBVIOUS
<1>3. /\ b \in Seq(S) /\ Len(b) = i - 1
      /\ \A j \in 1 .. i - 1 : b[j] = s[j]
    BY <1>1
<1>4. /\ c \in Seq(S) /\ Len(c) = Len(s) - i + 1
      /\ \A j \in 1 .. Len(s) - i + 1 : c[j] = s[i + j - 1]
    BY <1>2
<1>5. PICK d : d = b \o <<e>>
    OBVIOUS
<1>51. /\ d \in Seq(S) /\ Len(d) = i
       /\ \A j \in 1 .. i - 1 : d[j] = b[j]
       /\ d[i] = e
    BY <1>3, <1>5
<1>52. PICK r : r = d \o c
    OBVIOUS
<1>6. /\ r \in Seq(S) /\ Len(r) = Len(s) + 1
      /\ \A j \in 1 .. i : r[j] = d[j]
      /\ \A j \in 1 .. Len(s) - i + 1 : r[i + j] = c[j]
    <2>1. Len(d) + Len(c) = Len(s) + 1
        BY <1>4, <1>51
    <2> QED BY <2>1, <1>4, <1>51, <1>52
<1>7. ASSUME NEW j \in 1 .. Len(s) + 1
      PROVE  r[j] = IF j < i THEN s[j] ELSE IF j = i THEN e ELSE s[j - 1]
    <2>1. CASE j < i
        BY <2>1, <1>3, <1>51, <1>6
    <2>2. CASE j = i
        BY <2>2, <1>51, <1>6
    <2>3. CASE j > i
        <3>1. r[j] = c[j - i] /\ j - i \in 1 .. Len(s) - i + 1
            <4>1. j - i \in 1 .. Len(s) - i + 1 /\ i + (j - i) = j
                BY <2>3
            <4> QED BY <4>1, <1>6
        <3>2. c[j - i] = s[i + (j - i) - 1] /\ i + (j - i) - 1 = j - 1
            BY <3>1, <1>4
        <3> QED BY <2>3, <3>1, <3>2
    <2> QED BY <2>1, <2>2, <2>3
<1>8. Longer(s, i, e, r)
    BY <1>6, <1>7 DEF Longer
<1> QED BY <1>1, <1>2, <1>5, <1>52, <1>6, <1>8 DEF InsertAt

(* Adding one at the end.                                                  *)
LEMMA AppendLonger ==
    ASSUME NEW S, NEW s \in Seq(S), NEW e \in S
    PROVE  /\ Append(s, e) \in Seq(S) /\ Len(Append(s, e)) = Len(s) + 1
           /\ Len(s) + 1 \in 1 .. Len(s) + 1
           /\ Longer(s, Len(s) + 1, e, Append(s, e))
<1> PICK r : r = Append(s, e)
    OBVIOUS
<1>1. /\ r \in Seq(S) /\ Len(r) = Len(s) + 1 /\ Len(s) \in Nat
      /\ \A j \in 1 .. Len(s) + 1 : r[j] = IF j <= Len(s) THEN s[j] ELSE e
    OBVIOUS
<1> QED BY <1>1 DEF Longer

(* Inserting one that is not there yet.                                    *)
LEMMA InsertFacts ==
    ASSUME NEW S, NEW s \in Seq(S), NEW e \in S, NEW i \in 1 .. Len(s) + 1,
           Distinct(s), e \notin Elements(s)
    PROVE  /\ InsertAt(s, i, e) \in Seq(S)
           /\ Distinct(InsertAt(s, i, e))
           /\ Elements(InsertAt(s, i, e)) = Elements(s) \cup {e}
           /\ Longer(s, i, e, InsertAt(s, i, e))
<1> PICK r \in Seq(S) : r = InsertAt(s, i, e)
    BY InsertLonger
<1>1. Longer(s, i, e, r)
    BY InsertLonger
<1>2. Distinct(r) /\ Elements(r) = Elements(s) \cup {e}
    BY <1>1, LongerFacts
<1> QED BY <1>1, <1>2

(* Taking one out.                                                         *)
LEMMA RemoveShorter ==
    ASSUME NEW S, NEW s \in Seq(S), NEW i \in DOMAIN s
    PROVE  RemoveAt(s, i) \in Seq(S) /\ Shorter(s, i, RemoveAt(s, i))
<1>0. i \in 1 .. Len(s) /\ Len(s) \in Nat
    OBVIOUS
<1>1. PICK b : b = SubSeq(s, 1, i - 1)
    OBVIOUS
<1>2. PICK c : c = SubSeq(s, i + 1, Len(s))
    OBVIOUS
<1>3. /\ b \in Seq(S) /\ Len(b) = i - 1
      /\ \A j \in 1 .. i - 1 : b[j] = s[j]
    BY <1>0, <1>1
<1>4. /\ c \in Seq(S) /\ Len(c) = Len(s) - i
      /\ \A j \in 1 .. Len(s) - i : c[j] = s[i + j]
    BY <1>0, <1>2
<1>5. PICK r : r = b \o c
    OBVIOUS
<1>6. r \in Seq(S) /\ Len(r) = Len(s) - 1
    BY <1>0, <1>3, <1>4, <1>5
<1>7. ASSUME NEW j \in 1 .. Len(s) - 1
      PROVE  r[j] = IF j < i THEN s[j] ELSE s[j + 1]
    <2>1. CASE j < i
        BY <2>1, <1>0, <1>3, <1>4, <1>5
    <2>2. CASE ~(j < i)
        <3>1. r[j] = c[j - i + 1] /\ j - i + 1 \in 1 .. Len(s) - i
            BY <2>2, <1>0, <1>3, <1>4, <1>5
        <3> QED BY <2>2, <3>1, <1>0, <1>4
    <2> QED BY <2>1, <2>2
<1>8. Shorter(s, i, r)
    BY <1>6, <1>7 DEF Shorter
<1> QED BY <1>1, <1>2, <1>5, <1>6, <1>8 DEF RemoveAt

(* Taking one out that stands there once.                                  *)
LEMMA RemoveFacts ==
    ASSUME NEW S, NEW s \in Seq(S), NEW i \in DOMAIN s, Distinct(s)
    PROVE  /\ RemoveAt(s, i) \in Seq(S)
           /\ Distinct(RemoveAt(s, i))
           /\ Elements(RemoveAt(s, i)) \subseteq Elements(s) \ {s[i]}
           /\ s[i] \in S /\ s[i] \in Elements(s)
           /\ Shorter(s, i, RemoveAt(s, i))
<1>0. i \in 1 .. Len(s) /\ s[i] \in S /\ s[i] \in Elements(s)
    BY DEF Elements
<1> PICK r \in Seq(S) : r = RemoveAt(s, i)
    BY RemoveShorter
<1>1. Shorter(s, i, r)
    BY RemoveShorter
<1>2. Distinct(r) /\ Elements(r) \subseteq Elements(s) \ {s[i]}
    BY <1>0, <1>1, ShorterFacts
<1> QED BY <1>0, <1>1, <1>2

(* Taking the first.                                                       *)
LEMMA TailFacts ==
    ASSUME NEW S, NEW s \in Seq(S), s # <<>>, Distinct(s)
    PROVE  /\ Tail(s) \in Seq(S)
           /\ Distinct(Tail(s))
           /\ Elements(Tail(s)) \subseteq Elements(s) \ {s[1]}
           /\ s[1] \in S /\ 1 \in DOMAIN s /\ s[1] \in Elements(s)
           /\ Shorter(s, 1, Tail(s))
<1>1. PICK r : r = Tail(s)
    OBVIOUS
<1>2. /\ r \in Seq(S) /\ Len(r) = Len(s) - 1 /\ 1 \in 1 .. Len(s)
      /\ \A j \in 1 .. Len(s) - 1 : r[j] = s[j + 1]
      /\ s[1] \in S /\ DOMAIN s = 1 .. Len(s) /\ Len(s) \in Nat
    BY <1>1
<1>3. Shorter(s, 1, r)
    BY <1>2 DEF Shorter
<1>4. Distinct(r) /\ Elements(r) \subseteq Elements(s) \ {s[1]}
    BY <1>2, <1>3, ShorterFacts
<1> QED BY <1>1, <1>2, <1>3, <1>4 DEF Elements

-----------------------------------------------------------------------------
(* The inductive invariant                                                 *)

(* The part of TypeOK that popGift() can change.                           *)
PopTypeOK ==
    /\ giftList \in Seq(Gift)
    /\ bigAnimIsPlaying \in BOOLEAN
    /\ decoding \in Special \cup {None}
    /\ firstGiftCardViewJob \in Gift \cup {None}
    /\ secondGiftCardViewJob \in Gift \cup {None}
    /\ cards \in [Gift -> {"none", "first", "second"}]
    /\ crowded \in BOOLEAN

(* Of the gifts C that came, one that waits is neither in the decoder nor  *)
(* on a card, and one in the decoder has no card.                          *)
FreshOf(list, dec, on, C) ==
    /\ Distinct(list)
    /\ \A g \in Elements(list) : on[g] = "none" /\ g # dec /\ g \in C
    /\ dec # None => on[dec] = "none" /\ dec \in C
    /\ \A g \in Gift : on[g] # "none" => g \in C

Fresh == FreshOf(giftList, decoding, cards, Elements(giftUuids))

IInv == TypeOK /\ Attended /\ TakenByCard /\ OneEffect /\ Fresh

(* What holds of the arguments of popGift().                               *)
Called(list, big, first, second, on) ==
    /\ list \in Seq(Gift)
    /\ big \in BOOLEAN
    /\ first \in Gift \cup {None}
    /\ second \in Gift \cup {None}
    /\ on \in [Gift -> {"none", "first", "second"}]
    /\ first # None => on[first] = "first"
    /\ second # None => on[second] = "second"

(* Whatever popGift() does, it leaves something that will call it again.   *)
LEMMA PopKeeps ==
    ASSUME NEW list, NEW big, NEW first, NEW second, NEW on, NEW C,
           Called(list, big, first, second, on),
           decoding \in Special \cup {None},
           FreshOf(list, decoding, on, C),
           playing' \in Special \cup {None},
           decoding # None \/ playing' # None => big,
           decoding = None \/ playing' = None,
           popGift(list, big, first, second, on)
    PROVE  /\ PopTypeOK' /\ Attended' /\ TakenByCard' /\ OneEffect'
           /\ FreshOf(giftList', decoding', cards', C)
<1> USE GiftAssumption
<1>1. CASE PopEffect(list, big, first, second, on)
    <2>1. /\ list # <<>> /\ list[1] \in Special /\ big = FALSE
          /\ giftList' = Tail(list) /\ bigAnimIsPlaying' = TRUE
          /\ decoding' = list[1] /\ cards' = on /\ crowded' = FALSE
          /\ firstGiftCardViewJob' = first /\ secondGiftCardViewJob' = second
        BY <1>1 DEF PopEffect, IsEffect, Called
    <2>2. decoding = None /\ playing' = None
        BY <2>1
    <2>3. /\ Tail(list) \in Seq(Gift) /\ Distinct(Tail(list))
          /\ Elements(Tail(list)) \subseteq Elements(list) \ {list[1]}
          /\ list[1] \in Elements(list) /\ list[1] \in Gift /\ list[1] # None
        BY <2>1, TailFacts DEF Called, FreshOf
    <2>4. PopTypeOK'
        BY <2>1, <2>3 DEF PopTypeOK, Called
    <2>5. Attended' /\ OneEffect'
        BY <2>1, <2>2, <2>3 DEF Attended, EffectUnderWay, OneEffect
    <2>6. TakenByCard'
        BY <2>1 DEF TakenByCard, Called
    <2>7. FreshOf(Tail(list), list[1], on, C)
        BY <2>3 DEF FreshOf
    <2> QED BY <2>1, <2>4, <2>5, <2>6, <2>7
<1>2. CASE PopCard(list, big, first, second, on)
    <2>1. PICK i \in FirstOrdinary(list) :
              /\ giftList' = RemoveAt(list, i)
              /\ IF first # None
                 THEN /\ firstGiftCardViewJob' = first
                      /\ secondGiftCardViewJob' = list[i]
                      /\ cards' = [on EXCEPT ![list[i]] = "second"]
                 ELSE /\ firstGiftCardViewJob' = list[i]
                      /\ secondGiftCardViewJob' = second
                      /\ cards' = [on EXCEPT ![list[i]] = "first"]
        BY <1>2 DEF PopCard
    <2>2. /\ bigAnimIsPlaying' = big /\ crowded' = FALSE /\ decoding' = decoding
          /\ HasRoom(big, first, second)
        BY <1>2 DEF PopCard
    <2>3. /\ i \in DOMAIN list /\ list[i] \notin Special
        BY DEF FirstOrdinary
    <2>4. PICK g : g = list[i]
        OBVIOUS
    <2>5. PICK r : r = RemoveAt(list, i)
        OBVIOUS
    <2>6. /\ r \in Seq(Gift) /\ Distinct(r)
          /\ Elements(r) \subseteq Elements(list) \ {g}
          /\ g \in Elements(list) /\ g \in Gift /\ g # None /\ g \notin Special
        BY <2>3, <2>4, <2>5, RemoveFacts DEF Called, FreshOf
    <2>7. on[g] = "none" /\ g # decoding /\ g \in C
        BY <2>6 DEF FreshOf
    <2>8. PICK w \in {"first", "second"} : cards' = [on EXCEPT ![g] = w]
        BY <2>1, <2>4
    <2>9. on \in [Gift -> {"none", "first", "second"}]
        BY DEF Called
    <2>10. cards'[g] = w /\ \A h \in Gift : h # g => cards'[h] = on[h]
        BY <2>6, <2>8, <2>9
    <2>11. PopTypeOK'
        <3>1. firstGiftCardViewJob' \in Gift \cup {None}
            BY <2>1, <2>4, <2>6 DEF Called
        <3>2. secondGiftCardViewJob' \in Gift \cup {None}
            BY <2>1, <2>4, <2>6 DEF Called
        <3>3. cards' \in [Gift -> {"none", "first", "second"}]
            BY <2>8, <2>9
        <3> QED BY <3>1, <3>2, <3>3, <2>1, <2>2, <2>5, <2>6 DEF PopTypeOK, Called
    <2>12. Attended'
        BY <2>6, <2>10 DEF Attended, OrdinaryCard
    <2>13. OneEffect'
        BY <2>2 DEF OneEffect, EffectUnderWay
    <2>14. TakenByCard'
        <3>1. CASE first # None
            <4>1. first # g /\ first \in Gift /\ on[first] = "first"
                BY <3>1, <2>7 DEF Called
            <4>2. /\ firstGiftCardViewJob' = first /\ secondGiftCardViewJob' = g
                  /\ cards' = [on EXCEPT ![g] = "second"]
                BY <3>1, <2>1, <2>4
            <4>3. cards'[first] = "first" /\ cards'[g] = "second"
                BY <4>1, <4>2, <2>6, <2>9
            <4> QED BY <4>2, <4>3 DEF TakenByCard
        <3>2. CASE first = None
            <4>1. /\ firstGiftCardViewJob' = g /\ secondGiftCardViewJob' = second
                  /\ cards' = [on EXCEPT ![g] = "first"]
                BY <3>2, <2>1, <2>4
            <4>2. cards'[g] = "first"
                BY <4>1, <2>6, <2>9
            <4>3. second # None => second # g /\ second \in Gift /\ on[second] = "second"
                BY <2>7 DEF Called
            <4>4. second # None => cards'[second] = "second"
                BY <4>1, <4>3, <2>10
            <4> QED BY <4>1, <4>2, <4>4 DEF TakenByCard
        <3> QED BY <3>1, <3>2
    <2>15. FreshOf(giftList', decoding', cards', C)
        <3>1. PICK c : c = cards'
            OBVIOUS
        <3>2. \A h \in Gift : h # g => c[h] = on[h]
            BY <3>1, <2>10
        <3>3. Elements(list) \subseteq Gift
            BY DEF Called, Elements
        <3>4. FreshOf(r, decoding, c, C)
            BY <3>2, <3>3, <2>6, <2>7 DEF FreshOf
        <3> QED BY <3>1, <3>4, <2>1, <2>2, <2>5
    <2> QED BY <2>11, <2>12, <2>13, <2>14, <2>15
<1>3. CASE PopNothing(list, big, first, second, on)
    <2>1. /\ ~IsEffect(list, big)
          /\ HasRoom(big, first, second) => FirstOrdinary(list) = {}
          /\ giftList' = list /\ bigAnimIsPlaying' = big /\ cards' = on
          /\ firstGiftCardViewJob' = first /\ secondGiftCardViewJob' = second
          /\ crowded' = (list # <<>> /\ first \in Special /\ second \in Special)
          /\ decoding' = decoding
        BY <1>3 DEF PopNothing
    <2>2. PopTypeOK'
        BY <2>1 DEF PopTypeOK, Called
    <2>3. OneEffect'
        BY <2>1 DEF OneEffect, EffectUnderWay
    <2>4. TakenByCard'
        BY <2>1 DEF TakenByCard, Called
    <2>5. FreshOf(giftList', decoding', cards', C)
        BY <2>1
    <2>6. ASSUME list # <<>>
          PROVE  EffectUnderWay' \/ OrdinaryCard' \/ Broken' \/ crowded'
        <3>1. CASE big
            BY <3>1, <2>1 DEF Broken, EffectUnderWay
        <3>2. CASE ~big
            <4>1. 1 \in DOMAIN list /\ list[1] \notin Special
                BY <2>6, <2>1, <3>2 DEF IsEffect, Called
            <4>2. 1 \in FirstOrdinary(list)
                BY <4>1 DEF FirstOrdinary
            <4>3. first # None /\ second # None
                BY <4>2, <3>2, <2>1 DEF HasRoom
            <4>4. /\ first \in Gift /\ on[first] = "first"
                  /\ second \in Gift /\ on[second] = "second"
                BY <4>3 DEF Called
            <4>5. CASE first \notin Special
                BY <4>4, <4>5, <2>1 DEF OrdinaryCard
            <4>6. CASE second \notin Special
                BY <4>4, <4>6, <2>1 DEF OrdinaryCard
            <4>7. CASE first \in Special /\ second \in Special
                BY <4>7, <2>6, <2>1
            <4> QED BY <4>5, <4>6, <4>7
        <3> QED BY <3>1, <3>2 DEF Called
    <2>7. Attended'
        BY <2>1, <2>6 DEF Attended
    <2> QED BY <2>2, <2>3, <2>4, <2>5, <2>7
<1> QED BY <1>1, <1>2, <1>3 DEF popGift

(* The place of a new gift is one of the list, or just behind it: those    *)
(* before it are not lighter, and the one that makes room is.              *)
LEMMA PlaceFacts ==
    ASSUME giftList \in Seq(Gift), NEW g \in Gift
    PROVE  /\ Place(g) \in 1 .. Len(giftList) + 1
           /\ \A i \in DOMAIN giftList :
                  i < Place(g) => ~(Weight[giftList[i]] < Weight[g])
           /\ Place(g) \in DOMAIN giftList => Weight[giftList[Place(g)]] < Weight[g]
<1> DEFINE lighter == {i \in DOMAIN giftList : Weight[giftList[i]] < Weight[g]}
<1>1. DOMAIN giftList = 1 .. Len(giftList) /\ Len(giftList) \in Nat
    OBVIOUS
<1>2. lighter \subseteq Nat
    BY <1>1
<1>3. CASE lighter = {}
    <2>1. Place(g) = Len(giftList) + 1
        BY <1>3 DEF Place
    <2> QED BY <2>1, <1>1, <1>3
<1>4. CASE lighter # {}
    <2>1. \E i \in lighter : \A j \in lighter : i <= j
        BY <1>2, <1>4, Least
    <2>2. Place(g) = CHOOSE i \in lighter : \A j \in lighter : i <= j
        BY <1>4 DEF Place
    <2>3. Place(g) \in lighter /\ \A j \in lighter : Place(g) <= j
        BY <2>1, <2>2
    <2>4. PICK p : p = Place(g)
        OBVIOUS
    <2>5. p \in lighter /\ \A j \in lighter : p <= j
        BY <2>3, <2>4
    <2>6. \A i \in DOMAIN giftList : i < p => ~(i \in lighter)
        BY <2>5, <1>1
    <2> QED BY <2>4, <2>5, <2>6, <1>1
<1> QED BY <1>3, <1>4

LEMMA InitIInv == Init => IInv
<1> SUFFICES ASSUME Init PROVE IInv
    OBVIOUS
<1> USE GiftAssumption
<1>1. /\ giftList = <<>> /\ giftUuids = <<>> /\ DOMAIN giftList = {}
      /\ isAdded = TRUE /\ bigAnimIsPlaying = FALSE /\ decoding = None
      /\ playing = None /\ crowded = FALSE
      /\ firstGiftCardViewJob = None /\ secondGiftCardViewJob = None
      /\ cards = [g \in Gift |-> "none"]
    BY DEF Init
<1>2. TypeOK
    <2>1. giftList \in Seq(Gift) /\ giftUuids \in Seq(Gift)
        BY <1>1
    <2>2. cards \in [Gift -> {"none", "first", "second"}]
        BY <1>1
    <2> QED BY <1>1, <2>1, <2>2 DEF TypeOK
<1>3. Attended /\ TakenByCard /\ OneEffect
    BY <1>1 DEF Attended, TakenByCard, OneEffect, EffectUnderWay
<1>4. Fresh
    BY <1>1 DEF Fresh, FreshOf, Distinct, Elements
<1> QED BY <1>2, <1>3, <1>4 DEF IInv

LEMMA onNewGiftIInv ==
    ASSUME IInv, NEW g \in Gift, onNewGift(g) PROVE IInv'
<1> USE GiftAssumption
<1>1. PICK list : list = InsertAt(giftList, Place(g), g)
    OBVIOUS
<1>2. PICK C : C = Elements(giftUuids)
    OBVIOUS
<1>3. /\ g \notin C /\ giftUuids' = Append(giftUuids, g)
      /\ popGift(list, bigAnimIsPlaying, firstGiftCardViewJob,
                 secondGiftCardViewJob, cards)
      /\ isAdded' = isAdded /\ playing' = playing
    BY <1>1, <1>2 DEF onNewGift, Elements
<1>4. /\ FreshOf(giftList, decoding, cards, C) /\ giftList \in Seq(Gift)
      /\ Distinct(giftList) /\ g \notin Elements(giftList)
    BY <1>2, <1>3 DEF IInv, Fresh, FreshOf, TypeOK
<1>5. /\ list \in Seq(Gift) /\ Distinct(list)
      /\ Elements(list) = Elements(giftList) \cup {g}
    BY <1>1, <1>4, PlaceFacts, InsertFacts
<1>6. PICK D : D = C \cup {g}
    OBVIOUS
<1>7. cards[g] = "none" /\ decoding # g
    BY <1>3, <1>4 DEF FreshOf, IInv, TypeOK
<1>8. FreshOf(list, decoding, cards, D)
    BY <1>4, <1>5, <1>6, <1>7 DEF FreshOf
<1>9. Called(list, bigAnimIsPlaying, firstGiftCardViewJob,
             secondGiftCardViewJob, cards)
    BY <1>5 DEF Called, IInv, TypeOK, TakenByCard
<1>10. /\ decoding \in Special \cup {None} /\ playing' \in Special \cup {None}
       /\ decoding # None \/ playing' # None => bigAnimIsPlaying
       /\ decoding = None \/ playing' = None
    BY <1>3 DEF IInv, TypeOK, OneEffect, EffectUnderWay
<1>11. /\ PopTypeOK' /\ Attended' /\ TakenByCard' /\ OneEffect'
       /\ FreshOf(giftList', decoding', cards', D)
    BY <1>3, <1>8, <1>9, <1>10, PopKeeps
<1>12. giftUuids' \in Seq(Gift) /\ Elements(giftUuids') = D
    <2>1. PICK u : u = giftUuids
        OBVIOUS
    <2>2. u \in Seq(Gift)
        BY <2>1 DEF IInv, TypeOK
    <2>3. /\ Append(u, g) \in Seq(Gift)
          /\ DOMAIN Append(u, g) = 1 .. Len(u) + 1 /\ DOMAIN u = 1 .. Len(u)
          /\ Len(u) \in Nat /\ Append(u, g)[Len(u) + 1] = g
          /\ \A i \in 1 .. Len(u) : Append(u, g)[i] = u[i]
        BY <2>2
    <2>4. Elements(Append(u, g)) = Elements(u) \cup {g}
        <3>1. PICK v : v = Append(u, g)
            OBVIOUS
        <3>2. ASSUME NEW i \in 1 .. Len(u) + 1
              PROVE  v[i] = g \/ (i \in DOMAIN u /\ v[i] = u[i])
            <4>1. CASE i = Len(u) + 1
                BY <4>1, <3>1, <2>3
            <4>2. CASE i # Len(u) + 1
                <5>1. i \in 1 .. Len(u)
                    BY <4>2, <2>3
                <5> QED BY <5>1, <3>1, <2>3
            <4> QED BY <4>1, <4>2
        <3>3. Elements(v) \subseteq Elements(u) \cup {g}
            BY <3>1, <3>2, <2>3 DEF Elements
        <3>4. ASSUME NEW i \in DOMAIN u PROVE i \in DOMAIN v /\ v[i] = u[i]
            BY <3>1, <2>3
        <3>5. Elements(u) \subseteq Elements(v)
            BY <3>4 DEF Elements
        <3>6. g \in Elements(v)
            BY <3>1, <2>3 DEF Elements
        <3> QED BY <3>1, <3>3, <3>5, <3>6
    <2> QED BY <2>1, <2>3, <2>4, <1>2, <1>3, <1>6
<1>13. TypeOK'
    BY <1>3, <1>10, <1>11, <1>12 DEF TypeOK, PopTypeOK, IInv
<1>14. Fresh'
    BY <1>11, <1>12 DEF Fresh
<1> QED BY <1>11, <1>13, <1>14 DEF IInv

LEMMA onCompleteIInv == ASSUME IInv, onComplete PROVE IInv'
<1> USE GiftAssumption
<1>1. PICK d : d = decoding
    OBVIOUS
<1>2. PICK C : C = Elements(giftUuids)
    OBVIOUS
<1>3. PICK on : on = cards
    OBVIOUS
<1>4. PICK list : list = giftList
    OBVIOUS
<1>5. /\ d \in Special /\ d \in Gift /\ d # None /\ on[d] = "none" /\ d \in C
      /\ on \in [Gift -> {"none", "first", "second"}]
      /\ FreshOf(list, d, on, C) /\ list \in Seq(Gift)
      /\ bigAnimIsPlaying = TRUE /\ playing = None
    BY <1>1, <1>2, <1>3, <1>4
       DEF IInv, Fresh, FreshOf, onComplete, TypeOK, OneEffect, EffectUnderWay
<1>6. /\ playing' = d /\ decoding' = None /\ giftList' = list
      /\ giftUuids' = giftUuids /\ bigAnimIsPlaying' = bigAnimIsPlaying
      /\ crowded' = crowded /\ isAdded' = isAdded
    BY <1>1, <1>4 DEF onComplete
<1>7. PICK w \in {"first", "second"} : cards' = [on EXCEPT ![d] = w]
    BY <1>1, <1>3 DEF onComplete
<1>8. PICK c : c = cards'
    OBVIOUS
<1>9. /\ c \in [Gift -> {"none", "first", "second"}]
      /\ \A g \in Gift : g # d => c[g] = on[g]
    BY <1>5, <1>7, <1>8
<1>10. /\ firstGiftCardViewJob' \in {firstGiftCardViewJob, d}
       /\ secondGiftCardViewJob' \in {secondGiftCardViewJob, d}
    BY <1>1 DEF onComplete
<1>11. TypeOK'
    BY <1>5, <1>6, <1>8, <1>9, <1>10 DEF IInv, TypeOK
<1>12. Attended' /\ OneEffect'
    BY <1>5, <1>6 DEF Attended, OneEffect, EffectUnderWay
<1>13. TakenByCard'
    <2>1. /\ firstGiftCardViewJob # None => on[firstGiftCardViewJob] = "first"
          /\ secondGiftCardViewJob # None => on[secondGiftCardViewJob] = "second"
        BY <1>3 DEF IInv, TakenByCard
    <2>2. /\ firstGiftCardViewJob # None =>
                 firstGiftCardViewJob # d /\ c[firstGiftCardViewJob] = "first"
          /\ secondGiftCardViewJob # None =>
                 secondGiftCardViewJob # d /\ c[secondGiftCardViewJob] = "second"
        BY <2>1, <1>5, <1>9 DEF IInv, TypeOK
    <2>3. CASE firstGiftCardViewJob # None /\ secondGiftCardViewJob = None
        <3>1. /\ secondGiftCardViewJob' = d /\ cards' = [on EXCEPT ![d] = "second"]
              /\ firstGiftCardViewJob' = firstGiftCardViewJob
            BY <2>3, <1>1, <1>3 DEF onComplete
        <3>2. cards'[d] = "second"
            BY <3>1, <1>5
        <3> QED BY <3>1, <3>2, <2>2, <1>8 DEF TakenByCard
    <2>4. CASE ~(firstGiftCardViewJob # None /\ secondGiftCardViewJob = None)
        <3>1. /\ firstGiftCardViewJob' = d /\ cards' = [on EXCEPT ![d] = "first"]
              /\ secondGiftCardViewJob' = secondGiftCardViewJob
            BY <2>4, <1>1, <1>3 DEF onComplete
        <3>2. cards'[d] = "first"
            BY <3>1, <1>5
        <3> QED BY <3>1, <3>2, <2>2, <1>8 DEF TakenByCard
    <2> QED BY <2>3, <2>4
<1>14. Fresh'
    <2>1. Elements(list) \subseteq Gift
        BY <1>5 DEF Elements
    <2>2. FreshOf(list, None, c, C)
        BY <2>1, <1>5, <1>9 DEF FreshOf
    <2> QED BY <2>2, <1>2, <1>6, <1>8 DEF Fresh
<1> QED BY <1>11, <1>12, <1>13, <1>14 DEF IInv

LEMMA onErrorIInv == ASSUME IInv, onError PROVE IInv'
<1> USE GiftAssumption
<1>1. /\ decoding # None /\ decoding' = None /\ isAdded' = isAdded
      /\ giftList' = giftList /\ giftUuids' = giftUuids /\ crowded' = crowded
      /\ bigAnimIsPlaying' = bigAnimIsPlaying /\ playing' = playing
      /\ firstGiftCardViewJob' = firstGiftCardViewJob
      /\ secondGiftCardViewJob' = secondGiftCardViewJob /\ cards' = cards
    BY DEF onError, slots
<1>2. TypeOK'
    BY <1>1 DEF IInv, TypeOK
<1>3. TakenByCard' /\ OneEffect'
    BY <1>1 DEF IInv, TakenByCard, OneEffect, EffectUnderWay
<1>4. Attended'
    BY <1>1 DEF IInv, Attended, OneEffect, Broken, EffectUnderWay
<1>5. Fresh'
    <2>1. PICK C, on, list : C = Elements(giftUuids) /\ on = cards /\ list = giftList
        OBVIOUS
    <2>2. FreshOf(list, decoding, on, C) /\ list \in Seq(Gift)
        BY <2>1 DEF IInv, Fresh, TypeOK
    <2>3. Elements(list) \subseteq Gift
        BY <2>2 DEF Elements
    <2>4. FreshOf(list, None, on, C)
        BY <2>2, <2>3 DEF FreshOf
    <2> QED BY <2>1, <2>4, <1>1 DEF Fresh
<1> QED BY <1>2, <1>3, <1>4, <1>5 DEF IInv

LEMMA onFinishedIInv == ASSUME IInv, onFinished PROVE IInv'
<1> USE GiftAssumption
<1>1. PICK C : C = Elements(giftUuids)
    OBVIOUS
<1>2. /\ playing # None /\ playing' = None
      /\ isAdded' = isAdded /\ giftUuids' = giftUuids
      /\ popGift(giftList, FALSE, firstGiftCardViewJob, secondGiftCardViewJob, cards)
    BY DEF onFinished
<1>3. /\ FreshOf(giftList, decoding, cards, C)
      /\ Called(giftList, FALSE, firstGiftCardViewJob, secondGiftCardViewJob, cards)
    BY <1>1 DEF IInv, Fresh, TypeOK, TakenByCard, Called
<1>4. decoding = None
    BY <1>2 DEF IInv, OneEffect
<1>5. /\ PopTypeOK' /\ Attended' /\ TakenByCard' /\ OneEffect'
      /\ FreshOf(giftList', decoding', cards', C)
    BY <1>2, <1>3, <1>4, PopKeeps
<1>6. TypeOK'
    BY <1>2, <1>5 DEF TypeOK, PopTypeOK, IInv
<1>7. Fresh'
    BY <1>1, <1>2, <1>5 DEF Fresh
<1> QED BY <1>5, <1>6, <1>7 DEF IInv

LEMMA CardEndsIInv == ASSUME IInv, NEW g \in Gift, CardEnds(g) PROVE IInv'
<1> USE GiftAssumption
<1>1. PICK on : on = [cards EXCEPT ![g] = "none"]
    OBVIOUS
<1>2. PICK first : first = IF cards[g] = "first" THEN None ELSE firstGiftCardViewJob
    OBVIOUS
<1>3. PICK second : second = IF cards[g] = "second" THEN None ELSE secondGiftCardViewJob
    OBVIOUS
<1>4. PICK C : C = Elements(giftUuids)
    OBVIOUS
<1>5. /\ isAdded' = isAdded /\ giftUuids' = giftUuids /\ playing' = playing
      /\ cards[g] # "none"
      /\ \/ /\ g \notin Special /\ giftList # <<>>
            /\ popGift(giftList, bigAnimIsPlaying, first, second, on)
         \/ /\ g \in Special \/ giftList = <<>>
            /\ firstGiftCardViewJob' = first
            /\ secondGiftCardViewJob' = second
            /\ cards' = on
            /\ giftList' = giftList /\ bigAnimIsPlaying' = bigAnimIsPlaying
            /\ decoding' = decoding /\ crowded' = crowded
    BY <1>1, <1>2, <1>3 DEF CardEnds
<1>6. /\ cards \in [Gift -> {"none", "first", "second"}]
      /\ on \in [Gift -> {"none", "first", "second"}]
      /\ on[g] = "none" /\ \A h \in Gift : h # g => on[h] = cards[h]
    BY <1>1 DEF IInv, TypeOK
<1>7. /\ first \in Gift \cup {None} /\ second \in Gift \cup {None}
      /\ first # None => on[first] = "first"
      /\ second # None => on[second] = "second"
    BY <1>2, <1>3, <1>6 DEF IInv, TypeOK, TakenByCard
<1>8. Called(giftList, bigAnimIsPlaying, first, second, on)
    BY <1>6, <1>7 DEF Called, IInv, TypeOK
<1>9. FreshOf(giftList, decoding, on, C)
    <2>1. FreshOf(giftList, decoding, cards, C) /\ giftList \in Seq(Gift)
          /\ decoding \in Special \cup {None}
        BY <1>4 DEF IInv, Fresh, TypeOK
    <2>2. Elements(giftList) \subseteq Gift
        BY <2>1 DEF Elements
    <2> QED BY <2>1, <2>2, <1>6 DEF FreshOf
<1>10. /\ decoding \in Special \cup {None} /\ playing' \in Special \cup {None}
       /\ decoding # None \/ playing' # None => bigAnimIsPlaying
       /\ decoding = None \/ playing' = None
    BY <1>5 DEF IInv, TypeOK, OneEffect, EffectUnderWay
<1>11. CASE g \notin Special /\ giftList # <<>>
    <2>1. popGift(giftList, bigAnimIsPlaying, first, second, on)
        BY <1>5, <1>11
    <2>2. /\ PopTypeOK' /\ Attended' /\ TakenByCard' /\ OneEffect'
          /\ FreshOf(giftList', decoding', cards', C)
        BY <2>1, <1>8, <1>9, <1>10, PopKeeps
    <2>3. TypeOK'
        BY <2>2, <1>5, <1>10 DEF TypeOK, PopTypeOK, IInv
    <2>4. Fresh'
        BY <2>2, <1>4, <1>5 DEF Fresh
    <2> QED BY <2>2, <2>3, <2>4 DEF IInv
<1>12. CASE g \in Special \/ giftList = <<>>
    <2>1. /\ firstGiftCardViewJob' = first /\ secondGiftCardViewJob' = second
          /\ cards' = on /\ giftList' = giftList
          /\ bigAnimIsPlaying' = bigAnimIsPlaying
          /\ decoding' = decoding /\ crowded' = crowded
        BY <1>5, <1>12
    <2>2. TypeOK'
        BY <2>1, <1>5, <1>6, <1>7 DEF IInv, TypeOK
    <2>3. TakenByCard'
        BY <2>1, <1>7 DEF TakenByCard
    <2>4. OneEffect'
        BY <2>1, <1>5 DEF IInv, OneEffect, EffectUnderWay
    <2>5. Attended'
        <3>1. CASE giftList = <<>>
            BY <3>1, <2>1 DEF Attended
        <3>2. CASE g \in Special
            <4>1. OrdinaryCard => OrdinaryCard'
                BY <3>2, <2>1, <1>6 DEF OrdinaryCard
            <4>2. (EffectUnderWay' <=> EffectUnderWay) /\ (Broken' <=> Broken)
                BY <2>1, <1>5 DEF EffectUnderWay, Broken
            <4>3. Attended
                BY DEF IInv
            <4> QED BY <4>1, <4>2, <4>3, <2>1 DEF Attended
        <3> QED BY <3>1, <3>2, <1>12
    <2>6. Fresh'
        BY <2>1, <1>4, <1>5, <1>9 DEF Fresh
    <2> QED BY <2>2, <2>3, <2>4, <2>5, <2>6 DEF IInv
<1> QED BY <1>11, <1>12

(* A step that leaves everything but isAdded alone.                        *)
LEMMA FrameIInv ==
    ASSUME IInv, isAdded' \in BOOLEAN,
           UNCHANGED <<giftList, giftUuids, bigAnimIsPlaying, decoding, playing,
                       slots, cards, crowded>>
    PROVE  IInv'
<1>1. /\ giftList' = giftList /\ giftUuids' = giftUuids /\ crowded' = crowded
      /\ bigAnimIsPlaying' = bigAnimIsPlaying /\ playing' = playing
      /\ decoding' = decoding /\ cards' = cards
      /\ firstGiftCardViewJob' = firstGiftCardViewJob
      /\ secondGiftCardViewJob' = secondGiftCardViewJob
    BY DEF slots
<1> QED BY <1>1 DEF IInv, TypeOK, Attended, TakenByCard, OneEffect, Fresh,
                    EffectUnderWay, Broken, OrdinaryCard

LEMMA NextIInv == IInv /\ [Next]_vars => IInv'
<1> SUFFICES ASSUME IInv, [Next]_vars PROVE IInv'
    OBVIOUS
<1>1. ASSUME NEW g \in Gift, onNewGift(g) PROVE IInv'
    BY <1>1, onNewGiftIInv
<1>2. CASE onComplete
    BY <1>2, onCompleteIInv
<1>3. CASE onError
    BY <1>3, onErrorIInv
<1>4. CASE onFinished
    BY <1>4, onFinishedIInv
<1>5. ASSUME NEW g \in Gift, CardEnds(g) PROVE IInv'
    BY <1>5, CardEndsIInv
<1>6. CASE onDestroy
    BY <1>6, FrameIInv DEF onDestroy
<1>7. CASE UNCHANGED vars
    BY <1>7, FrameIInv DEF vars, IInv, TypeOK
<1> QED BY <1>1, <1>2, <1>3, <1>4, <1>5, <1>6, <1>7 DEF Next, Show

-----------------------------------------------------------------------------
(* The order of the gifts that wait                                        *)

(* Every uuid came once, and the gifts that wait stand in order.           *)
InOrder == Distinct(giftUuids) /\ Ordered(giftList, giftUuids)

(* popGift() takes one gift out, or none.                                  *)
LEMMA PopOrdered ==
    ASSUME NEW list \in Seq(Gift), NEW big, NEW first, NEW second, NEW on, NEW u,
           Distinct(list), Ordered(list, u), popGift(list, big, first, second, on)
    PROVE  Ordered(giftList', u)
<1>1. CASE PopEffect(list, big, first, second, on)
    <2>1. list # <<>> /\ giftList' = Tail(list)
        BY <1>1 DEF PopEffect, IsEffect
    <2>2. Tail(list) \in Seq(Gift) /\ Shorter(list, 1, Tail(list)) /\ 1 \in 1 .. Len(list)
        BY <2>1, TailFacts
    <2>3. Ordered(Tail(list), u)
        BY <2>2, ShorterOrdered
    <2> QED BY <2>1, <2>3
<1>2. CASE PopCard(list, big, first, second, on)
    <2>1. PICK i \in FirstOrdinary(list) : giftList' = RemoveAt(list, i)
        BY <1>2 DEF PopCard
    <2>2. i \in DOMAIN list /\ i \in 1 .. Len(list)
        BY DEF FirstOrdinary
    <2>3. RemoveAt(list, i) \in Seq(Gift) /\ Shorter(list, i, RemoveAt(list, i))
        BY <2>2, RemoveFacts
    <2>4. Ordered(RemoveAt(list, i), u)
        BY <2>2, <2>3, ShorterOrdered
    <2> QED BY <2>1, <2>4
<1>3. CASE PopNothing(list, big, first, second, on)
    BY <1>3 DEF PopNothing
<1> QED BY <1>1, <1>2, <1>3 DEF popGift

(* The new gift goes behind those that are as heavy, which came before it. *)
LEMMA NewOrdered ==
    ASSUME IInv, InOrder, NEW g \in Gift, g \notin Elements(giftUuids)
    PROVE  /\ Ordered(InsertAt(giftList, Place(g), g), Append(giftUuids, g))
           /\ InsertAt(giftList, Place(g), g) \in Seq(Gift)
           /\ Distinct(InsertAt(giftList, Place(g), g))
           /\ Distinct(Append(giftUuids, g))
<1> USE GiftAssumption
<1>1. PICK s, u, p : s = giftList /\ u = giftUuids /\ p = Place(g)
    OBVIOUS
<1>2. PICK v, r : v = Append(u, g) /\ r = InsertAt(s, p, g)
    OBVIOUS
<1>3. /\ s \in Seq(Gift) /\ u \in Seq(Gift) /\ Distinct(s) /\ Distinct(u)
      /\ Ordered(s, u) /\ Elements(s) \subseteq Elements(u) /\ g \notin Elements(s)
    BY <1>1 DEF IInv, TypeOK, Fresh, FreshOf, InOrder
<1>4. /\ Distinct(v) /\ PlaceOf(g, v) = Len(u) + 1 /\ Len(u) \in Nat
      /\ \A x \in Elements(s) : /\ PlaceOf(x, u) \in 1 .. Len(u)
                                /\ PlaceOf(x, v) = PlaceOf(x, u)
    BY <1>1, <1>2, <1>3, PlaceOfFacts
<1>5. /\ p \in 1 .. Len(s) + 1
      /\ \A i \in DOMAIN s : i < p => ~(Weight[s[i]] < Weight[g])
      /\ p \in DOMAIN s => Weight[s[p]] < Weight[g]
    BY <1>1, <1>3, PlaceFacts
<1>6. /\ r \in Seq(Gift) /\ Distinct(r) /\ Longer(s, p, g, r)
    BY <1>2, <1>3, <1>5, InsertFacts
<1>7. \A i \in DOMAIN s : s[i] \in Gift /\ s[i] \in Elements(s) /\ Weight[s[i]] \in Nat
    BY <1>3 DEF Elements
<1>8. Weight[g] \in Nat /\ DOMAIN s = 1 .. Len(s) /\ Len(s) \in Nat
    BY <1>3
<1>9. Ordered(s, v)
    <2>1. ASSUME NEW i \in DOMAIN s, NEW j \in DOMAIN s, i < j
          PROVE  Precedes(s[i], s[j], v)
        <3>1. Precedes(s[i], s[j], u)
            BY <2>1, <1>3 DEF Ordered
        <3>2. PlaceOf(s[i], v) = PlaceOf(s[i], u) /\ PlaceOf(s[j], v) = PlaceOf(s[j], u)
            BY <1>4, <1>7
        <3> QED BY <3>1, <3>2 DEF Precedes
    <2> QED BY <2>1 DEF Ordered
<1>10. ASSUME NEW i \in DOMAIN s, i < p PROVE Precedes(s[i], g, v)
    <2>1. ~(Weight[s[i]] < Weight[g])
        BY <1>5, <1>10
    <2>2. PlaceOf(s[i], v) < PlaceOf(g, v)
        <3>1. PlaceOf(s[i], v) \in 1 .. Len(u)
            BY <1>4, <1>7
        <3> QED BY <3>1, <1>4
    <2>3. PICK w, x : w = Weight[s[i]] /\ x = Weight[g]
        OBVIOUS
    <2>4. w \in Nat /\ x \in Nat /\ ~(w < x)
        BY <2>1, <2>3, <1>7, <1>8
    <2>5. w > x \/ w = x
        BY <2>4
    <2> QED BY <2>2, <2>3, <2>5 DEF Precedes
<1>11. ASSUME NEW i \in DOMAIN s, p <= i PROVE Precedes(g, s[i], v)
    <2>1. p \in DOMAIN s
        BY <1>5, <1>8, <1>11
    <2>2. Weight[s[p]] < Weight[g] /\ Weight[s[p]] \in Nat /\ Weight[s[i]] \in Nat
        BY <2>1, <1>5, <1>7
    <2>3. Weight[s[i]] < Weight[g]
        <3>1. CASE p = i
            BY <3>1, <2>2
        <3>2. CASE p # i
            <4>1. p < i
                BY <3>2, <1>5, <1>8, <1>11
            <4>2. Precedes(s[p], s[i], v)
                BY <4>1, <2>1, <1>9 DEF Ordered
            <4>3. Weight[s[p]] > Weight[s[i]] \/ Weight[s[p]] = Weight[s[i]]
                BY <4>2 DEF Precedes
            <4> QED BY <4>3, <2>2, <1>8
        <3> QED BY <3>1, <3>2
    <2> QED BY <2>2, <2>3, <1>8 DEF Precedes
<1>12. Ordered(r, v)
    <2>1. \A i \in DOMAIN s : i < p => Precedes(s[i], g, v)
        BY <1>10
    <2>2. \A i \in DOMAIN s : p <= i => Precedes(g, s[i], v)
        BY <1>11
    <2>3. s \in Seq(Gift) /\ r \in Seq(Gift) /\ p \in 1 .. Len(s) + 1
        BY <1>3, <1>5, <1>6
    <2> QED BY <2>1, <2>2, <2>3, <1>6, <1>9, LongerOrdered
<1> QED BY <1>1, <1>2, <1>4, <1>6, <1>12

LEMMA InitInOrder == Init => InOrder
BY DEF Init, InOrder, Distinct, Ordered

LEMMA NextInOrder == IInv /\ InOrder /\ [Next]_vars => InOrder'
<1> SUFFICES ASSUME IInv, InOrder, [Next]_vars PROVE InOrder'
    OBVIOUS
<1>0. giftList \in Seq(Gift) /\ Distinct(giftList)
    BY DEF IInv, TypeOK, Fresh, FreshOf
<1>1. ASSUME NEW g \in Gift, onNewGift(g) PROVE InOrder'
    <2>1. PICK v, r : v = Append(giftUuids, g) /\ r = InsertAt(giftList, Place(g), g)
        OBVIOUS
    <2>2. /\ g \notin Elements(giftUuids) /\ giftUuids' = v
          /\ popGift(r, bigAnimIsPlaying, firstGiftCardViewJob,
                     secondGiftCardViewJob, cards)
        BY <2>1, <1>1 DEF onNewGift, Elements
    <2>3. Ordered(r, v) /\ r \in Seq(Gift) /\ Distinct(r) /\ Distinct(v)
        BY <2>1, <2>2, NewOrdered
    <2>4. Ordered(giftList', v)
        BY <2>2, <2>3, PopOrdered
    <2> QED BY <2>2, <2>3, <2>4 DEF InOrder
<1>2. ASSUME giftList' = giftList, giftUuids' = giftUuids PROVE InOrder'
    BY <1>2 DEF InOrder
<1>3. ASSUME NEW big, NEW first, NEW second, NEW on,
             popGift(giftList, big, first, second, on), giftUuids' = giftUuids
      PROVE  InOrder'
    <2>1. PICK u : u = giftUuids
        OBVIOUS
    <2>2. Ordered(giftList', u)
        BY <2>1, <1>0, <1>3, PopOrdered DEF InOrder
    <2> QED BY <2>1, <2>2, <1>3 DEF InOrder
<1>4. CASE onComplete
    BY <1>4, <1>2 DEF onComplete
<1>5. CASE onError
    BY <1>5, <1>2 DEF onError
<1>6. CASE onFinished
    BY <1>6, <1>3 DEF onFinished
<1>7. ASSUME NEW g \in Gift, CardEnds(g) PROVE InOrder'
    <2>1. PICK on, first, second :
              /\ giftUuids' = giftUuids
              /\ \/ popGift(giftList, bigAnimIsPlaying, first, second, on)
                 \/ giftList' = giftList
        BY <1>7 DEF CardEnds
    <2>2. CASE popGift(giftList, bigAnimIsPlaying, first, second, on)
        BY <2>1, <2>2, <1>3
    <2>3. CASE giftList' = giftList
        BY <2>1, <2>3, <1>2
    <2> QED BY <2>1, <2>2, <2>3
<1>8. CASE onDestroy
    BY <1>8, <1>2 DEF onDestroy
<1>9. CASE UNCHANGED vars
    BY <1>9, <1>2 DEF vars
<1> QED BY <1>1, <1>4, <1>5, <1>6, <1>7, <1>8, <1>9 DEF Next, Show

-----------------------------------------------------------------------------
(* The theorems                                                            *)

(* Whatever arrives and ends in whatever order.                            *)
THEOREM Inductive == Spec => []IInv
BY InitIInv, NextIInv, PTL DEF Spec

(* The fields have their types.                                            *)
THEOREM TypeCorrect == Spec => []TypeOK
<1>1. IInv => TypeOK
    BY DEF IInv
<1> QED BY <1>1, Inductive, PTL

(* While gifts wait, something is on the screen whose end calls popGift(), *)
(* unless a decoder has failed or special gifts' cards held both           *)
(* containers at the last call.                                            *)
THEOREM AlwaysAttended == Spec => []Attended
<1>1. IInv => Attended
    BY DEF IInv
<1> QED BY <1>1, Inductive, PTL

(* A container never counts as taken for a card that is gone.              *)
THEOREM AlwaysTakenByCard == Spec => []TakenByCard
<1>1. IInv => TakenByCard
    BY DEF IInv
<1> QED BY <1>1, Inductive, PTL

(* Special gifts are decoded and played one at a time.                     *)
THEOREM AlwaysOneEffect == Spec => []OneEffect
<1>1. IInv => OneEffect
    BY DEF IInv
<1> QED BY <1>1, Inductive, PTL

(* The heavier gift waits before the lighter one, and of two of the same   *)
(* weight the one that came first, whatever onNewGift() put in and         *)
(* popGift() took out in between.                                          *)
THEOREM AlwaysByWeight == Spec => []ByWeight
<1>1. InOrder => ByWeight
    BY DEF InOrder, Ordered, Precedes, ByWeight
<1> QED BY <1>1, InitInOrder, NextInOrder, Inductive, PTL DEF Spec

-----------------------------------------------------------------------------
(* The windows of those on the call                                        *)

(* What the screen is always: a list of users that begins with the host    *)
(* and has nobody twice, as many windows as the layout needs, nobody in    *)
(* two of them, nobody in them or among the uids who is not in the list.   *)
UiType ==
    [liveUserWithUids : Seq(User), liveContainers : Seq(User \cup {Empty}),
     addedUidSet : SUBSET User, isMicrophoneUser : BOOLEAN, broadcasting : BOOLEAN]

Tidy(windows, users) ==
    /\ windows \in Seq(User \cup {Empty})
    /\ \A i, j \in DOMAIN windows :
           windows[i] = windows[j] /\ windows[i] # Empty => i = j
    /\ \A i \in DOMAIN windows : windows[i] = Empty \/ windows[i] \in Range(users)

Sound(s) ==
    /\ s \in UiType
    /\ s.liveUserWithUids \in UserList \cup {<<>>}
    /\ \/ s.liveUserWithUids = <<>>
       \/ Len(s.liveContainers) = needLayoutCount(Len(s.liveUserWithUids))
    /\ Tidy(s.liveContainers, s.liveUserWithUids)
    /\ s.addedUidSet \subseteq Range(s.liveUserWithUids)

(* What it is unless a list came too late: everybody has a picture, and    *)
(* window number i shows user number i.                                    *)
Shows(windows, users) ==
    \A i \in DOMAIN windows : windows[i] = IF i <= Len(users) THEN users[i] ELSE Empty

Pictured(s) ==
    /\ s.addedUidSet = Range(s.liveUserWithUids)
    /\ Shows(s.liveContainers, s.liveUserWithUids)

(* The phone does not send unless the flag is set.                         *)
Flagged(s) == s.broadcasting => s.isMicrophoneUser

(* The layouts: never fewer windows than users up to nine.                 *)
LEMMA LayoutCounts ==
    ASSUME NEW n \in Nat
    PROVE  /\ needLayoutCount(n) \in 1 .. 9
           /\ n <= 9 => n <= needLayoutCount(n)
           /\ n \in 1 .. 9 => IF n \in {4, 6, 8, 9} THEN needLayoutCount(n - 1) >= n
                                           ELSE needLayoutCount(n - 1) = n - 1 \/ n = 1
<1>1. needLayoutCount(n) \in {1, 2, 4, 6, 9} /\ (n <= 9 => n <= needLayoutCount(n))
    BY DEF needLayoutCount
<1>2. ASSUME n \in 1 .. 9
      PROVE  IF n \in {4, 6, 8, 9} THEN needLayoutCount(n - 1) >= n
                                   ELSE needLayoutCount(n - 1) = n - 1 \/ n = 1
    <2>1. n \in {1, 2, 3, 4, 5, 6, 7, 8, 9}
        BY <1>2
    <2> QED BY <2>1 DEF needLayoutCount
<1> QED BY <1>1, <1>2

(* Windows are taken away, or empty ones added, at the end.                *)
LEMMA LayoutFacts ==
    ASSUME NEW users \in Seq(User), NEW windows, Tidy(windows, users), NEW n \in Nat
    PROVE  /\ Tidy(userAndLayout(windows, n), users)
           /\ Len(userAndLayout(windows, n)) = needLayoutCount(n)
           /\ Shows(windows, users) /\ Len(users) <= Len(windows)
                 => Shows(userAndLayout(windows, n), users)
<1> PICK m : m = needLayoutCount(n)
    OBVIOUS
<1>1. m \in 1 .. 9
    BY LayoutCounts
<1> PICK r : r = userAndLayout(windows, n)
    OBVIOUS
<1>2. r = [i \in 1 .. m |-> IF i <= Len(windows) THEN windows[i] ELSE Empty]
    BY DEF userAndLayout
<1>3. /\ windows \in Seq(User \cup {Empty}) /\ DOMAIN windows = 1 .. Len(windows)
      /\ Len(windows) \in Nat /\ Len(users) \in Nat
    BY DEF Tidy
<1>4. /\ DOMAIN r = 1 .. m /\ r \in [1 .. m -> User \cup {Empty}]
      /\ \A i \in 1 .. m : r[i] = IF i <= Len(windows) THEN windows[i] ELSE Empty
    BY <1>2, <1>3
<1>5. r \in Seq(User \cup {Empty}) /\ Len(r) = m
    BY <1>1, <1>4
<1>6. ASSUME NEW i \in DOMAIN r, NEW j \in DOMAIN r, r[i] = r[j], r[i] # Empty PROVE i = j
    BY <1>3, <1>4, <1>6 DEF Tidy
<1>7. ASSUME NEW i \in DOMAIN r PROVE r[i] = Empty \/ r[i] \in Range(users)
    BY <1>3, <1>4 DEF Tidy
<1>8. ASSUME Shows(windows, users), Len(users) <= Len(windows) PROVE Shows(r, users)
    BY <1>3, <1>4, <1>8 DEF Shows
<1> QED BY <1>5, <1>6, <1>7, <1>8 DEF Tidy

(* Taking out of a list one who stands in it once at most.                 *)
LEMMA RemovedFacts ==
    ASSUME NEW S, NEW s \in Seq(S), NEW u,
           \A i, j \in DOMAIN s : s[i] = u /\ s[j] = u => i = j
    PROVE  /\ Removed(s, u) \in Seq(S)
           /\ u \notin Range(s) => Removed(s, u) = s
           /\ \A p \in DOMAIN s : s[p] = u => Shorter(s, p, Removed(s, u))
<1>1. CASE u \notin Range(s)
    BY <1>1 DEF Removed, Range
<1>2. CASE u \in Range(s)
    <2>1. PICK p \in DOMAIN s : s[p] = u
        BY <1>2 DEF Range
    <2>2. \A i \in DOMAIN s : s[i] = u => i = p
        BY <2>1
    <2>3. (CHOOSE i \in DOMAIN s : s[i] = u) = p
        BY <2>1, <2>2
    <2>4. Removed(s, u) = RemoveAt(s, p)
        BY <1>2, <2>3 DEF Removed
    <2>5. Removed(s, u) \in Seq(S) /\ Shorter(s, p, Removed(s, u))
        BY <2>4, RemoveShorter
    <2> QED BY <1>2, <2>2, <2>5
<1> QED BY <1>1, <1>2

(* A user who is not the host leaves the list,                             *)
LEMMA UserLeaves ==
    ASSUME NEW users \in UserList, NEW u \in Range(users), u # Host
    PROVE  /\ Removed(users, u) \in UserList
           /\ Range(Removed(users, u)) = Range(users) \ {u}
           /\ Len(Removed(users, u)) = Len(users) - 1
           /\ \E p \in 2 .. Len(users) : /\ users[p] = u
                                         /\ Shorter(users, p, Removed(users, u))
<1>1. /\ users \in Seq(User) /\ DOMAIN users = 1 .. Len(users) /\ Len(users) \in Nat
      /\ users[1] = Host /\ \A i, j \in DOMAIN users : users[i] = users[j] => i = j
    BY DEF UserList, IsInjective
<1>2. PICK p \in DOMAIN users : users[p] = u
    BY DEF Range
<1>3. p \in 2 .. Len(users)
    BY <1>1, <1>2
<1> PICK r : r = Removed(users, u)
    OBVIOUS
<1>4. r \in Seq(User) /\ Shorter(users, p, r)
    BY <1>1, <1>2, RemovedFacts
<1>5. /\ DOMAIN r = 1 .. Len(users) - 1 /\ Len(r) = Len(users) - 1
      /\ \A j \in 1 .. Len(users) - 1 : r[j] = IF j < p THEN users[j] ELSE users[j + 1]
    BY <1>1, <1>4 DEF Shorter
<1>6. Distinct(r) /\ Elements(r) \subseteq Elements(users) \ {u}
    <2>1. Distinct(users)
        BY <1>1 DEF Distinct
    <2> QED BY <1>1, <1>2, <1>4, <2>1, ShorterFacts
<1>7. ASSUME NEW i \in DOMAIN users, i # p PROVE users[i] \in Range(r)
    <2>1. CASE i < p
        <3>1. i \in DOMAIN r /\ r[i] = users[i]
            BY <1>1, <1>3, <1>5, <2>1
        <3> QED BY <3>1 DEF Range
    <2>2. CASE i > p
        <3>1. i - 1 \in DOMAIN r /\ r[i - 1] = users[i]
            BY <1>1, <1>3, <1>5, <2>2
        <3> QED BY <3>1 DEF Range
    <2> QED BY <1>1, <1>3, <1>7, <2>1, <2>2
<1>8. Range(r) = Range(users) \ {u}
    <2>1. Range(r) \subseteq Range(users) \ {u}
        BY <1>6 DEF Elements, Range
    <2>2. Range(users) \ {u} \subseteq Range(r)
        BY <1>2, <1>7 DEF Range
    <2> QED BY <2>1, <2>2
<1>9. r # <<>> /\ r[1] = Host /\ IsInjective(r)
    BY <1>1, <1>3, <1>5, <1>6 DEF Distinct, IsInjective
<1> QED BY <1>2, <1>3, <1>4, <1>5, <1>8, <1>9 DEF UserList

(* and the window, if the user has one: the others keep their order.       *)
LEMMA WindowLeaves ==
    ASSUME NEW users \in UserList, NEW u \in Range(users), u # Host,
           NEW windows, Tidy(windows, users), u # Empty
    PROVE  /\ Tidy(Removed(windows, u), Removed(users, u))
           /\ Shows(windows, users) /\ Len(users) <= Len(windows)
                 => /\ Shows(Removed(windows, u), Removed(users, u))
                    /\ Len(Removed(users, u)) <= Len(Removed(windows, u))
<1> PICK r : r = Removed(windows, u)
    OBVIOUS
<1> PICK q : q = Removed(users, u)
    OBVIOUS
<1>1. /\ windows \in Seq(User \cup {Empty}) /\ DOMAIN windows = 1 .. Len(windows)
      /\ Len(windows) \in Nat
      /\ \A i, j \in DOMAIN windows : windows[i] = windows[j] /\ windows[i] # Empty => i = j
      /\ \A i \in DOMAIN windows : windows[i] = Empty \/ windows[i] \in Range(users)
    BY DEF Tidy
<1>2. \A i, j \in DOMAIN windows : windows[i] = u /\ windows[j] = u => i = j
    BY <1>1
<1>3. /\ r \in Seq(User \cup {Empty})
      /\ u \notin Range(windows) => r = windows
      /\ \A p \in DOMAIN windows : windows[p] = u => Shorter(windows, p, r)
    BY <1>1, <1>2, RemovedFacts
<1>4. /\ q \in UserList /\ Range(q) = Range(users) \ {u} /\ Len(q) = Len(users) - 1
      /\ \E p \in 2 .. Len(users) : users[p] = u /\ Shorter(users, p, q)
    BY UserLeaves
<1>5. PICK p \in 2 .. Len(users) : users[p] = u /\ Shorter(users, p, q)
    BY <1>4
<1>6. users \in Seq(User) /\ Len(users) \in Nat /\ DOMAIN users = 1 .. Len(users)
    BY DEF UserList
<1>7. CASE u \notin Range(windows)
    <2>1. r = windows /\ \A i \in DOMAIN windows : windows[i] # u
        BY <1>3, <1>7 DEF Range
    <2>2. Tidy(r, q)
        BY <1>1, <1>4, <2>1 DEF Tidy
    <2>3. ~(Shows(windows, users) /\ Len(users) <= Len(windows))
        <3>1. Shows(windows, users) /\ Len(users) <= Len(windows)
                 => p \in DOMAIN windows /\ windows[p] = users[p]
            BY <1>1, <1>6 DEF Shows
        <3> QED BY <3>1, <2>1, <1>5
    <2> QED BY <2>2, <2>3
<1>8. CASE u \in Range(windows)
    <2>1. PICK k \in DOMAIN windows : windows[k] = u
        BY <1>8 DEF Range
    <2>2. /\ DOMAIN r = 1 .. Len(windows) - 1 /\ Len(r) = Len(windows) - 1
          /\ \A j \in 1 .. Len(windows) - 1 : r[j] = IF j < k THEN windows[j] ELSE windows[j + 1]
        <3>1. Shorter(windows, k, r)
            BY <1>3, <2>1
        <3>2. Len(windows) - 1 \in Nat
            BY <1>1, <2>1
        <3> QED BY <1>3, <3>1, <3>2 DEF Shorter
    <2>3. ASSUME NEW i \in DOMAIN r
          PROVE  \E j \in DOMAIN windows : /\ j = IF i < k THEN i ELSE i + 1
                                           /\ r[i] = windows[j] /\ j # k
        BY <1>1, <2>1, <2>2
    <2>4. ASSUME NEW i \in DOMAIN r, NEW j \in DOMAIN r, r[i] = r[j], r[i] # Empty
          PROVE  i = j
        <3>1. PICK a \in DOMAIN windows : a = (IF i < k THEN i ELSE i + 1) /\ r[i] = windows[a]
            BY <2>3
        <3>2. PICK b \in DOMAIN windows : b = (IF j < k THEN j ELSE j + 1) /\ r[j] = windows[b]
            BY <2>3
        <3>3. a = b
            BY <1>1, <2>4, <3>1, <3>2
        <3> QED BY <1>1, <2>1, <2>2, <3>1, <3>2, <3>3
    <2>5. ASSUME NEW i \in DOMAIN r PROVE r[i] = Empty \/ r[i] \in Range(q)
        <3>1. PICK j \in DOMAIN windows : r[i] = windows[j] /\ j # k
            BY <2>3
        <3>2. windows[j] # u
            BY <1>2, <2>1, <3>1
        <3> QED BY <1>1, <1>4, <3>1, <3>2
    <2>6. Tidy(r, q)
        BY <1>3, <2>4, <2>5 DEF Tidy
    <2>7. ASSUME Shows(windows, users), Len(users) <= Len(windows)
          PROVE  Shows(r, q) /\ Len(q) <= Len(r)
        <3>1. p \in DOMAIN windows /\ windows[p] = u
            BY <1>1, <1>5, <1>6, <2>7 DEF Shows
        <3>2. k = p
            BY <1>2, <2>1, <3>1
        <3>3. /\ Len(q) = Len(users) - 1
              /\ \A j \in 1 .. Len(users) - 1 : q[j] = IF j < p THEN users[j] ELSE users[j + 1]
            BY <1>5 DEF Shorter
        <3>4. ASSUME NEW i \in DOMAIN r PROVE r[i] = IF i <= Len(q) THEN q[i] ELSE Empty
            <4>1. /\ i \in 1 .. Len(windows) /\ i + 1 \in 1 .. Len(windows)
                  /\ windows[i] = (IF i <= Len(users) THEN users[i] ELSE Empty)
                  /\ windows[i + 1] = (IF i + 1 <= Len(users) THEN users[i + 1] ELSE Empty)
                BY <1>1, <2>2, <2>7 DEF Shows
            <4>2. CASE i < p
                BY <1>6, <2>2, <3>2, <3>3, <4>1, <4>2
            <4>3. CASE ~(i < p)
                <5>1. r[i] = windows[i + 1]
                    BY <2>2, <3>2, <4>3
                <5>2. CASE i <= Len(q)
                    <6>1. i \in 1 .. Len(users) - 1 /\ i + 1 <= Len(users)
                        BY <1>6, <3>3, <4>1, <5>2
                    <6> QED BY <3>3, <4>1, <4>3, <5>1, <5>2, <6>1
                <5>3. CASE ~(i <= Len(q))
                    BY <1>6, <3>3, <4>1, <5>1, <5>3
                <5> QED BY <5>2, <5>3
            <4> QED BY <4>2, <4>3
        <3> QED BY <1>1, <1>6, <2>2, <2>7, <3>3, <3>4 DEF Shows
    <2> QED BY <2>6, <2>7
<1> QED BY <1>7, <1>8

LEMMA UserFacts == /\ Host \in User /\ Me \in User /\ Host # Me /\ Empty \notin User
                   /\ Guest \subseteq User /\ Host \notin Guest /\ NoList \notin Seq(User)
                   /\ MaxCall \in Nat /\ MaxCall >= 1
<1>1. /\ Host # Me /\ Host \notin Other /\ Empty \notin Other \cup {Host, Me}
      /\ NoList \notin Seq(Other \cup {Host, Me}) /\ MaxCall \in Nat \ {0}
    BY LiveWithAssumption
<1>2. User = Other \cup {Host, Me}
    BY DEF User, Guest
<1>3. Guest = Other \cup {Me}
    BY DEF Guest
<1> QED BY <1>1, <1>2, <1>3

(* hungUpLiveWithUI.                                                       *)
LEMMA HungUpFacts ==
    ASSUME NEW s, Sound(s), NEW u \in Range(s.liveUserWithUids), u # Host
    PROVE  LET t == hungUpLiveWithUI(s, u)
           IN  /\ Sound(t)
               /\ Range(t.liveUserWithUids) = Range(s.liveUserWithUids) \ {u}
               /\ Len(t.liveUserWithUids) = Len(s.liveUserWithUids) - 1
               /\ Pictured(s) /\ Len(s.liveUserWithUids) <= 9 => Pictured(t)
               /\ t.isMicrophoneUser <=> s.isMicrophoneUser /\ u # Me
               /\ t.broadcasting <=> s.broadcasting /\ ~(s.isMicrophoneUser /\ u = Me)
<1> PICK users, windows : users = s.liveUserWithUids /\ windows = s.liveContainers
    OBVIOUS
<1>1. /\ s \in UiType /\ users \in Seq(User) /\ windows \in Seq(User \cup {Empty})
      /\ s.addedUidSet \subseteq Range(users) /\ Tidy(windows, users)
    BY DEF Sound, UiType
<1>2. users # <<>>
    BY DEF Range
<1>3. users \in UserList /\ Len(windows) = needLayoutCount(Len(users))
    BY <1>2 DEF Sound
<1>4. u \in User /\ u # Empty
    <2>1. u \in User
        BY <1>1 DEF Range
    <2> QED BY <2>1, UserFacts
<1> PICK users2 : users2 = Removed(users, u)
    OBVIOUS
<1> PICK left : left = Removed(windows, u)
    OBVIOUS
<1>5. /\ users2 \in UserList /\ Range(users2) = Range(users) \ {u}
      /\ Len(users2) = Len(users) - 1
    BY <1>3, UserLeaves
<1>6. /\ Tidy(left, users2)
      /\ Shows(windows, users) /\ Len(users) <= Len(windows)
                 => Shows(left, users2) /\ Len(users2) <= Len(left)
    BY <1>1, <1>3, <1>4, WindowLeaves
<1>7. users2 \in Seq(User) /\ Len(users2) \in Nat /\ Len(users) \in Nat
    BY <1>1, <1>5 DEF UserList
<1> PICK laid : laid = userAndLayout(left, Len(users2))
    OBVIOUS
<1>8. /\ Tidy(laid, users2) /\ Len(laid) = needLayoutCount(Len(users2))
      /\ Shows(left, users2) /\ Len(users2) <= Len(left) => Shows(laid, users2)
    BY <1>6, <1>7, LayoutFacts
<1> PICK t : t = hungUpLiveWithUI(s, u)
    OBVIOUS
<1>9. /\ t = [liveUserWithUids |-> users2,
              addedUidSet      |-> s.addedUidSet \ {u},
              liveContainers   |-> laid,
              isMicrophoneUser |-> s.isMicrophoneUser /\ ~(s.isMicrophoneUser /\ u = Me),
              broadcasting     |-> s.broadcasting /\ ~(s.isMicrophoneUser /\ u = Me)]
    BY DEF hungUpLiveWithUI
<1>10. /\ t.liveUserWithUids = users2 /\ t.addedUidSet = s.addedUidSet \ {u}
       /\ t.liveContainers = laid
       /\ t.isMicrophoneUser = (s.isMicrophoneUser /\ ~(s.isMicrophoneUser /\ u = Me))
       /\ t.broadcasting = (s.broadcasting /\ ~(s.isMicrophoneUser /\ u = Me))
    BY <1>9
<1>11. laid \in Seq(User \cup {Empty})
    BY <1>8 DEF Tidy
<1>12. t \in UiType
    BY <1>1, <1>7, <1>9, <1>11 DEF UiType
<1>13. Sound(t)
    BY <1>1, <1>5, <1>8, <1>10, <1>12 DEF Sound
<1>14. ASSUME Pictured(s), Len(users) <= 9 PROVE Pictured(t)
    <2>1. Shows(windows, users) /\ s.addedUidSet = Range(users)
        BY <1>14 DEF Pictured
    <2>2. Len(users) <= Len(windows)
        BY <1>3, <1>7, <1>14, LayoutCounts
    <2> QED BY <1>5, <1>6, <1>8, <1>10, <2>1, <2>2 DEF Pictured
<1>15. /\ t.isMicrophoneUser <=> s.isMicrophoneUser /\ u # Me
       /\ t.broadcasting <=> s.broadcasting /\ ~(s.isMicrophoneUser /\ u = Me)
    BY <1>1, <1>10 DEF UiType
<1> QED BY <1>5, <1>10, <1>13, <1>14, <1>15

(* A user comes at the end of the list.                                    *)
LEMMA UserComes ==
    ASSUME NEW users \in UserList \cup {<<>>}, NEW u \in User, u \notin Range(users),
           users = <<>> => u = Host
    PROVE  /\ users \in Seq(User) /\ Append(users, u) \in UserList
           /\ Range(Append(users, u)) = Range(users) \cup {u}
           /\ Len(Append(users, u)) = Len(users) + 1
           /\ \A i \in 1 .. Len(users) + 1 :
                  Append(users, u)[i] = IF i <= Len(users) THEN users[i] ELSE u
<1>1. users \in Seq(User) /\ DOMAIN users = 1 .. Len(users) /\ Len(users) \in Nat
    <2>1. <<>> \in Seq(User)
        OBVIOUS
    <2>2. users \in Seq(User)
        BY <2>1 DEF UserList
    <2> QED BY <2>2
<1>2. \A i, j \in DOMAIN users : users[i] = users[j] => i = j
    BY <1>1 DEF UserList, IsInjective
<1> PICK r : r = Append(users, u)
    OBVIOUS
<1>3. /\ r \in Seq(User) /\ Len(r) = Len(users) + 1 /\ DOMAIN r = 1 .. Len(users) + 1
      /\ \A i \in 1 .. Len(users) + 1 : r[i] = IF i <= Len(users) THEN users[i] ELSE u
    BY <1>1
<1>4. Longer(users, Len(users) + 1, u, r)
    BY <1>1, <1>3 DEF Longer
<1>5. Distinct(r) /\ Elements(r) = Elements(users) \cup {u}
    <2>1. Distinct(users) /\ u \notin Elements(users)
        BY <1>2 DEF Distinct, Elements, Range
    <2>2. Len(users) + 1 \in 1 .. Len(users) + 1
        BY <1>1
    <2>3. users \in Seq(User) /\ r \in Seq(User)
        BY <1>1, <1>3
    <2> QED BY ONLY <1>4, <2>1, <2>2, <2>3, u \in User, LongerFacts
<1>6. r # <<>> /\ r[1] = Host
    <2>1. CASE users = <<>>
        BY <1>3, <2>1
    <2>2. CASE users # <<>>
        BY <1>1, <1>3, <2>2 DEF UserList
    <2> QED BY <2>1, <2>2
<1>7. IsInjective(r)
    BY <1>5 DEF Distinct, IsInjective
<1>8. Range(r) = Range(users) \cup {u}
    BY <1>5 DEF Elements, Range
<1> QED BY <1>1, <1>3, <1>6, <1>7, <1>8 DEF UserList

(* A further window shows who comes.                                       *)
LEMMA WindowComes ==
    ASSUME NEW users \in UserList \cup {<<>>}, NEW u \in User, u \notin Range(users),
           users = <<>> => u = Host,
           NEW windows, Tidy(windows, users), NEW i \in 1 .. Len(windows) + 1,
           NEW r \in Seq(User \cup {Empty}), Longer(windows, i, u, r)
    PROVE  /\ Tidy(r, Append(users, u))
           /\ Shows(windows, users) /\ i = Len(users) + 1 => Shows(r, Append(users, u))
<1> PICK users2 : users2 = Append(users, u)
    OBVIOUS
<1>1. /\ Range(users2) = Range(users) \cup {u} /\ Len(users2) = Len(users) + 1
      /\ \A j \in 1 .. Len(users) + 1 : users2[j] = IF j <= Len(users) THEN users[j] ELSE u
      /\ users \in Seq(User) /\ Len(users) \in Nat
    BY UserComes
<1>2. /\ windows \in Seq(User \cup {Empty}) /\ DOMAIN windows = 1 .. Len(windows)
      /\ Len(windows) \in Nat
      /\ \A j, k \in DOMAIN windows : windows[j] = windows[k] /\ windows[j] # Empty => j = k
      /\ \A j \in DOMAIN windows : windows[j] = Empty \/ windows[j] \in Range(users)
    BY DEF Tidy
<1>3. /\ DOMAIN r = 1 .. Len(windows) + 1 /\ Len(r) = Len(windows) + 1
      /\ \A j \in 1 .. Len(windows) + 1 :
             r[j] = IF j < i THEN windows[j] ELSE IF j = i THEN u ELSE windows[j - 1]
    BY <1>2 DEF Longer
<1>4. \A j \in DOMAIN windows : windows[j] # u
    BY <1>2, UserFacts
<1>5. ASSUME NEW j \in DOMAIN r, j # i
      PROVE  \E k \in DOMAIN windows : k = (IF j < i THEN j ELSE j - 1) /\ r[j] = windows[k]
    BY <1>2, <1>3, <1>5
<1>6. ASSUME NEW j \in DOMAIN r, NEW k \in DOMAIN r, r[j] = r[k], r[j] # Empty PROVE j = k
    <2>1. r[i] = u
        BY <1>3
    <2>2. CASE j = i \/ k = i
        BY <1>4, <1>5, <1>6, <2>1, <2>2
    <2>3. CASE j # i /\ k # i
        <3>1. PICK a \in DOMAIN windows : a = (IF j < i THEN j ELSE j - 1) /\ r[j] = windows[a]
            BY <1>5, <2>3
        <3>2. PICK b \in DOMAIN windows : b = (IF k < i THEN k ELSE k - 1) /\ r[k] = windows[b]
            BY <1>5, <2>3
        <3>3. a = b
            BY <1>2, <1>6, <3>1, <3>2
        <3> QED BY <1>3, <2>3, <3>1, <3>2, <3>3
    <2> QED BY <2>2, <2>3
<1>7. ASSUME NEW j \in DOMAIN r PROVE r[j] = Empty \/ r[j] \in Range(users2)
    <2>1. CASE j = i
        BY <1>1, <1>3, <2>1
    <2>2. CASE j # i
        BY <1>1, <1>2, <1>5, <2>2
    <2> QED BY <2>1, <2>2
<1>8. ASSUME Shows(windows, users), i = Len(users) + 1 PROVE Shows(r, users2)
    <2>1. ASSUME NEW j \in DOMAIN r
          PROVE  r[j] = IF j <= Len(users2) THEN users2[j] ELSE Empty
        <3>1. CASE j = i
            BY <1>1, <1>3, <1>8, <3>1
        <3>2. CASE j < i
            <4>1. j \in DOMAIN windows /\ j <= Len(users) /\ r[j] = windows[j]
                BY <1>1, <1>2, <1>3, <1>8, <3>2
            <4> QED BY <1>1, <1>3, <1>8, <4>1 DEF Shows
        <3>3. CASE j > i
            <4>1. /\ j - 1 \in DOMAIN windows /\ ~(j - 1 <= Len(users))
                  /\ r[j] = windows[j - 1] /\ ~(j <= Len(users2))
                BY <1>1, <1>2, <1>3, <1>8, <3>3
            <4> QED BY <1>8, <4>1 DEF Shows
        <3> QED BY <1>3, <3>1, <3>2, <3>3
    <2> QED BY <2>1 DEF Shows
<1> QED BY <1>6, <1>7, <1>8 DEF Tidy

(* The viewer's own window, in both cases of liveWithController.           *)
LEMMA OwnWindow ==
    ASSUME NEW users \in UserList, Me \notin Range(users), NEW windows,
           Tidy(windows, users), Len(windows) = needLayoutCount(Len(users))
    PROVE  LET users2 == Append(users, Me)
               placed == PlaceLocalVideo(windows, Len(users2))
           IN  /\ Tidy(placed, users2)
               /\ Shows(windows, users) /\ Len(users2) <= 9
                     => Shows(placed, users2) /\ Len(users2) <= Len(placed)
<1> PICK n : n = Len(users) + 1
    OBVIOUS
<1> PICK users2 : users2 = Append(users, Me)
    OBVIOUS
<1>1. /\ Me \in User /\ Me \in User \cup {Empty} /\ users # <<>> /\ users \in Seq(User)
      /\ Len(users) \in Nat /\ Len(users) > 0 /\ n \in Nat /\ n >= 2 /\ n - 1 = Len(users)
    <2>1. users \in Seq(User) /\ users # <<>>
        BY DEF UserList
    <2> QED BY <2>1, UserFacts
<1>2. Len(users2) = n
    BY <1>1
<1>3. windows \in Seq(User \cup {Empty}) /\ Len(windows) \in Nat
      /\ DOMAIN windows = 1 .. Len(windows)
    BY DEF Tidy
<1> PICK placed : placed = PlaceLocalVideo(windows, n)
    OBVIOUS
<1>4. CASE n \in {4, 6, 8, 9}
    <2> PICK b : b = Front(windows)
        OBVIOUS
    <2>1. needLayoutCount(n - 1) >= n
        BY <1>1, <1>4, LayoutCounts
    <2>2. Len(windows) >= n
        BY <1>1, <2>1
    <2>3. /\ b \in Seq(User \cup {Empty}) /\ Len(b) = Len(windows) - 1
          /\ DOMAIN b = 1 .. Len(windows) - 1
          /\ \A i \in 1 .. Len(windows) - 1 : b[i] = windows[i]
        BY <1>3, <1>1, <2>2 DEF Front
    <2>4. \A i \in DOMAIN b : i \in DOMAIN windows /\ b[i] = windows[i]
        BY <1>3, <2>3
    <2>5. Tidy(b, users)
        BY <2>3, <2>4 DEF Tidy
    <2>6. Shows(windows, users) => Shows(b, users)
        BY <2>4 DEF Shows
    <2>7. n \in 1 .. Len(b) + 1
        BY <1>1, <1>3, <2>2, <2>3
    <2>8. placed = InsertAt(b, n, Me)
        BY <1>4 DEF PlaceLocalVideo
    <2>9. placed \in Seq(User \cup {Empty}) /\ Longer(b, n, Me, placed)
        <3>1. InsertAt(b, n, Me) \in Seq(User \cup {Empty}) /\ Longer(b, n, Me, InsertAt(b, n, Me))
            BY <1>1, <2>3, <2>7, InsertLonger
        <3> QED BY <2>8, <3>1
    <2>10. Tidy(placed, users2) /\ (Shows(b, users) /\ n = Len(users) + 1 => Shows(placed, users2))
        BY <1>1, <2>5, <2>7, <2>9, WindowComes
    <2>11. Len(placed) = Len(windows)
        BY <1>3, <2>3, <2>9 DEF Longer
    <2> QED BY <1>2, <2>2, <2>6, <2>10, <2>11
<1>5. CASE n \notin {4, 6, 8, 9}
    <2>1. placed = Append(windows, Me)
        BY <1>5 DEF PlaceLocalVideo
    <2>2. placed \in Seq(User \cup {Empty}) /\ Len(placed) = Len(windows) + 1
          /\ Longer(windows, Len(windows) + 1, Me, placed)
        <3>1. windows \in Seq(User \cup {Empty}) /\ Me \in User \cup {Empty}
            BY <1>1, <1>3
        <3>2. /\ Append(windows, Me) \in Seq(User \cup {Empty})
              /\ Len(Append(windows, Me)) = Len(windows) + 1
              /\ Longer(windows, Len(windows) + 1, Me, Append(windows, Me))
            BY ONLY <3>1, AppendLonger
        <3> QED BY ONLY <2>1, <3>2
    <2>3. Len(windows) + 1 \in 1 .. Len(windows) + 1
        BY <1>3
    <2>4. /\ Tidy(placed, users2)
          /\ Shows(windows, users) /\ Len(windows) + 1 = Len(users) + 1 => Shows(placed, users2)
        BY <1>1, <2>2, <2>3, WindowComes
    <2>5. n <= 9 => Len(windows) = n - 1
        <3>1. n <= 9 => needLayoutCount(n - 1) = n - 1 \/ n = 1
            BY <1>1, <1>5, LayoutCounts
        <3> QED BY <1>1, <3>1
    <2> QED BY <1>1, <1>2, <1>3, <2>2, <2>4, <2>5
<1> QED BY <1>2, <1>4, <1>5

(* As many users as the list is long.                                      *)
LEMMA CountUsers ==
    ASSUME NEW S, NEW users \in Seq(S), IsInjective(users)
    PROVE  IsFiniteSet(Range(users)) /\ Cardinality(Range(users)) = Len(users)
<1> PICK D : D = DOMAIN users
    OBVIOUS
<1>1. D = 1 .. Len(users) /\ Len(users) \in Nat
    OBVIOUS
<1>2. IsFiniteSet(D) /\ Cardinality(D) = Len(users)
    <2>1. 1 \in Int /\ Len(users) \in Int
        BY <1>1
    <2>2. IsFiniteSet(1 .. Len(users))
          /\ Cardinality(1 .. Len(users)) = IF 1 > Len(users) THEN 0 ELSE Len(users) - 1 + 1
        BY <2>1, FS_Interval
    <2> QED BY <1>1, <2>2
<1>3. users \in [D -> Range(users)] /\ \A x \in Range(users) : \E i \in D : users[i] = x
    BY <1>1 DEF Range
<1>4. users \in Surjection(D, Range(users))
    BY <1>3, Fun_IsSurj
<1>5. users \in Injection(D, Range(users))
    BY <1>3, Fun_IsInj DEF IsInjective
<1> QED BY <1>2, <1>4, <1>5, FS_Surjection

(* setRemoteVideoView: a picture in window k.                              *)
Put(windows, k, u, r) ==
    Len(r) = Len(windows) /\ \A j \in DOMAIN windows : r[j] = IF j = k THEN u ELSE windows[j]

LEMMA RemoteWindow ==
    ASSUME NEW users \in UserList \cup {<<>>}, NEW u \in User, u \notin Range(users),
           users = <<>> => u = Host,
           NEW windows, Tidy(windows, users), NEW k \in 1 .. Len(windows),
           NEW r \in Seq(User \cup {Empty}), Put(windows, k, u, r)
    PROVE  /\ Tidy(r, Append(users, u)) /\ Len(r) = Len(windows)
           /\ Shows(windows, users) /\ k = Len(users) + 1 => Shows(r, Append(users, u))
<1> PICK users2 : users2 = Append(users, u)
    OBVIOUS
<1>1. /\ Range(users2) = Range(users) \cup {u} /\ Len(users2) = Len(users) + 1
      /\ \A j \in 1 .. Len(users) + 1 : users2[j] = IF j <= Len(users) THEN users[j] ELSE u
      /\ users \in Seq(User) /\ Len(users) \in Nat
    BY UserComes
<1>2. /\ windows \in Seq(User \cup {Empty}) /\ DOMAIN windows = 1 .. Len(windows)
      /\ Len(windows) \in Nat
      /\ \A j, i \in DOMAIN windows : windows[j] = windows[i] /\ windows[j] # Empty => j = i
      /\ \A j \in DOMAIN windows : windows[j] = Empty \/ windows[j] \in Range(users)
    BY DEF Tidy
<1>3. /\ r \in Seq(User \cup {Empty}) /\ DOMAIN r = DOMAIN windows /\ Len(r) = Len(windows)
      /\ \A j \in DOMAIN windows : r[j] = IF j = k THEN u ELSE windows[j]
    BY <1>2 DEF Put
<1>4. \A j \in DOMAIN windows : windows[j] # u
    BY <1>2, UserFacts
<1>5. Tidy(r, users2)
    BY <1>1, <1>2, <1>3, <1>4 DEF Tidy
<1>6. ASSUME Shows(windows, users), k = Len(users) + 1 PROVE Shows(r, users2)
    <2>1. ASSUME NEW j \in DOMAIN r
          PROVE  r[j] = IF j <= Len(users2) THEN users2[j] ELSE Empty
        <3>1. j \in 1 .. Len(windows) /\ windows[j] = IF j <= Len(users) THEN users[j] ELSE Empty
            BY <1>2, <1>3, <1>6 DEF Shows
        <3>2. CASE j = k
            BY <1>1, <1>3, <1>6, <3>1, <3>2
        <3>3. CASE j < k
            BY <1>1, <1>3, <1>6, <3>1, <3>3
        <3>4. CASE j > k
            BY <1>1, <1>3, <1>6, <3>1, <3>4
        <3> QED BY <3>1, <3>2, <3>3, <3>4
    <2> QED BY <2>1 DEF Shows
<1> QED BY <1>3, <1>5, <1>6

(* What liveUIController does for one user of the list.                    *)
Taken(s, u, t) ==
    /\ Sound(t)
    /\ Range(t.liveUserWithUids) = Range(s.liveUserWithUids) \cup {u}
    /\ /\ Pictured(s) /\ Len(t.liveUserWithUids) <= 9
       /\ u = Me => s.isMicrophoneUser
       => Pictured(t)
    /\ t.isMicrophoneUser = s.isMicrophoneUser
    /\ s.broadcasting => t.broadcasting
    /\ s.isMicrophoneUser /\ u \notin Range(s.liveUserWithUids) => t.broadcasting
    /\ Flagged(s) => Flagged(t)

(* It keeps the screen sound, and in order unless the viewer is taken up   *)
(* while the flag is not set.                                              *)
LEMMA TakeFacts ==
    ASSUME NEW s, Sound(s), NEW u \in User, s.liveUserWithUids = <<>> => u = Host
    PROVE  Taken(s, u, Take(s, u))
<1> PICK users, windows : users = s.liveUserWithUids /\ windows = s.liveContainers
    OBVIOUS
<1>1. /\ s \in UiType /\ users \in UserList \cup {<<>>} /\ windows \in Seq(User \cup {Empty})
      /\ s.addedUidSet \subseteq Range(users) /\ s.addedUidSet \in SUBSET User
      /\ Tidy(windows, users)
      /\ users = <<>> \/ Len(windows) = needLayoutCount(Len(users))
      /\ s.isMicrophoneUser \in BOOLEAN /\ s.broadcasting \in BOOLEAN
    BY DEF Sound, UiType
<1>2. CASE u \in Range(users)
    <2>1. Take(s, u) = s
        BY <1>2 DEF Take
    <2>2. Range(users) \cup {u} = Range(users)
        BY <1>2
    <2> QED BY <1>2, <2>1, <2>2 DEF Taken
<1>3. CASE u \notin Range(users)
    <2> PICK users2 : users2 = Append(users, u)
        OBVIOUS
    <2>1. /\ users2 \in UserList /\ Range(users2) = Range(users) \cup {u}
          /\ Len(users2) = Len(users) + 1 /\ Len(users) \in Nat /\ users2 \in Seq(User)
          /\ users \in Seq(User)
        <3>1. /\ users2 \in UserList /\ Range(users2) = Range(users) \cup {u}
              /\ Len(users2) = Len(users) + 1 /\ users \in Seq(User)
            BY <1>1, <1>3, UserComes
        <3> QED BY <3>1 DEF UserList
    <2> PICK n : n = Len(users2)
        OBVIOUS
    <2>2. n \in Nat /\ n >= 1 /\ n = Len(users) + 1
        BY <2>1
    <2> PICK s0 : s0 = [s EXCEPT !.liveUserWithUids = Append(@, u)]
        OBVIOUS
    <2>3. /\ s0 \in UiType /\ s0.liveUserWithUids = users2 /\ s0.liveContainers = windows
          /\ s0.addedUidSet = s.addedUidSet /\ s0.isMicrophoneUser = s.isMicrophoneUser
          /\ s0.broadcasting = s.broadcasting
        BY <1>1, <2>1 DEF UiType
    <2> PICK t : t = Take(s, u)
        OBVIOUS
    <2>4. t = liveWithController(s0, u)
        BY <1>3 DEF Take
    <2>5. s.addedUidSet \cup {u} \subseteq Range(users2)
        BY <1>1, <2>1
    <2>6. SUFFICES /\ Sound(t) /\ t.liveUserWithUids = users2
                   /\ Pictured(s) /\ n <= 9 /\ (u = Me => s.isMicrophoneUser) => Pictured(t)
                   /\ t.isMicrophoneUser = s.isMicrophoneUser
                   /\ t.broadcasting = (s.broadcasting \/ s.isMicrophoneUser)
        BY <1>1, <2>1 DEF Taken, Flagged
    <2>7. CASE u = Me /\ s.isMicrophoneUser
        <3>1. users # <<>> /\ users \in UserList
            BY <1>1, <2>7, UserFacts
        <3> PICK placed : placed = PlaceLocalVideo(windows, n)
            OBVIOUS
        <3>2. /\ Tidy(placed, users2)
              /\ Shows(windows, users) /\ n <= 9 => Shows(placed, users2) /\ n <= Len(placed)
            BY <1>1, <1>3, <2>7, <3>1, OwnWindow
        <3> PICK laid : laid = userAndLayout(placed, n)
            OBVIOUS
        <3>3. /\ Tidy(laid, users2) /\ Len(laid) = needLayoutCount(n)
              /\ Shows(placed, users2) /\ n <= Len(placed) => Shows(laid, users2)
            BY <2>1, <2>2, <3>2, LayoutFacts
        <3>4. t = [s0 EXCEPT !.addedUidSet = @ \cup {Me}, !.liveContainers = laid,
                             !.broadcasting = @ \/ s0.isMicrophoneUser]
            BY <2>3, <2>4, <2>7 DEF liveWithController
        <3>5. laid \in Seq(User \cup {Empty}) /\ s.addedUidSet \cup {Me} \in SUBSET User
            BY <1>1, <2>7, <3>3 DEF Tidy
        <3>6. /\ t \in UiType /\ t.liveUserWithUids = users2 /\ t.liveContainers = laid
              /\ t.addedUidSet = s.addedUidSet \cup {Me}
              /\ t.isMicrophoneUser = s.isMicrophoneUser
              /\ t.broadcasting = (s.broadcasting \/ s.isMicrophoneUser)
            BY <1>1, <2>3, <3>4, <3>5 DEF UiType
        <3>7. Sound(t)
            BY <2>1, <2>5, <2>7, <3>3, <3>6 DEF Sound
        <3>8. ASSUME Pictured(s), n <= 9 PROVE Pictured(t)
            BY <2>1, <2>7, <3>2, <3>3, <3>6, <3>8 DEF Pictured
        <3> QED BY <3>6, <3>7, <3>8
    <2> PICK laid : laid = userAndLayout(windows, n)
        OBVIOUS
    <2>8. /\ Tidy(laid, users) /\ Len(laid) = needLayoutCount(n)
          /\ Shows(windows, users) /\ Len(users) <= Len(windows) => Shows(laid, users)
          /\ laid \in Seq(User \cup {Empty}) /\ Len(laid) \in Nat
        <3>1. /\ Tidy(laid, users) /\ Len(laid) = needLayoutCount(n)
              /\ Shows(windows, users) /\ Len(users) <= Len(windows) => Shows(laid, users)
            BY <1>1, <2>1, <2>2, LayoutFacts
        <3>2. laid \in Seq(User \cup {Empty})
            BY <3>1 DEF Tidy
        <3> QED BY <3>1, <3>2
    <2>9. CASE u = Me /\ ~s.isMicrophoneUser
        <3>1. t = [s0 EXCEPT !.addedUidSet = @, !.liveContainers = laid,
                             !.broadcasting = @ \/ s0.isMicrophoneUser]
            BY <2>3, <2>4, <2>9 DEF liveWithController
        <3>2. /\ t \in UiType /\ t.liveUserWithUids = users2 /\ t.liveContainers = laid
              /\ t.addedUidSet = s.addedUidSet
              /\ t.isMicrophoneUser = s.isMicrophoneUser
              /\ t.broadcasting = (s.broadcasting \/ s.isMicrophoneUser)
            BY <1>1, <2>3, <2>8, <3>1 DEF UiType
        <3>3. Tidy(laid, users2)
            BY <2>1, <2>8 DEF Tidy
        <3>4. Sound(t)
            BY <2>1, <2>5, <2>8, <3>2, <3>3 DEF Sound
        <3> QED BY <2>9, <3>2, <3>4
    <2>10. CASE u # Me
        <3> PICK added : added = s.addedUidSet \cup {u}
            OBVIOUS
        <3> PICK k : k = Cardinality(added)
            OBVIOUS
        <3>1. u \notin s.addedUidSet /\ added \in SUBSET User
            BY <1>1, <1>3
        <3>2. IsFiniteSet(Range(users)) /\ Cardinality(Range(users)) = Len(users)
            <4>1. IsInjective(users)
                BY <1>1 DEF UserList, IsInjective
            <4> QED BY <2>1, <4>1, CountUsers
        <3>3. IsFiniteSet(s.addedUidSet) /\ Cardinality(s.addedUidSet) \in Nat
            <4>1. s.addedUidSet \in SUBSET Range(users)
                BY <1>1
            <4>2. IsFiniteSet(s.addedUidSet)
                BY <3>2, <4>1, FS_Subset
            <4> QED BY <4>2, FS_CardinalityType
        <3>4. k = Cardinality(s.addedUidSet) + 1 /\ k \in Nat /\ k >= 1
            <4>1. Cardinality(s.addedUidSet \cup {u}) = Cardinality(s.addedUidSet) + 1
                BY <3>1, <3>3, FS_AddElement
            <4> QED BY <3>3, <4>1
        <3> PICK x : x = IF k <= Len(laid) THEN [laid EXCEPT ![k] = u] ELSE laid
            OBVIOUS
        <3>5. /\ Tidy(x, users2) /\ Len(x) = Len(laid)
              /\ Shows(laid, users) /\ k = n /\ n <= Len(laid) => Shows(x, users2)
            <4>1. CASE k <= Len(laid)
                <5>1. k \in 1 .. Len(laid)
                    BY <2>8, <3>4, <4>1
                <5>2. x \in Seq(User \cup {Empty}) /\ Put(laid, k, u, x)
                    BY <2>8, <4>1, <5>1 DEF Put
                <5>3. /\ Tidy(x, users2) /\ Len(x) = Len(laid)
                      /\ Shows(laid, users) /\ k = Len(users) + 1 => Shows(x, users2)
                    <6>1. /\ users \in UserList \cup {<<>>} /\ u \in User /\ u \notin Range(users)
                          /\ users = <<>> => u = Host
                          /\ Tidy(laid, users)
                        BY <1>1, <1>3, <2>8
                    <6>2. /\ Tidy(x, Append(users, u)) /\ Len(x) = Len(laid)
                          /\ Shows(laid, users) /\ k = Len(users) + 1 => Shows(x, Append(users, u))
                        BY ONLY <5>1, <5>2, <6>1, RemoteWindow
                    <6> QED BY <6>2
                <5> QED BY <2>2, <5>3
            <4>2. CASE ~(k <= Len(laid))
                <5>1. Tidy(laid, users2)
                    BY <2>1, <2>8 DEF Tidy
                <5> QED BY <4>2, <5>1
            <4> QED BY <4>1, <4>2
        <3> PICK s1 : s1 = [s0 EXCEPT !.addedUidSet = @, !.liveContainers = laid,
                                      !.broadcasting = @ \/ s0.isMicrophoneUser]
            OBVIOUS
        <3>6. t = setRemoteVideoView(s1, u)
            BY <2>3, <2>4, <2>10 DEF liveWithController
        <3>7. /\ s1 \in UiType /\ s1.liveUserWithUids = users2 /\ s1.liveContainers = laid
              /\ s1.addedUidSet = s.addedUidSet
              /\ s1.isMicrophoneUser = s.isMicrophoneUser
              /\ s1.broadcasting = (s.broadcasting \/ s.isMicrophoneUser)
            BY <1>1, <2>3, <2>8 DEF UiType
        <3>8. t = [s1 EXCEPT !.addedUidSet = added, !.liveContainers = x]
            BY <3>1, <3>6, <3>7 DEF setRemoteVideoView
        <3>9. x \in Seq(User \cup {Empty})
            BY <3>5 DEF Tidy
        <3>10. /\ t \in UiType /\ t.liveUserWithUids = users2 /\ t.liveContainers = x
               /\ t.addedUidSet = added
               /\ t.isMicrophoneUser = s.isMicrophoneUser
               /\ t.broadcasting = (s.broadcasting \/ s.isMicrophoneUser)
            BY <3>1, <3>7, <3>8, <3>9 DEF UiType
        <3>11. Sound(t)
            BY <2>1, <2>5, <2>8, <3>5, <3>10 DEF Sound
        <3>12. ASSUME Pictured(s), n <= 9 PROVE Pictured(t)
            <4>1. Shows(windows, users) /\ s.addedUidSet = Range(users)
                BY <3>12 DEF Pictured
            <4>2. Shows(laid, users)
                <5>1. CASE users = <<>>
                    BY <2>1, <2>8, <4>1, <5>1 DEF Tidy
                <5>2. CASE users # <<>>
                    <6>1. Len(users) <= needLayoutCount(Len(users))
                        BY <2>1, <2>2, <3>12, LayoutCounts
                    <6> QED BY <1>1, <2>8, <4>1, <5>2, <6>1
                <5> QED BY <5>1, <5>2
            <4>3. k = n
                BY <2>2, <3>2, <3>4, <4>1
            <4>4. n <= Len(laid)
                BY <2>2, <2>8, <3>12, LayoutCounts
            <4> QED BY <2>1, <3>5, <3>10, <4>1, <4>2, <4>3, <4>4 DEF Pictured
        <3> QED BY <3>10, <3>11, <3>12
    <2> QED BY <2>7, <2>9, <2>10
<1> QED BY <1>2, <1>3

-----------------------------------------------------------------------------
(* Going through a list                                                    *)

(* What holds before the first of n steps, and after each step if it held  *)
(* before, holds after all of them.                                        *)
LEMMA Along ==
    ASSUME NEW n \in Nat, NEW I, NEW f, <<0, f[0]>> \in I,
           \A i \in 1 .. n : <<i - 1, f[i - 1]>> \in I => <<i, f[i]>> \in I
    PROVE  \A i \in 0 .. n : <<i, f[i]>> \in I
<1> DEFINE Bad == {i \in 0 .. n : <<i, f[i]>> \notin I}
<1> SUFFICES ASSUME Bad # {} PROVE FALSE
    OBVIOUS
<1>1. Bad \subseteq Nat
    OBVIOUS
<1>2. PICK i \in Bad : \A j \in Bad : i <= j
    <2> HIDE DEF Bad
    <2> QED BY <1>1, Least
<1>3. i \in 1 .. n /\ i - 1 \in 0 .. n /\ ~(i <= i - 1)
    BY <1>2
<1>4. <<i - 1, f[i - 1]>> \in I
    BY <1>2, <1>3
<1> QED BY <1>2, <1>3, <1>4

(* There is a function that goes the n steps.                              *)
Passable(S, n, I, step, s) ==
    /\ n \in Nat /\ I \in SUBSET ((0 .. n) \X S)
    /\ step \in [I -> S] /\ s \in S /\ <<0, s>> \in I
    /\ \A i \in 1 .. n : \A t \in S :
           <<i - 1, t>> \in I => <<i, step[<<i - 1, t>>]>> \in I

LEMMA Walk ==
    ASSUME NEW S, NEW n, NEW I, NEW step, NEW s, Passable(S, n, I, step, s)
    PROVE  \E f \in [0 .. n -> S] :
               /\ f[0] = s /\ \A i \in 0 .. n : <<i, f[i]>> \in I
               /\ \A i \in 1 .. n : f[i] = step[<<i - 1, f[i - 1]>>]
<1> USE DEF Passable
<1> DEFINE Goes(f, m) == /\ f[0] = s /\ \A i \in 0 .. m : <<i, f[i]>> \in I
                         /\ \A i \in 1 .. m : f[i] = step[<<i - 1, f[i - 1]>>]
           Bad == {m \in 0 .. n : \A f \in [0 .. m -> S] : ~Goes(f, m)}
<1>0. n \in 0 .. n
    OBVIOUS
<1> SUFFICES ASSUME Bad # {} PROVE FALSE
    BY <1>0, Zenon
<1>1. PICK m \in Bad : \A j \in Bad : m <= j
    <2>1. Bad \subseteq Nat
        OBVIOUS
    <2> HIDE DEF Bad
    <2> QED BY <2>1, Least
<1>2. m \in 0 .. n /\ \A f \in [0 .. m -> S] : ~Goes(f, m)
    BY <1>1
<1>3. CASE m = 0
    <2> DEFINE f == [i \in 0 .. m |-> s]
    <2>1. f \in [0 .. m -> S] /\ Goes(f, m)
        BY <1>3
    <2> QED BY <1>2, <2>1
<1>4. CASE m # 0
    <2>1. m - 1 \in 0 .. n /\ m \in 1 .. n /\ ~(m <= m - 1)
        BY <1>2, <1>4
    <2>2. PICK g \in [0 .. m - 1 -> S] : Goes(g, m - 1)
        BY <1>1, <2>1
    <2> PICK e : e = step[<<m - 1, g[m - 1]>>]
        OBVIOUS
    <2>3. m - 1 \in 0 .. m - 1 /\ g[m - 1] \in S /\ <<m - 1, g[m - 1]>> \in I
        BY <2>1, <2>2
    <2>4. e \in S /\ <<m, e>> \in I
        BY <2>1, <2>3
    <2> DEFINE f == [i \in 0 .. m |-> IF i = m THEN e ELSE g[i]]
    <2>5. f \in [0 .. m -> S]
        <3>1. ASSUME NEW i \in 0 .. m, i # m PROVE i \in 0 .. m - 1
            BY <2>1, <3>1
        <3> QED BY <2>4, <3>1
    <2>6. f[m] = e /\ \A i \in 0 .. m - 1 : f[i] = g[i]
        BY <2>1
    <2> HIDE DEF f
    <2>7. f[0] = s
        BY <2>1, <2>2, <2>6
    <2>8. ASSUME NEW i \in 0 .. m PROVE <<i, f[i]>> \in I
        <3>1. CASE i = m
            BY <2>4, <2>6, <3>1
        <3>2. CASE i # m
            <4>1. i \in 0 .. m - 1
                BY <2>1, <3>2
            <4> QED BY <2>2, <2>6, <4>1
        <3> QED BY <3>1, <3>2
    <2>9. ASSUME NEW i \in 1 .. m PROVE f[i] = step[<<i - 1, f[i - 1]>>]
        <3>1. i - 1 \in 0 .. m - 1 /\ f[i - 1] = g[i - 1]
            BY <2>1, <2>6
        <3>2. CASE i = m
            BY <2>6, <3>1, <3>2
        <3>3. CASE i # m
            <4>1. i \in 1 .. m - 1 /\ i \in 0 .. m - 1
                BY <2>1, <3>3
            <4> QED BY <2>2, <2>6, <3>1, <4>1
        <3> QED BY <3>2, <3>3
    <2> QED BY <1>2, <2>5, <2>7, <2>8, <2>9
<1> QED BY <1>3, <1>4

(* Who is on the screen s when i of the users have been looked at.         *)
Looked(s0, list, i, s) ==
    /\ Sound(s)
    /\ Range(s.liveUserWithUids) =
          {u \in Range(s0.liveUserWithUids) :
              \/ u \in Range(list)
              \/ \E j \in i + 1 .. Len(s0.liveUserWithUids) : s0.liveUserWithUids[j] = u}
    /\ Len(s.liveUserWithUids) <= Len(s0.liveUserWithUids)
    /\ Pictured(s0) /\ Len(s0.liveUserWithUids) <= 9 => Pictured(s)
    /\ Me \in Range(list) => /\ s.isMicrophoneUser = s0.isMicrophoneUser
                             /\ s.broadcasting = s0.broadcasting
    /\ Flagged(s0) => Flagged(s)

LEMMA StayFacts ==
    ASSUME NEW s0, Sound(s0), NEW list \in UserList, NEW s, NEW i,
           i \in 1 .. Len(s0.liveUserWithUids), Looked(s0, list, i - 1, s)
    PROVE  Looked(s0, list, i, Stay(s, s0.liveUserWithUids[i], list))
<1> PICK users, n : users = s0.liveUserWithUids /\ n = Len(users)
    OBVIOUS
<1>1. /\ users \in UserList \cup {<<>>} /\ users \in Seq(User) /\ n \in Nat
      /\ DOMAIN users = 1 .. n
    BY DEF Sound, UiType
<1>2. users \in UserList
    BY <1>1
<1>3. \A j, k \in 1 .. n : users[j] = users[k] => j = k
    BY <1>1, <1>2 DEF UserList, IsInjective
<1> PICK u : u = users[i]
    OBVIOUS
<1>4. i \in 1 .. n /\ u \in Range(users) /\ i \in Int
    BY <1>1 DEF Range
<1> DEFINE Rest(k) == {v \in Range(users) : v \in Range(list)
                                            \/ \E j \in k + 1 .. n : users[j] = v}
<1>5. /\ Sound(s) /\ Range(s.liveUserWithUids) = Rest(i - 1)
      /\ Len(s.liveUserWithUids) <= n
      /\ Pictured(s0) /\ n <= 9 => Pictured(s)
      /\ Me \in Range(list) => /\ s.isMicrophoneUser = s0.isMicrophoneUser
                               /\ s.broadcasting = s0.broadcasting
      /\ Flagged(s0) => Flagged(s)
    BY DEF Looked
<1>6. i - 1 + 1 = i /\ \A j \in i .. n : j = i \/ j \in i + 1 .. n
    BY <1>4
<1>7. \A j \in i + 1 .. n : j \in i .. n /\ j \in 1 .. n /\ j # i
    BY <1>4
<1>8. CASE u \in Range(list)
    <2>1. Rest(i - 1) = Rest(i)
        BY <1>6, <1>7, <1>8
    <2>2. Stay(s, u, list) = s
        BY <1>8 DEF Stay
    <2> QED BY <1>5, <2>1, <2>2 DEF Looked
<1>9. CASE u \notin Range(list)
    <2>1. i \in i .. n
        BY <1>1, <1>4
    <2>2. u \in Range(s.liveUserWithUids)
        BY <1>4, <1>5, <1>6, <2>1
    <2>3. Host \in Range(list) /\ u # Host
        <3>1. 1 \in DOMAIN list /\ list[1] = Host
            BY DEF UserList
        <3> QED BY <1>9, <3>1 DEF Range
    <2> PICK t : t = hungUpLiveWithUI(s, u)
        OBVIOUS
    <2>4. /\ Sound(t)
          /\ Range(t.liveUserWithUids) = Range(s.liveUserWithUids) \ {u}
          /\ Len(t.liveUserWithUids) = Len(s.liveUserWithUids) - 1
          /\ Pictured(s) /\ Len(s.liveUserWithUids) <= 9 => Pictured(t)
          /\ t.isMicrophoneUser <=> s.isMicrophoneUser /\ u # Me
          /\ t.broadcasting <=> s.broadcasting /\ ~(s.isMicrophoneUser /\ u = Me)
        <3>1. Sound(s)
            BY <1>5
        <3> QED BY <2>2, <2>3, <3>1, HungUpFacts
    <2>5. Stay(s, u, list) = t
        BY <1>9 DEF Stay
    <2>6. Rest(i - 1) \ {u} = Rest(i)
        <3>1. ASSUME NEW v \in Rest(i - 1), v # u PROVE v \in Rest(i)
            BY <1>6, <3>1
        <3>2. ASSUME NEW v \in Rest(i) PROVE v \in Rest(i - 1) /\ v # u
            BY <1>3, <1>4, <1>6, <1>7, <1>9
        <3> QED BY <3>1, <3>2
    <2>7. Len(s.liveUserWithUids) \in Nat
        BY <1>5 DEF Sound, UiType
    <2>8. Len(t.liveUserWithUids) <= n /\ (n <= 9 => Len(s.liveUserWithUids) <= 9)
        BY <1>1, <1>5, <2>4, <2>7
    <2>9. Me \in Range(list) => /\ t.isMicrophoneUser = s0.isMicrophoneUser
                                /\ t.broadcasting = s0.broadcasting
        <3>1. /\ s.isMicrophoneUser \in BOOLEAN /\ s.broadcasting \in BOOLEAN
              /\ t.isMicrophoneUser \in BOOLEAN /\ t.broadcasting \in BOOLEAN
            BY <1>5, <2>4 DEF Sound, UiType
        <3> QED BY <1>5, <1>9, <2>4, <3>1
    <2>10. Flagged(s) => Flagged(t)
        BY <2>4 DEF Flagged
    <2> QED BY <1>5, <2>4, <2>5, <2>6, <2>8, <2>9, <2>10 DEF Looked
<1> QED BY <1>8, <1>9

(* checkMicrophoneUser leaves those on the screen who are in the list.     *)
LEMMA CheckFacts ==
    ASSUME NEW s, Sound(s), NEW list \in UserList
    PROVE  Looked(s, list, Len(s.liveUserWithUids), checkMicrophoneUser(s, list))
<1> PICK users, n : users = s.liveUserWithUids /\ n = Len(users)
    OBVIOUS
<1>1. s \in UiType /\ users \in Seq(User) /\ n \in Nat /\ DOMAIN users = 1 .. n
    BY DEF Sound, UiType
<1> DEFINE I == {p \in (0 .. n) \X UiType : Looked(s, list, p[1], p[2])}
           F(f) == [i \in 0 .. n |-> IF i = 0 THEN s ELSE Stay(f[i - 1], users[i], list)]
<1>2. ASSUME NEW i, NEW t PROVE <<i, t>> \in I <=> i \in 0 .. n /\ t \in UiType /\ Looked(s, list, i, t)
    OBVIOUS
<1>3. <<0, s>> \in I
    <2>1. Range(users) = {u \in Range(users) :
                             u \in Range(list) \/ \E j \in 0 + 1 .. n : users[j] = u}
        BY <1>1 DEF Range
    <2>2. Looked(s, list, 0, s)
        BY <1>1, <2>1 DEF Looked
    <2> QED BY <1>1, <1>2, <2>2
<1>4. ASSUME NEW i \in 1 .. n, NEW t, <<i - 1, t>> \in I
      PROVE  <<i, Stay(t, users[i], list)>> \in I
    <2>1. Looked(s, list, i, Stay(t, users[i], list))
        BY <1>2, <1>4, StayFacts
    <2>2. Stay(t, users[i], list) \in UiType
        BY <2>1 DEF Looked, Sound
    <2>3. i \in 0 .. n
        BY <1>1
    <2> QED BY <1>2, <2>1, <2>2, <2>3
<1>5. \E f : f = F(f)
    <2>1. \A p \in I : p[1] \in 0 .. n /\ p[2] \in UiType /\ p = <<p[1], p[2]>>
        OBVIOUS
    <2>2. I \in SUBSET ((0 .. n) \X UiType)
        OBVIOUS
    <2> PICK st : st = [p \in I |-> IF p[1] < n THEN Stay(p[2], users[p[1] + 1], list) ELSE p[2]]
        OBVIOUS
    <2> HIDE DEF I
    <2>3. ASSUME NEW i \in 1 .. n, NEW t, <<i - 1, t>> \in I
          PROVE  st[<<i - 1, t>>] = Stay(t, users[i], list)
        BY <1>1, <2>3
    <2>4. st \in [I -> UiType]
        <3>1. ASSUME NEW p \in I, p[1] < n PROVE Stay(p[2], users[p[1] + 1], list) \in UiType
            <4>1. p[1] + 1 \in 1 .. n /\ p[1] + 1 - 1 = p[1]
                BY <1>1, <2>1, <3>1
            <4>2. <<p[1] + 1, Stay(p[2], users[p[1] + 1], list)>> \in I
                BY <1>4, <2>1, <4>1
            <4> QED BY <1>2, <4>2
        <3> QED BY <2>1, <3>1
    <2>5. \A i \in 1 .. n : \A t \in UiType : <<i - 1, t>> \in I => <<i, st[<<i - 1, t>>]>> \in I
        BY <1>4, <2>3
    <2>6. PICK f \in [0 .. n -> UiType] :
              /\ f[0] = s /\ \A i \in 0 .. n : <<i, f[i]>> \in I
              /\ \A i \in 1 .. n : f[i] = st[<<i - 1, f[i - 1]>>]
        <3>1. Passable(UiType, n, I, st, s)
            BY <1>1, <1>3, <2>2, <2>4, <2>5 DEF Passable
        <3> QED BY <3>1, Walk
    <2>7. ASSUME NEW i \in 1 .. n PROVE f[i] = Stay(f[i - 1], users[i], list)
        <3>1. i - 1 \in 0 .. n
            BY <1>1
        <3>2. <<i - 1, f[i - 1]>> \in I
            BY <2>6, <3>1
        <3>3. f[i] = st[<<i - 1, f[i - 1]>>]
            BY <2>6
        <3> QED BY <2>3, <3>2, <3>3
    <2>8. \A i \in 0 .. n : f[i] = IF i = 0 THEN s ELSE Stay(f[i - 1], users[i], list)
        <3>1. \A i \in 0 .. n : i # 0 => i \in 1 .. n
            BY <1>1
        <3> HIDE DEF F
        <3> QED BY <2>6, <2>7, <3>1, Zenon
    <2>9. f = F(f)
        BY ONLY f \in [0 .. n -> UiType], <2>8
    <2> QED BY <2>9
<1> PICK after : after = CHOOSE f : f = F(f)
    OBVIOUS
<1>6. after = F(after)
    BY <1>5
<1>7. checkMicrophoneUser(s, list) = after[n]
    BY DEF checkMicrophoneUser
<1>8. after[0] = s /\ \A i \in 1 .. n : after[i] = Stay(after[i - 1], users[i], list)
    <2>1. \A i \in 0 .. n : after[i] = IF i = 0 THEN s ELSE Stay(after[i - 1], users[i], list)
        BY ONLY <1>6
    <2>2. 0 \in 0 .. n /\ \A i \in 1 .. n : i \in 0 .. n /\ i # 0
        BY <1>1
    <2> HIDE DEF F
    <2> QED BY <2>1, <2>2, Zenon
<1> HIDE DEF F, I
<1>9. \A i \in 1 .. n : <<i - 1, after[i - 1]>> \in I => <<i, after[i]>> \in I
    BY <1>4, <1>8
<1>10. <<n, after[n]>> \in I
    <2>1. \A i \in 0 .. n : <<i, after[i]>> \in I
        BY <1>1, <1>3, <1>8, <1>9, Along
    <2> QED BY <1>1, <2>1
<1> QED BY <1>2, <1>7, <1>10

(* A screen that shows nobody but those in a list has no more users.       *)
LEMMA NoMoreUsers ==
    ASSUME NEW users \in Seq(User), IsInjective(users),
           NEW list \in Seq(User), IsInjective(list), Range(users) \subseteq Range(list)
    PROVE  Len(users) <= Len(list)
<1>1. IsFiniteSet(Range(list)) /\ Cardinality(Range(list)) = Len(list)
    BY CountUsers
<1>2. Cardinality(Range(users)) = Len(users)
    BY CountUsers
<1>3. Range(users) \in SUBSET Range(list)
    OBVIOUS
<1>4. Cardinality(Range(users)) <= Cardinality(Range(list))
    BY <1>1, <1>3, FS_Subset
<1> QED BY <1>1, <1>2, <1>4

Firsts(list, i) == {list[j] : j \in 1 .. i}

(* Who is on the screen s, c at first, when i of the list were taken up.   *)
Brought(c, list, i, s) ==
    /\ Sound(s)
    /\ Range(s.liveUserWithUids) = Range(c.liveUserWithUids) \cup Firsts(list, i)
    /\ /\ Pictured(c) /\ Len(list) <= 9
       /\ Me \in Range(list) => c.isMicrophoneUser
       => Pictured(s)
    /\ s.isMicrophoneUser = c.isMicrophoneUser
    /\ \/ c.broadcasting
       \/ /\ c.isMicrophoneUser /\ Me \in Firsts(list, i)
          /\ Me \notin Range(c.liveUserWithUids)
       => s.broadcasting
    /\ Flagged(c) => Flagged(s)

LEMMA BroughtStep ==
    ASSUME NEW c, NEW list \in UserList, Range(c.liveUserWithUids) \subseteq Range(list),
           NEW s, NEW i \in 1 .. Len(list), Brought(c, list, i - 1, s)
    PROVE  Brought(c, list, i, Take(s, list[i]))
<1>1. /\ list \in Seq(User) /\ Len(list) \in Nat /\ DOMAIN list = 1 .. Len(list)
      /\ IsInjective(list) /\ list[1] = Host
    BY DEF UserList
<1> PICK u : u = list[i]
    OBVIOUS
<1> PICK t : t = Take(s, u)
    OBVIOUS
<1>2. u \in User /\ u \in Range(list)
    BY <1>1 DEF Range
<1>3. /\ Sound(s)
      /\ Range(s.liveUserWithUids) = Range(c.liveUserWithUids) \cup Firsts(list, i - 1)
      /\ /\ Pictured(c) /\ Len(list) <= 9 /\ (Me \in Range(list) => c.isMicrophoneUser)
         => Pictured(s)
      /\ s.isMicrophoneUser = c.isMicrophoneUser
      /\ \/ c.broadcasting
         \/ /\ c.isMicrophoneUser /\ Me \in Firsts(list, i - 1)
            /\ Me \notin Range(c.liveUserWithUids)
         => s.broadcasting
      /\ Flagged(c) => Flagged(s)
    BY DEF Brought
<1>4. Firsts(list, i) = Firsts(list, i - 1) \cup {u} /\ Firsts(list, i) \subseteq Range(list)
    <2>1. \A j \in 1 .. i : j = i \/ j \in 1 .. i - 1
        OBVIOUS
    <2>2. i \in 1 .. i /\ \A j \in 1 .. i - 1 : j \in 1 .. i
        OBVIOUS
    <2>3. Firsts(list, i) = Firsts(list, i - 1) \cup {u}
        BY <2>1, <2>2 DEF Firsts
    <2>4. \A j \in 1 .. i : j \in DOMAIN list
        BY <1>1
    <2> QED BY <2>3, <2>4 DEF Firsts, Range
<1>5. u \notin Firsts(list, i - 1)
    <2>1. \A j \in 1 .. i - 1 : j \in DOMAIN list /\ i \in DOMAIN list /\ j # i
        BY <1>1
    <2> QED BY <1>1, <2>1 DEF Firsts, IsInjective
<1>6. s.liveUserWithUids = <<>> => u = Host
    <2>1. CASE i = 1
        BY <1>1, <2>1
    <2>2. CASE i # 1
        <3>1. 1 \in 1 .. i - 1
            BY <2>2
        <3>2. list[1] \in Range(s.liveUserWithUids)
            BY <1>3, <3>1 DEF Firsts
        <3> QED BY <3>2 DEF Range
    <2> QED BY <2>1, <2>2
<1>7. Taken(s, u, t)
    BY <1>2, <1>3, <1>6, TakeFacts
<1>8. /\ Sound(t)
      /\ Range(t.liveUserWithUids) = Range(s.liveUserWithUids) \cup {u}
      /\ /\ Pictured(s) /\ Len(t.liveUserWithUids) <= 9
         /\ u = Me => s.isMicrophoneUser
         => Pictured(t)
      /\ t.isMicrophoneUser = s.isMicrophoneUser
      /\ s.broadcasting => t.broadcasting
      /\ s.isMicrophoneUser /\ u \notin Range(s.liveUserWithUids) => t.broadcasting
      /\ Flagged(s) => Flagged(t)
    BY <1>7 DEF Taken
<1>9. Range(t.liveUserWithUids) = Range(c.liveUserWithUids) \cup Firsts(list, i)
    BY <1>3, <1>4, <1>8
<1>10. Len(t.liveUserWithUids) <= Len(list) /\ Len(t.liveUserWithUids) \in Nat
    <2>1. t.liveUserWithUids \in Seq(User)
        BY <1>8 DEF Sound, UiType
    <2>2. IsInjective(t.liveUserWithUids)
        BY <1>8 DEF Sound, UserList, IsInjective
    <2>3. Range(t.liveUserWithUids) \subseteq Range(list)
        BY <1>4, <1>9
    <2> QED BY <1>1, <2>1, <2>2, <2>3, NoMoreUsers
<1>11. ASSUME Pictured(c), Len(list) <= 9, Me \in Range(list) => c.isMicrophoneUser
       PROVE  Pictured(t)
    <2>1. Pictured(s) /\ Len(t.liveUserWithUids) <= 9
        BY <1>1, <1>3, <1>10, <1>11
    <2>2. u = Me => s.isMicrophoneUser
        BY <1>2, <1>3, <1>11
    <2> QED BY <1>8, <2>1, <2>2
<1>12. ASSUME \/ c.broadcasting
              \/ /\ c.isMicrophoneUser /\ Me \in Firsts(list, i)
                 /\ Me \notin Range(c.liveUserWithUids)
       PROVE  t.broadcasting
    <2>1. CASE u = Me /\ Me \notin Range(c.liveUserWithUids) /\ c.isMicrophoneUser
        BY <1>3, <1>5, <1>8, <2>1
    <2>2. CASE ~(u = Me /\ Me \notin Range(c.liveUserWithUids) /\ c.isMicrophoneUser)
        BY <1>3, <1>4, <1>8, <1>12, <2>2
    <2> QED BY <2>1, <2>2
<1> QED BY <1>3, <1>8, <1>9, <1>11, <1>12 DEF Brought

(* liveUIController brings the screen to the list: exactly those in it are *)
(* on it, in their windows, and who comes with the flag set is sending.    *)
Controlled(s, list, t) ==
    /\ Sound(t)
    /\ Range(t.liveUserWithUids) = Range(list)
    /\ Len(t.liveUserWithUids) <= Len(list)
    /\ /\ Pictured(s) /\ Len(list) <= 9 /\ Len(s.liveUserWithUids) <= 9
       /\ Me \in Range(list) => s.isMicrophoneUser
       => Pictured(t)
    /\ Me \in Range(list) =>
          /\ t.isMicrophoneUser = s.isMicrophoneUser
          /\ \/ s.broadcasting
             \/ s.isMicrophoneUser /\ Me \notin Range(s.liveUserWithUids)
             => t.broadcasting
    /\ Flagged(s) => Flagged(t)

LEMMA ControllerFacts ==
    ASSUME NEW s, Sound(s), NEW list \in UserList
    PROVE  Controlled(s, list, liveUIController(s, list))
<1> PICK c, n : c = checkMicrophoneUser(s, list) /\ n = Len(list)
    OBVIOUS
<1>1. /\ list \in Seq(User) /\ n \in Nat /\ DOMAIN list = 1 .. n /\ IsInjective(list)
      /\ Firsts(list, n) = Range(list)
    BY DEF UserList, Firsts, Range
<1>2. Looked(s, list, Len(s.liveUserWithUids), c)
    BY CheckFacts
<1>3. /\ Sound(c) /\ c \in UiType
      /\ Range(c.liveUserWithUids) = Range(s.liveUserWithUids) \cap Range(list)
      /\ Pictured(s) /\ Len(s.liveUserWithUids) <= 9 => Pictured(c)
      /\ Me \in Range(list) => /\ c.isMicrophoneUser = s.isMicrophoneUser
                               /\ c.broadcasting = s.broadcasting
      /\ Flagged(s) => Flagged(c)
    <2>1. Len(s.liveUserWithUids) \in Nat
        BY DEF Sound, UiType
    <2>2. \A j \in Len(s.liveUserWithUids) + 1 .. Len(s.liveUserWithUids) : FALSE
        BY <2>1
    <2>3. Range(c.liveUserWithUids) = Range(s.liveUserWithUids) \cap Range(list)
        BY <1>2, <2>2 DEF Looked
    <2> QED BY <1>2, <2>3 DEF Looked, Sound
<1> DEFINE I == {p \in (0 .. n) \X UiType : Brought(c, list, p[1], p[2])}
           F(f) == [i \in 0 .. Len(list) |->
                       IF i = 0 THEN checkMicrophoneUser(s, list) ELSE Take(f[i - 1], list[i])]
<1>4. ASSUME NEW i, NEW t
      PROVE  <<i, t>> \in I <=> i \in 0 .. n /\ t \in UiType /\ Brought(c, list, i, t)
    OBVIOUS
<1>5. <<0, c>> \in I
    <2>1. Firsts(list, 0) = {}
        BY DEF Firsts
    <2>2. Brought(c, list, 0, c)
        BY <1>3, <2>1 DEF Brought
    <2> QED BY <1>1, <1>3, <1>4, <2>2
<1>6. ASSUME NEW i \in 1 .. n, NEW t, <<i - 1, t>> \in I PROVE <<i, Take(t, list[i])>> \in I
    <2>1. Brought(c, list, i, Take(t, list[i]))
        <3>1. Brought(c, list, i - 1, t) /\ Range(c.liveUserWithUids) \subseteq Range(list)
            BY <1>3, <1>4, <1>6
        <3> QED BY <3>1, BroughtStep
    <2>2. Take(t, list[i]) \in UiType
        BY <2>1 DEF Brought, Sound
    <2>3. i \in 0 .. n
        BY <1>1
    <2> QED BY <1>4, <2>1, <2>2, <2>3
<1>7. \E f : f = F(f)
    <2>1. \A p \in I : p[1] \in 0 .. n /\ p[2] \in UiType /\ p = <<p[1], p[2]>>
        OBVIOUS
    <2>2. I \in SUBSET ((0 .. n) \X UiType)
        OBVIOUS
    <2> PICK st : st = [p \in I |-> IF p[1] < n THEN Take(p[2], list[p[1] + 1]) ELSE p[2]]
        OBVIOUS
    <2> HIDE DEF I
    <2>3. ASSUME NEW i \in 1 .. n, NEW t, <<i - 1, t>> \in I
          PROVE  st[<<i - 1, t>>] = Take(t, list[i])
        BY <1>1, <2>3
    <2>4. st \in [I -> UiType]
        <3>1. ASSUME NEW p \in I, p[1] < n PROVE Take(p[2], list[p[1] + 1]) \in UiType
            <4>1. p[1] + 1 \in 1 .. n /\ p[1] + 1 - 1 = p[1]
                BY <1>1, <2>1, <3>1
            <4>2. <<p[1] + 1, Take(p[2], list[p[1] + 1])>> \in I
                BY <1>6, <2>1, <4>1
            <4> QED BY <1>4, <4>2
        <3> QED BY <2>1, <3>1
    <2>5. \A i \in 1 .. n : \A t \in UiType : <<i - 1, t>> \in I => <<i, st[<<i - 1, t>>]>> \in I
        BY <1>6, <2>3
    <2>6. PICK f \in [0 .. n -> UiType] :
              /\ f[0] = c /\ \A i \in 0 .. n : <<i, f[i]>> \in I
              /\ \A i \in 1 .. n : f[i] = st[<<i - 1, f[i - 1]>>]
        <3>1. Passable(UiType, n, I, st, c)
            BY <1>1, <1>3, <1>5, <2>2, <2>4, <2>5 DEF Passable
        <3> QED BY <3>1, Walk
    <2>7. ASSUME NEW i \in 1 .. n PROVE f[i] = Take(f[i - 1], list[i])
        <3>1. i - 1 \in 0 .. n
            BY <1>1
        <3> QED BY <2>3, <2>6, <3>1
    <2>8. f = F(f)
        BY <1>1, <2>6, <2>7
    <2> QED BY <2>8
<1> PICK after : after = CHOOSE f : f = F(f)
    OBVIOUS
<1>8. after = F(after)
    BY <1>7
<1>9. liveUIController(s, list) = after[n]
    <2>1. liveUIController(s, list) = (CHOOSE f : f = F(f))[Len(list)]
        BY DEF liveUIController
    <2> QED BY <2>1
<1>10. after[0] = c /\ \A i \in 1 .. n : after[i] = Take(after[i - 1], list[i])
    <2>1. \A i \in 0 .. n : after[i] = IF i = 0 THEN c ELSE Take(after[i - 1], list[i])
        BY ONLY <1>8, c = checkMicrophoneUser(s, list), n = Len(list)
    <2>2. 0 \in 0 .. n /\ \A i \in 1 .. n : i \in 0 .. n /\ i # 0
        BY <1>1
    <2> HIDE DEF F
    <2> QED BY <2>1, <2>2, Zenon
<1> HIDE DEF F, I
<1>11. \A i \in 1 .. n : <<i - 1, after[i - 1]>> \in I => <<i, after[i]>> \in I
    BY <1>6, <1>10
<1>12. <<n, after[n]>> \in I
    <2>1. \A i \in 0 .. n : <<i, after[i]>> \in I
        BY <1>1, <1>5, <1>10, <1>11, Along
    <2> QED BY <1>1, <2>1
<1> PICK t : t = after[n]
    OBVIOUS
<1>13. Brought(c, list, n, t)
    BY <1>4, <1>12
<1>14. Sound(t) /\ Range(t.liveUserWithUids) = Range(list)
    BY <1>1, <1>3, <1>13 DEF Brought
<1>15. Len(t.liveUserWithUids) <= n
    <2>1. t.liveUserWithUids \in Seq(User)
        BY <1>14 DEF Sound, UiType
    <2>2. IsInjective(t.liveUserWithUids)
        BY <1>14 DEF Sound, UserList, IsInjective
    <2> QED BY <1>1, <1>14, <2>1, <2>2, NoMoreUsers
<1>16. ASSUME Pictured(s), Len(list) <= 9, Len(s.liveUserWithUids) <= 9,
              Me \in Range(list) => s.isMicrophoneUser
       PROVE  Pictured(t)
    <2>1. Pictured(c) /\ (Me \in Range(list) => c.isMicrophoneUser)
        BY <1>3, <1>16
    <2> QED BY <1>13, <1>16, <2>1 DEF Brought
<1>17. ASSUME Me \in Range(list)
       PROVE  /\ t.isMicrophoneUser = s.isMicrophoneUser
              /\ \/ s.broadcasting
                 \/ s.isMicrophoneUser /\ Me \notin Range(s.liveUserWithUids)
                 => t.broadcasting
    <2>1. /\ c.isMicrophoneUser = s.isMicrophoneUser /\ c.broadcasting = s.broadcasting
          /\ Me \notin Range(s.liveUserWithUids) => Me \notin Range(c.liveUserWithUids)
        BY <1>3, <1>17
    <2> QED BY <1>1, <1>13, <1>17, <2>1 DEF Brought
<1>18. Flagged(s) => Flagged(t)
    BY <1>3, <1>13 DEF Brought
<1> QED BY <1>9, <1>14, <1>15, <1>16, <1>17, <1>18 DEF Controlled

-----------------------------------------------------------------------------
(* A viewer who is taken up on the call and put off it                     *)

(* Before the viewer has joined there is nothing on the screen, nothing    *)
(* under way and nothing waits for the permissions.                        *)
Joining ==
    stage = "joining" =>
        /\ ui.liveUserWithUids = <<>> /\ ui.liveContainers = <<>>
        /\ ui.addedUidSet = {} /\ ~ui.isMicrophoneUser /\ ~ui.broadcasting
        /\ delayed = <<>> /\ asked = NoList

(* While nothing has overtaken the list that waits, it is the last one     *)
(* received, has the viewer in it, and the flag is set.                    *)
Waiting ==
    asked # NoList /\ ~stale =>
        /\ known = Range(asked) /\ Me \in known
        /\ ui.isMicrophoneUser

ScreenIInv ==
    /\ CallTypeOK /\ Sound(ui)
    /\ ~late /\ MaxCall <= 9 => Pictured(ui)
    /\ ScreenIsCurrent /\ ShownIsSending
    /\ Joining /\ Waiting /\ Flagged(ui)

(* A sound screen of no more than MaxCall users has the type.              *)
Typed(s) ==
    /\ s.liveUserWithUids \in CallList \cup {<<>>}
    /\ s.liveContainers \in Seq(User \cup {Empty})
    /\ \/ s.liveUserWithUids = <<>>
       \/ Len(s.liveContainers) = needLayoutCount(Len(s.liveUserWithUids))
    /\ s.addedUidSet \subseteq Range(s.liveUserWithUids)
    /\ s.isMicrophoneUser \in BOOLEAN /\ s.broadcasting \in BOOLEAN

LEMMA SoundTyped ==
    ASSUME NEW s, Sound(s), Len(s.liveUserWithUids) <= MaxCall
    PROVE  Typed(s)
<1>1. s \in UiType /\ s.liveUserWithUids \in UserList \cup {<<>>}
    BY DEF Sound
<1>2. s.liveUserWithUids \in CallList \cup {<<>>}
    BY <1>1 DEF CallList
<1> QED BY <1>1, <1>2 DEF Sound, Typed, UiType

LEMMA TypedLength ==
    ASSUME NEW s, Sound(s), Typed(s)
    PROVE  /\ Len(s.liveUserWithUids) \in Nat
           /\ Len(s.liveUserWithUids) <= MaxCall
<1>1. s.liveUserWithUids \in Seq(User)
    BY DEF Sound, UiType
<1>2. Len(s.liveUserWithUids) <= MaxCall
    BY UserFacts DEF Typed, CallList
<1> QED BY <1>1, <1>2

(* The flag and what the engine is told do not change the picture.         *)
SamePicture(s, t) ==
    /\ Sound(t)
    /\ Pictured(s) => Pictured(t)
    /\ t.liveUserWithUids = s.liveUserWithUids

LEMMA FlagIsSet ==
    ASSUME NEW s, Sound(s), NEW m \in BOOLEAN
    PROVE  /\ SamePicture(s, [s EXCEPT !.isMicrophoneUser = m])
           /\ [s EXCEPT !.isMicrophoneUser = m].isMicrophoneUser = m
           /\ m \/ ~s.broadcasting => Flagged([s EXCEPT !.isMicrophoneUser = m])
<1> PICK t : t = [s EXCEPT !.isMicrophoneUser = m]
    OBVIOUS
<1>1. s \in UiType
    BY DEF Sound
<1>2. /\ t \in UiType
      /\ t.liveUserWithUids = s.liveUserWithUids /\ t.liveContainers = s.liveContainers
      /\ t.addedUidSet = s.addedUidSet
      /\ t.isMicrophoneUser = m /\ t.broadcasting = s.broadcasting
    BY <1>1 DEF UiType
<1> QED BY <1>2 DEF Sound, Pictured, SamePicture, Flagged

LEMMA Muted ==
    ASSUME NEW s, Sound(s)
    PROVE  /\ SamePicture(s, [s EXCEPT !.broadcasting = FALSE])
           /\ Flagged([s EXCEPT !.broadcasting = FALSE])
<1> PICK t : t = [s EXCEPT !.broadcasting = FALSE]
    OBVIOUS
<1>1. s \in UiType
    BY DEF Sound
<1>2. /\ t \in UiType
      /\ t.liveUserWithUids = s.liveUserWithUids /\ t.liveContainers = s.liveContainers
      /\ t.addedUidSet = s.addedUidSet /\ t.broadcasting = FALSE
    BY <1>1 DEF UiType
<1> QED BY <1>2 DEF Sound, Pictured, SamePicture, Flagged

(* The parts of the type that are not the screen's.                        *)
Around ==
    /\ call \in CallList
    /\ delayed \in Seq(AgreeEvent \cup LeaveEvent) /\ Len(delayed) <= MaxDelayed
    /\ stage \in {"joining", "live", "ended"}
    /\ asked \in CallList \cup {NoList}
    /\ stale \in BOOLEAN /\ late \in BOOLEAN /\ current \in BOOLEAN
    /\ known \subseteq User

LEMMA TypeParts == CallTypeOK <=> Around /\ Typed(ui)
BY DEF CallTypeOK, Around, Typed

LEMMA CallInitIInv == CallInit => ScreenIInv
<1> SUFFICES ASSUME CallInit PROVE ScreenIInv
    OBVIOUS
<1>1. /\ ui \in UiType /\ ui.liveUserWithUids = <<>> /\ ui.liveContainers = <<>>
      /\ ui.addedUidSet = {} /\ ~ui.isMicrophoneUser /\ ~ui.broadcasting
    BY DEF CallInit, UiType
<1>2. Range(<<>>) = {} /\ Len(<<>>) = 0 /\ DOMAIN <<>> = {} /\ <<>> \in Seq(User \cup {Empty})
    BY DEF Range
<1>3. Sound(ui) /\ Pictured(ui)
    BY <1>1, <1>2 DEF Sound, Tidy, Pictured, Shows
<1>4. Around
    <2>1. <<Host>> \in Seq(User) /\ Len(<<Host>>) = 1 /\ <<Host>>[1] = Host /\ <<Host>> # <<>>
        BY UserFacts
    <2>2. IsInjective(<<Host>>)
        BY DEF IsInjective
    <2>3. <<Host>> \in CallList
        BY <2>1, <2>2, UserFacts DEF CallList, UserList
    <2>4. <<>> \in Seq(AgreeEvent \cup LeaveEvent) /\ Len(<<>>) <= MaxDelayed
        BY LiveWithAssumption
    <2> QED BY <2>3, <2>4 DEF CallInit, Around
<1>5. CallTypeOK
    BY <1>1, <1>2, <1>3, <1>4, SoundTyped, TypeParts, UserFacts
<1> QED BY <1>1, <1>3, <1>5
       DEF CallInit, ScreenIInv, ScreenIsCurrent, ShownIsSending, Joining, Waiting, Flagged

(* The server changes its list and posts an event, or loses it.            *)
LEMMA ServerIInv ==
    ASSUME ScreenIInv, call' \in CallList, NEW e \in AgreeEvent \cup LeaveEvent, Send(e),
           UNCHANGED <<stage, ui, asked, stale, late, current, known>>
    PROVE  ScreenIInv'
<1>1. Around /\ Typed(ui)
    BY TypeParts DEF ScreenIInv
<1>2. delayed' \in Seq(AgreeEvent \cup LeaveEvent) /\ Len(delayed') <= MaxDelayed
    <2>1. CASE UNCHANGED delayed
        BY <1>1, <2>1 DEF Around
    <2>2. CASE Len(delayed) < MaxDelayed /\ delayed' = Append(delayed, e)
        <3>1. /\ delayed' \in Seq(AgreeEvent \cup LeaveEvent)
              /\ Len(delayed') = Len(delayed) + 1 /\ Len(delayed) \in Nat
            BY <1>1, <2>2 DEF Around
        <3> QED BY <2>2, <3>1, LiveWithAssumption
    <2> QED BY <2>1, <2>2 DEF Send
<1>3. CallTypeOK'
    BY <1>1, <1>2 DEF Around, Typed, CallTypeOK
<1>4. Joining'
    BY DEF ScreenIInv, Joining, Send
<1> QED BY <1>3, <1>4 DEF ScreenIInv, ScreenIsCurrent, ShownIsSending, Waiting, Flagged

(* The list without somebody who is not the host.                          *)
LEMMA ListWithout ==
    ASSUME NEW list \in CallList, NEW u \in Guest
    PROVE  Removed(list, u) \in CallList
<1>1. u # Host /\ list \in UserList /\ Len(list) <= MaxCall /\ Len(list) \in Nat
    BY UserFacts DEF CallList, UserList
<1>2. CASE u \in Range(list)
    <2>1. Removed(list, u) \in UserList /\ Len(Removed(list, u)) = Len(list) - 1
        BY <1>1, <1>2, UserLeaves
    <2>2. Len(Removed(list, u)) <= MaxCall
        BY <1>1, <2>1, UserFacts
    <2> QED BY <2>1, <2>2 DEF CallList
<1>3. CASE u \notin Range(list)
    BY <1>3 DEF Removed
<1> QED BY <1>2, <1>3

LEMMA live_with_agreeIInv ==
    ASSUME ScreenIInv, NEW u \in Guest, live_with_agree(u) PROVE ScreenIInv'
<1>1. call \in UserList /\ Len(call) \in Nat /\ u \in User
    BY UserFacts DEF ScreenIInv, CallTypeOK, CallList, UserList
<1>2. call' = Append(call, u) /\ u \notin Range(call) /\ Len(call) < MaxCall
    BY DEF live_with_agree
<1>3. call # <<>>
    BY <1>1 DEF UserList
<1>4. call' \in UserList /\ Len(call') = Len(call) + 1
    BY <1>1, <1>2, <1>3, UserComes
<1>5. call' \in CallList
    BY <1>1, <1>2, <1>4, UserFacts DEF CallList
<1>6. [type |-> "agree", list |-> call'] \in AgreeEvent
    BY <1>5 DEF AgreeEvent
<1> QED BY <1>5, <1>6, ServerIInv DEF live_with_agree

LEMMA live_with_hang_upIInv ==
    ASSUME ScreenIInv, NEW u \in Guest, live_with_hang_up(u) PROVE ScreenIInv'
<1>1. call' \in CallList
    BY ListWithout DEF ScreenIInv, CallTypeOK, live_with_hang_up
<1>2. [type |-> "hangUp", target |-> u] \in LeaveEvent
    BY DEF LeaveEvent
<1> QED BY <1>1, <1>2, ServerIInv DEF live_with_hang_up

LEMMA live_with_cancelIInv ==
    ASSUME ScreenIInv, NEW u \in Guest, live_with_cancel(u) PROVE ScreenIInv'
<1>1. call' \in CallList
    BY ListWithout DEF ScreenIInv, CallTypeOK, live_with_cancel
<1>2. [type |-> "cancel", target |-> u] \in LeaveEvent
    BY DEF LeaveEvent
<1> QED BY <1>1, <1>2, ServerIInv DEF live_with_cancel

LEMMA LiveStartIInv == ASSUME ScreenIInv, LiveStart PROVE ScreenIInv'
<1> PICK on \in BOOLEAN : on = (Len(call) > 1 /\ Me \in Range(call))
    OBVIOUS
<1> PICK s, t : s = [ui EXCEPT !.isMicrophoneUser = on] /\ t = ui'
    OBVIOUS
<1>1. /\ Around /\ Sound(ui) /\ (~late /\ MaxCall <= 9 => Pictured(ui))
      /\ ui.liveUserWithUids = <<>> /\ ~ui.broadcasting /\ asked = NoList
      /\ call \in UserList /\ Len(call) <= MaxCall /\ Len(call) \in Nat
    BY TypeParts DEF ScreenIInv, Joining, LiveStart, Around, CallList, UserList
<1>2. Me \in Range(call) => Len(call) > 1
    <2>1. DOMAIN call = 1 .. Len(call) /\ call[1] = Host
        BY <1>1 DEF UserList
    <2>2. ASSUME NEW i \in DOMAIN call, call[i] = Me PROVE Len(call) > 1
        <3>1. i # 1
            BY <2>1, <2>2, UserFacts
        <3> QED BY <1>1, <2>1, <3>1
    <2> QED BY <2>2 DEF Range
<1>3. /\ Sound(s) /\ s.liveUserWithUids = <<>>
      /\ Pictured(ui) => Pictured(s)
      /\ Me \in Range(call) => s.isMicrophoneUser
      /\ Flagged(s)
    <2>1. SamePicture(ui, s) /\ s.isMicrophoneUser = on /\ Flagged(s)
        BY <1>1, FlagIsSet
    <2> QED BY <1>1, <1>2, <2>1 DEF SamePicture
<1>4. Controlled(s, call, t)
    BY <1>1, <1>3, ControllerFacts DEF LiveStart
<1>5. Sound(t) /\ Len(t.liveUserWithUids) <= MaxCall
    <2>1. t.liveUserWithUids \in Seq(User) /\ Len(t.liveUserWithUids) <= Len(call)
        BY <1>4 DEF Controlled, Sound, UiType
    <2> QED BY <1>1, <1>4, <2>1, UserFacts DEF Controlled
<1>6. ASSUME ~late', MaxCall <= 9 PROVE Pictured(t)
    <2>1. Len(call) <= 9 /\ Len(s.liveUserWithUids) <= 9
        BY <1>1, <1>3, <1>6, UserFacts
    <2>2. Pictured(s)
        BY <1>1, <1>3, <1>6 DEF LiveStart
    <2> QED BY <1>3, <1>4, <2>1, <2>2 DEF Controlled
<1>7. CallTypeOK'
    <2>1. known' \subseteq User
        BY <1>1 DEF LiveStart, UserList, Range
    <2> QED BY <1>1, <1>5, <2>1, SoundTyped DEF LiveStart, Around, Typed, CallTypeOK
<1>8. ScreenIsCurrent'
    BY <1>4 DEF Controlled, LiveStart, ScreenIsCurrent
<1>9. ShownIsSending'
    <2>1. ASSUME Me \in Range(t.liveUserWithUids) PROVE t.isMicrophoneUser /\ t.broadcasting
        <3>1. Range(s.liveUserWithUids) = {}
            BY <1>3 DEF Range
        <3>2. Me \in Range(call)
            BY <1>4, <2>1 DEF Controlled
        <3> QED BY <1>3, <1>4, <3>1, <3>2 DEF Controlled
    <2> QED BY <2>1 DEF ShownIsSending
<1>10. Joining' /\ Waiting'
    BY <1>1 DEF LiveStart, Joining, Waiting
<1>11. Flagged(t)
    BY <1>3, <1>4 DEF Controlled
<1> QED BY <1>5, <1>6, <1>7, <1>8, <1>9, <1>10, <1>11 DEF ScreenIInv

LEMMA showLeavePromptIInv == ASSUME ScreenIInv, showLeavePrompt PROVE ScreenIInv'
<1>1. Around /\ Typed(ui) /\ Sound(ui) /\ (~late /\ MaxCall <= 9 => Pictured(ui))
    BY TypeParts DEF ScreenIInv
<1> PICK t : t = ui'
    OBVIOUS
<1>2. /\ Sound(t) /\ t.liveUserWithUids = ui.liveUserWithUids
      /\ Pictured(ui) => Pictured(t)
      /\ Flagged(t)
    <2> PICK s : s = [ui EXCEPT !.isMicrophoneUser = FALSE]
        OBVIOUS
    <2>1. t = [s EXCEPT !.broadcasting = FALSE]
        BY <1>1 DEF showLeavePrompt, Sound, UiType
    <2>2. SamePicture(ui, s)
        BY <1>1, FlagIsSet
    <2>3. SamePicture(s, t) /\ Flagged(t)
        BY <2>1, <2>2, Muted DEF SamePicture
    <2> QED BY <2>2, <2>3 DEF SamePicture
<1>3. Typed(t)
    BY <1>1, <1>2, TypedLength, SoundTyped
<1>4. CallTypeOK'
    BY <1>1, <1>3 DEF showLeavePrompt, Around, Typed, CallTypeOK
<1> QED BY <1>1, <1>2, <1>4
       DEF showLeavePrompt, ScreenIInv, ScreenIsCurrent, ShownIsSending, Joining, Waiting

(* The event handled first has the fields of its type, and one is there    *)
(* only after the viewer has joined.                                       *)
LEMMA FirstEvent ==
    ASSUME ScreenIInv, delayed # <<>>
    PROVE  /\ Tail(delayed) \in Seq(AgreeEvent \cup LeaveEvent)
           /\ Len(Tail(delayed)) <= MaxDelayed
           /\ Head(delayed).type = "agree" => Head(delayed).list \in CallList
           /\ Head(delayed).type # "agree" => Head(delayed).target \in Guest
           /\ stage # "joining"
<1>1. delayed \in Seq(AgreeEvent \cup LeaveEvent) /\ Len(delayed) <= MaxDelayed
    BY DEF ScreenIInv, CallTypeOK
<1>2. /\ Head(delayed) \in AgreeEvent \cup LeaveEvent
      /\ Tail(delayed) \in Seq(AgreeEvent \cup LeaveEvent)
      /\ Len(Tail(delayed)) = Len(delayed) - 1 /\ Len(delayed) \in Nat
    BY <1>1
<1>3. Len(Tail(delayed)) <= MaxDelayed
    BY <1>1, <1>2, LiveWithAssumption
<1>4. stage # "joining"
    BY DEF ScreenIInv, Joining
<1>5. /\ Head(delayed).type = "agree" => Head(delayed).list \in CallList
      /\ Head(delayed).type # "agree" => Head(delayed).target \in Guest
    BY <1>2 DEF AgreeEvent, LeaveEvent
<1> QED BY <1>2, <1>3, <1>4, <1>5

LEMMA AskPermissionIInv == ASSUME ScreenIInv, AskPermission PROVE ScreenIInv'
<1> PICK list, t : list = Head(delayed).list /\ t = ui'
    OBVIOUS
<1>1. /\ Around /\ Typed(ui) /\ Sound(ui)
      /\ ~late /\ MaxCall <= 9 => Pictured(ui)
      /\ ShownIsSending
    BY TypeParts DEF ScreenIInv
<1>2. /\ Tail(delayed) \in Seq(AgreeEvent \cup LeaveEvent)
      /\ Len(Tail(delayed)) <= MaxDelayed
      /\ list \in CallList /\ stage # "joining"
    BY FirstEvent DEF AskPermission
<1>3. /\ ~ui.isMicrophoneUser /\ Me \in Range(list)
      /\ delayed' = Tail(delayed)
      /\ t = [ui EXCEPT !.isMicrophoneUser = TRUE]
      /\ asked' = IF asked = NoList THEN list ELSE asked
      /\ stale' = (asked # NoList) /\ current' = FALSE /\ known' = Range(list)
      /\ UNCHANGED <<call, stage, late>>
    BY DEF AskPermission
<1>4. SamePicture(ui, t) /\ t.isMicrophoneUser = TRUE /\ Flagged(t)
    BY <1>1, <1>3, FlagIsSet
<1>5. Typed(t)
    BY <1>1, <1>4, TypedLength, SoundTyped DEF SamePicture
<1>6. CallTypeOK'
    <2>1. known' \subseteq User
        BY <1>2, <1>3 DEF CallList, UserList, Range
    <2>2. asked' \in CallList \cup {NoList}
        BY <1>1, <1>2, <1>3 DEF Around
    <2> QED BY <1>1, <1>2, <1>3, <1>5, <2>1, <2>2 DEF Around, Typed, CallTypeOK
<1>7. ShownIsSending'
    BY <1>1, <1>3, <1>4 DEF ShownIsSending, SamePicture
<1>8. Waiting'
    BY <1>3, <1>4 DEF Waiting
<1>9. ScreenIsCurrent' /\ Joining'
    BY <1>2, <1>3 DEF ScreenIsCurrent, Joining
<1> QED BY <1>1, <1>3, <1>4, <1>6, <1>7, <1>8, <1>9 DEF ScreenIInv, SamePicture

(* A list that has the viewer in it only while the flag is set is applied. *)
LEMMA Applied ==
    ASSUME ScreenIInv, NEW list \in CallList, NEW t, t = liveUIController(ui, list)
    PROVE  /\ Sound(t) /\ Typed(t) /\ Flagged(t)
           /\ Range(t.liveUserWithUids) = Range(list) /\ Range(list) \subseteq User
           /\ (Me \in Range(list) => ui.isMicrophoneUser) =>
                 /\ ~late /\ MaxCall <= 9 => Pictured(t)
                 /\ stage = "live" /\ ~late /\ Me \in Range(t.liveUserWithUids) =>
                       t.isMicrophoneUser /\ t.broadcasting
<1>1. /\ Typed(ui) /\ Sound(ui) /\ ShownIsSending /\ Flagged(ui)
      /\ ~late /\ MaxCall <= 9 => Pictured(ui)
    BY TypeParts DEF ScreenIInv
<1>2. list \in UserList /\ Len(list) <= MaxCall /\ Len(list) \in Nat /\ Range(list) \subseteq User
    BY DEF CallList, UserList, Range
<1>3. Controlled(ui, list, t)
    BY <1>1, <1>2, ControllerFacts
<1>4. Sound(t) /\ Typed(t)
    <2>1. t.liveUserWithUids \in Seq(User) /\ Len(t.liveUserWithUids) <= Len(list)
        BY <1>3 DEF Controlled, Sound, UiType
    <2>2. Len(t.liveUserWithUids) <= MaxCall
        BY <1>2, <2>1, UserFacts
    <2> QED BY <1>3, <2>2, SoundTyped DEF Controlled
<1>5. ASSUME Me \in Range(list) => ui.isMicrophoneUser, ~late, MaxCall <= 9
      PROVE  Pictured(t)
    <2>1. Len(list) <= 9 /\ Len(ui.liveUserWithUids) <= 9
        BY <1>1, <1>2, <1>5, TypedLength, UserFacts
    <2> QED BY <1>1, <1>3, <1>5, <2>1 DEF Controlled
<1>6. ASSUME Me \in Range(list) => ui.isMicrophoneUser, stage = "live", ~late,
             Me \in Range(t.liveUserWithUids)
      PROVE  t.isMicrophoneUser /\ t.broadcasting
    <2>1. Me \in Range(list) /\ ui.isMicrophoneUser
        BY <1>3, <1>6 DEF Controlled
    <2>2. t.isMicrophoneUser = ui.isMicrophoneUser
        BY <1>3, <2>1 DEF Controlled
    <2>3. ui.broadcasting \/ Me \notin Range(ui.liveUserWithUids)
        BY <1>1, <1>6 DEF ShownIsSending
    <2>4. t.broadcasting
        BY <1>3, <2>1, <2>3 DEF Controlled
    <2> QED BY <2>1, <2>2, <2>4
<1>7. Flagged(t)
    BY <1>1, <1>3 DEF Controlled
<1> QED BY <1>2, <1>3, <1>4, <1>5, <1>6, <1>7 DEF Controlled

LEMMA LiveWithAgreeEventIInv == ASSUME ScreenIInv, LiveWithAgreeEvent PROVE ScreenIInv'
<1> PICK list, t : list = Head(delayed).list /\ t = ui'
    OBVIOUS
<1>1. /\ delayed # <<>> /\ Head(delayed).type = "agree"
      /\ ui.isMicrophoneUser \/ Me \notin Range(list)
      /\ t = liveUIController(ui, list)
      /\ delayed' = Tail(delayed) /\ stale' = (asked # NoList)
      /\ current' = TRUE /\ known' = Range(list)
      /\ UNCHANGED <<call, stage, late, asked>>
    BY DEF LiveWithAgreeEvent, Handle
<1>2. /\ Tail(delayed) \in Seq(AgreeEvent \cup LeaveEvent)
      /\ Len(Tail(delayed)) <= MaxDelayed
      /\ list \in CallList /\ stage # "joining"
    BY <1>1, FirstEvent
<1>3. /\ Sound(t) /\ Typed(t) /\ Flagged(t)
      /\ Range(t.liveUserWithUids) = Range(list) /\ Range(list) \subseteq User
      /\ ~late /\ MaxCall <= 9 => Pictured(t)
      /\ stage = "live" /\ ~late /\ Me \in Range(t.liveUserWithUids) =>
            t.isMicrophoneUser /\ t.broadcasting
    BY <1>1, <1>2, Applied
<1>4. CallTypeOK'
    <2>1. Around
        BY TypeParts DEF ScreenIInv
    <2> QED BY <1>1, <1>2, <1>3, <2>1 DEF Around, Typed, CallTypeOK
<1>5. ScreenIsCurrent' /\ ShownIsSending'
    BY <1>1, <1>3 DEF ScreenIsCurrent, ShownIsSending
<1>6. Joining' /\ Waiting'
    BY <1>1, <1>2 DEF Joining, Waiting
<1> QED BY <1>1, <1>3, <1>4, <1>5, <1>6 DEF ScreenIInv

LEMMA PermissionGrantedIInv == ASSUME ScreenIInv, PermissionGranted PROVE ScreenIInv'
<1> PICK list, t : list = asked /\ t = ui'
    OBVIOUS
<1>1. /\ list # NoList /\ t = liveUIController(ui, list)
      /\ asked' = NoList /\ stale' = FALSE /\ late' = (late \/ stale) /\ current' = ~stale
      /\ UNCHANGED <<call, delayed, stage, known>>
    BY DEF PermissionGranted
<1>2. Around /\ Joining /\ Waiting
    BY TypeParts DEF ScreenIInv
<1>3. list \in CallList
    BY <1>1, <1>2 DEF Around
<1>4. ~stale => known = Range(list) /\ Me \in Range(list) /\ ui.isMicrophoneUser
    BY <1>1, <1>2 DEF Waiting
<1>5. /\ Sound(t) /\ Typed(t) /\ Flagged(t) /\ Range(t.liveUserWithUids) = Range(list)
      /\ (Me \in Range(list) => ui.isMicrophoneUser) =>
            /\ ~late /\ MaxCall <= 9 => Pictured(t)
            /\ stage = "live" /\ ~late /\ Me \in Range(t.liveUserWithUids) =>
                  t.isMicrophoneUser /\ t.broadcasting
    BY <1>1, <1>3, Applied
<1>6. CallTypeOK'
    BY <1>1, <1>2, <1>5 DEF Around, Typed, CallTypeOK
<1>7. late \in BOOLEAN /\ stale \in BOOLEAN
    BY <1>2 DEF Around
<1>8. ~late' => ~late /\ ~stale
    BY <1>1
<1>9. ~late' /\ MaxCall <= 9 => Pictured(t)
    BY <1>4, <1>5, <1>8
<1>10. ShownIsSending'
    BY <1>1, <1>4, <1>5, <1>8 DEF ShownIsSending
<1>11. ScreenIsCurrent'
    BY <1>1, <1>4, <1>5, <1>7 DEF ScreenIsCurrent
<1>12. Joining' /\ Waiting'
    BY <1>1, <1>2 DEF Joining, Waiting
<1> QED BY <1>5, <1>6, <1>9, <1>10, <1>11, <1>12 DEF ScreenIInv

LEMMA PermissionRefusedIInv == ASSUME ScreenIInv, PermissionRefused PROVE ScreenIInv'
<1>1. CallTypeOK'
    <2>1. Around /\ Typed(ui)
        BY TypeParts DEF ScreenIInv
    <2> QED BY <2>1 DEF PermissionRefused, Around, Typed, CallTypeOK
<1> QED BY <1>1 DEF PermissionRefused, ScreenIInv, ScreenIsCurrent, ShownIsSending,
                    Joining, Waiting, Flagged

(* A user who is not the host leaves the screen, or was not on it.         *)
LEMMA Gone ==
    ASSUME ScreenIInv, NEW u \in Guest, NEW t,
           \/ u \in Range(ui.liveUserWithUids) /\ t = hungUpLiveWithUI(ui, u)
           \/ u \notin Range(ui.liveUserWithUids) /\ t = ui
           \/ /\ u \notin Range(ui.liveUserWithUids) /\ u = Me
              /\ t = [ui EXCEPT !.broadcasting = FALSE]
    PROVE  /\ Sound(t) /\ Typed(t) /\ Flagged(t)
           /\ Range(t.liveUserWithUids) = Range(ui.liveUserWithUids) \ {u}
           /\ ~late /\ MaxCall <= 9 => Pictured(t)
           /\ stage = "live" /\ ~late /\ Me \in Range(t.liveUserWithUids) =>
                 t.isMicrophoneUser /\ t.broadcasting
<1>1. /\ Sound(ui) /\ Typed(ui) /\ ShownIsSending /\ Flagged(ui)
      /\ ~late /\ MaxCall <= 9 => Pictured(ui)
    BY TypeParts DEF ScreenIInv
<1>2. CASE u \in Range(ui.liveUserWithUids) /\ t = hungUpLiveWithUI(ui, u)
    <2>1. /\ Sound(t)
          /\ Range(t.liveUserWithUids) = Range(ui.liveUserWithUids) \ {u}
          /\ Len(t.liveUserWithUids) = Len(ui.liveUserWithUids) - 1
          /\ Pictured(ui) /\ Len(ui.liveUserWithUids) <= 9 => Pictured(t)
          /\ t.isMicrophoneUser <=> ui.isMicrophoneUser /\ u # Me
          /\ t.broadcasting <=> ui.broadcasting /\ ~(ui.isMicrophoneUser /\ u = Me)
        <3>1. u # Host
            BY UserFacts
        <3> QED BY <1>1, <1>2, <3>1, HungUpFacts
    <2>2. /\ Len(ui.liveUserWithUids) \in Nat /\ Len(ui.liveUserWithUids) <= MaxCall
          /\ Len(t.liveUserWithUids) <= MaxCall /\ MaxCall \in Nat
        BY <1>1, <2>1, TypedLength, UserFacts
    <2>3. Typed(t)
        BY <2>1, <2>2, SoundTyped
    <2>4. ~late /\ MaxCall <= 9 => Pictured(t)
        BY <1>1, <2>1, <2>2
    <2>5. stage = "live" /\ ~late /\ Me \in Range(t.liveUserWithUids) =>
             t.isMicrophoneUser /\ t.broadcasting
        BY <1>1, <2>1 DEF ShownIsSending
    <2>6. Flagged(t)
        BY <1>1, <2>1 DEF Flagged
    <2> QED BY <2>1, <2>3, <2>4, <2>5, <2>6
<1>3. CASE u \notin Range(ui.liveUserWithUids) /\ t = ui
    BY <1>1, <1>3 DEF ShownIsSending
<1>4. CASE /\ u \notin Range(ui.liveUserWithUids) /\ u = Me
           /\ t = [ui EXCEPT !.broadcasting = FALSE]
    <2>1. SamePicture(ui, t) /\ Flagged(t)
        BY <1>1, <1>4, Muted
    <2>2. Typed(t)
        BY <1>1, <2>1, TypedLength, SoundTyped DEF SamePicture
    <2> QED BY <1>1, <1>4, <2>1, <2>2 DEF SamePicture
<1> QED BY <1>2, <1>3, <1>4

LEMMA LeaveIInv ==
    ASSUME ScreenIInv, delayed # <<>>, Head(delayed).type # "agree",
           NEW u, u = Head(delayed).target,
           \/ u \in Range(ui.liveUserWithUids) /\ ui' = hungUpLiveWithUI(ui, u)
           \/ u \notin Range(ui.liveUserWithUids) /\ ui' = ui
           \/ /\ u \notin Range(ui.liveUserWithUids) /\ u = Me
              /\ ui' = [ui EXCEPT !.broadcasting = FALSE],
           delayed' = Tail(delayed), stale' = (asked # NoList), known' = known \ {u},
           UNCHANGED <<call, stage, late, asked, current>>
    PROVE  ScreenIInv'
<1>1. /\ Tail(delayed) \in Seq(AgreeEvent \cup LeaveEvent)
      /\ Len(Tail(delayed)) <= MaxDelayed
      /\ u \in Guest /\ stage # "joining"
    BY FirstEvent
<1> PICK t : t = ui'
    OBVIOUS
<1>2. /\ Sound(t) /\ Typed(t) /\ Flagged(t)
      /\ Range(t.liveUserWithUids) = Range(ui.liveUserWithUids) \ {u}
      /\ ~late /\ MaxCall <= 9 => Pictured(t)
      /\ stage = "live" /\ ~late /\ Me \in Range(t.liveUserWithUids) =>
            t.isMicrophoneUser /\ t.broadcasting
    BY <1>1, Gone
<1>3. CallTypeOK'
    <2>1. Around
        BY TypeParts DEF ScreenIInv
    <2> QED BY <1>1, <1>2, <2>1 DEF Around, Typed, CallTypeOK
<1>4. ScreenIsCurrent'
    BY <1>2 DEF ScreenIInv, ScreenIsCurrent
<1>5. ShownIsSending'
    BY <1>2 DEF ShownIsSending
<1>6. Joining' /\ Waiting'
    BY <1>1 DEF Joining, Waiting
<1> QED BY <1>2, <1>3, <1>4, <1>5, <1>6 DEF ScreenIInv

LEMMA LiveWithHangupEventIInv == ASSUME ScreenIInv, LiveWithHangupEvent PROVE ScreenIInv'
BY LeaveIInv DEF LiveWithHangupEvent, Handle

LEMMA LiveWithCancelEventIInv == ASSUME ScreenIInv, LiveWithCancelEvent PROVE ScreenIInv'
BY LeaveIInv DEF LiveWithCancelEvent, Handle

LEMMA CallNextIInv == ScreenIInv /\ [CallNext]_callVars => ScreenIInv'
<1> SUFFICES ASSUME ScreenIInv, [CallNext]_callVars PROVE ScreenIInv'
    OBVIOUS
<1>1. CASE \E u \in Guest : live_with_agree(u) \/ live_with_hang_up(u) \/ live_with_cancel(u)
    BY <1>1, live_with_agreeIInv, live_with_hang_upIInv, live_with_cancelIInv
<1>2. CASE LiveStart
    BY <1>2, LiveStartIInv
<1>3. CASE showLeavePrompt
    BY <1>3, showLeavePromptIInv
<1>4. CASE AskPermission
    BY <1>4, AskPermissionIInv
<1>5. CASE LiveWithAgreeEvent
    BY <1>5, LiveWithAgreeEventIInv
<1>6. CASE LiveWithHangupEvent
    BY <1>6, LiveWithHangupEventIInv
<1>7. CASE LiveWithCancelEvent
    BY <1>7, LiveWithCancelEventIInv
<1>8. CASE PermissionGranted
    BY <1>8, PermissionGrantedIInv
<1>9. CASE PermissionRefused
    BY <1>9, PermissionRefusedIInv
<1>10. CASE UNCHANGED callVars
    BY <1>10 DEF callVars, ScreenIInv, CallTypeOK, ScreenIsCurrent, ShownIsSending,
                 Joining, Waiting, Flagged
<1> QED BY <1>1, <1>2, <1>3, <1>4, <1>5, <1>6, <1>7, <1>8, <1>9, <1>10 DEF CallNext

-----------------------------------------------------------------------------
(* The theorems of the call                                                *)

(* Whatever the server does, whatever is lost, late, granted or refused.   *)
THEOREM ScreenInductive == CallSpec => []ScreenIInv
BY CallInitIInv, CallNextIInv, PTL DEF CallSpec

(* The lists, windows, uids and flags of the live have their types: as     *)
(* many windows as the layout needs, a picture for nobody who has left.    *)
THEOREM CallTypeCorrect == CallSpec => []CallTypeOK
<1>1. ScreenIInv => CallTypeOK
    BY DEF ScreenIInv
<1> QED BY <1>1, ScreenInductive, PTL

(* Window number i shows user number i, where PublisherStateEvent looks    *)
(* for it, as long as no list was applied too late and there is a layout   *)
(* for all whom the server takes up.                                       *)
THEOREM AlwaysWindowsInOrder == CallSpec => []WindowsInOrder
<1>1. ASSUME ScreenIInv PROVE WindowsInOrder
    <2>1. ui.liveContainers \in Seq(User \cup {Empty})
        BY <1>1 DEF ScreenIInv, Sound, UiType
    <2>2. DOMAIN ui.liveContainers = 1 .. Len(ui.liveContainers)
        BY <2>1
    <2> QED BY <1>1, <2>2 DEF ScreenIInv, Pictured, Shows, WindowsInOrder
<1> QED BY <1>1, ScreenInductive, PTL

(* Once the last list has been applied the screen shows exactly those on   *)
(* the call by the events handled, whichever events were lost before it.   *)
THEOREM AlwaysScreenIsCurrent == CallSpec => []ScreenIsCurrent
<1>1. ScreenIInv => ScreenIsCurrent
    BY DEF ScreenIInv
<1> QED BY <1>1, ScreenInductive, PTL

(* A viewer with an own window among those on the call is sending.         *)
THEOREM AlwaysShownIsSending == CallSpec => []ShownIsSending
<1>1. ScreenIInv => ShownIsSending
    BY DEF ScreenIInv
<1> QED BY <1>1, ScreenInductive, PTL

(* The phone does not send without its flag, however late a list came:     *)
(* hungUpLiveWithUI, which asks for the flag before it turns camera and    *)
(* microphone off, finds it set whenever there is something to turn off.   *)
THEOREM AlwaysSendingIsFlagged == CallSpec => []SendingIsFlagged
<1>1. ScreenIInv => SendingIsFlagged
    BY DEF ScreenIInv, Flagged, SendingIsFlagged
<1> QED BY <1>1, ScreenInductive, PTL

=============================================================================
