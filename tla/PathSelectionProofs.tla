------------------------ MODULE PathSelectionProofs ------------------------
(***************************************************************************)
(* What TLAPS proves of path selection and the guards, for any number of   *)
(* builders, relays, guards kept and authorities, and for any documents    *)
(* the authorities serve: a confirmed guard leaves the list only by        *)
(* removal or expiry, a path is of one consensus, and a guard whose        *)
(* confirmation was saved is in the state file from then on.               *)
(*                                                                         *)
(* The first part is about the operators on lists.  Nothing is said there  *)
(* of which relays a list names, so that no proof depends on what the      *)
(* directory client makes of a document.                                   *)
(***************************************************************************)
EXTENDS PathSelection, FiniteSetTheorems, FunctionTheorems, WellFoundedInduction, TLAPS

(* First picks the least element of a set of positions: the natural        *)
(* numbers are well founded.                                               *)
LEMMA FirstIsMember ==
  ASSUME NEW S \in SUBSET Nat, S # {}
  PROVE  First(S) \in S /\ \A j \in S : First(S) <= j
<1>1. PICK m \in S : \A k \in S : <<k, m>> \notin OpToRel(<, Nat)
  BY WFMin, NatLessThanWellFounded, Zenon
<1>2. \A k \in S : ~(k < m)
  BY <1>1, Zenon DEF OpToRel
<1>3. \E i \in S : \A j \in S : i <= j
  <2>1. m \in Nat /\ \A j \in S : j \in Nat
    OBVIOUS
  <2>2. \A j \in S : m <= j
    BY <2>1, <1>2
  <2> QED BY <2>2
<1> QED BY <1>3, Zenon DEF First

(* An entry of a guard list, whatever relay it names, and a list of them.  *)
IsEntry(e) ==
  /\ e = [relay |-> e.relay, confirmed |-> e.confirmed, used |-> e.used]
  /\ e.confirmed \in BOOLEAN

Entries(l) == {l[i] : i \in DOMAIN l}
IsList(l) == l \in Seq(Entries(l)) /\ \A i \in DOMAIN l : IsEntry(l[i])

(* A sequence of entries is a list.                                        *)
LEMMA ListShape ==
  ASSUME NEW l, NEW n \in Nat, DOMAIN l = 1 .. n,
         l = [i \in 1 .. n |-> l[i]], \A i \in 1 .. n : IsEntry(l[i])
  PROVE  IsList(l)
BY DEF IsList, Entries

(* Past the first of two joined sequences are the members of the second.   *)
LEMMA JoinedPlace ==
  ASSUME NEW S, NEW a \in Seq(S), NEW b \in Seq(S),
         NEW k \in 1 .. Len(a) + Len(b), ~(k <= Len(a))
  PROVE  (a \o b)[k] = b[k - Len(a)]
OBVIOUS

(* Up to there are the members of the first.                               *)
LEMMA JoinedFirst ==
  ASSUME NEW S, NEW a \in Seq(S), NEW b \in Seq(S), NEW k \in 1 .. Len(a)
  PROVE  (a \o b)[k] = a[k]
OBVIOUS

(* RemoveAt takes out one entry and keeps every other, in a list.          *)
LEMMA RemoveAtKeeps ==
  ASSUME NEW l, IsList(l), NEW i \in DOMAIN l
  PROVE  /\ IsList(RemoveAt(l, i))
         /\ \A j \in DOMAIN l \ {i} : \E k \in DOMAIN RemoveAt(l, i) : RemoveAt(l, i)[k] = l[j]
         /\ \A k \in DOMAIN RemoveAt(l, i) : RemoveAt(l,i)[k] \in Entries(l)
<1> DEFINE S == Entries(l)
<1>1. l \in Seq(S) /\ \A e \in S : IsEntry(e) /\ DOMAIN l = 1 .. Len(l) 
  BY DEF IsList, Entries
<1> HIDE DEF S
<1> DEFINE t == RemoveAt(l, i)
<1>2. /\ t \in Seq(S) /\ Len(t) = Len(l) - 1
      /\ \A k \in 1 .. Len(l) - 1 : t[k] = IF k < i THEN l[k] ELSE l[k + 1]
  <2> DEFINE a == SubSeq(l, 1, i - 1)
             b == SubSeq(l, i + 1, Len(l))
  <2>1. i \in 1 .. Len(l) /\ Len(l) \in Nat
    BY <1>1
  <2>2. a \in Seq(S) /\ Len(a) = i - 1 /\ \A k \in 1 .. i - 1 : a[k] = l[k]
    BY <1>1, <2>1
  <2>3. b \in Seq(S) /\ Len(b) = Len(l) - i /\ \A k \in 1 .. Len(l) - i : b[k] = l[k + i]
    BY <1>1, <2>1
  <2>4. t = a \o b
    BY DEF RemoveAt
  <2> HIDE DEF a, b, t
  <2>5. t \in Seq(S) /\ Len(t) = Len(l) - 1
    BY <2>1, <2>2, <2>3, <2>4
  <2>6. ASSUME NEW k \in 1 .. Len(l) - 1
        PROVE  t[k] = IF k < i THEN l[k] ELSE l[k + 1]
    <3>1. CASE k < i
      <4>1. a \in Seq(S) /\ b \in Seq(S) /\ Len(a) = i - 1 /\ Len(b) = Len(l) - i
        BY <2>2, <2>3
      <4>2. k \in 1 .. i - 1
        BY <3>1, <2>1
      <4>3. (a \o b)[k] = a[k]
        BY <2>1, <4>1, <4>2, JoinedFirst
      <4> QED BY <2>2, <2>4, <3>1, <4>2, <4>3
    <3>2. CASE ~(k < i)
      <4>0. /\ k \in Int /\ 1 <= k /\ k <= Len(l) - 1 /\ i \in Int
            /\ k - (i - 1) \in 1 .. Len(l) - i
        BY <3>2, <2>1
      <4>1. t[k] = b[k - (i - 1)]
        <5>1. a \in Seq(S) /\ b \in Seq(S) /\ Len(a) = i - 1 /\ Len(b) = Len(l) - i
          BY <2>2, <2>3
        <5>2. k \in 1 .. (i - 1) + (Len(l) - i) /\ ~(k <= i - 1)
          BY <3>2, <4>0, <2>1
        <5>3. (a \o b)[k] = b[k - Len(a)]
          BY <5>1, <5>2, JoinedPlace
        <5> QED BY <2>4, <5>1, <5>3
      <4>2. b[k - (i - 1)] = l[(k - (i - 1)) + i]
        BY <4>0, <2>3
      <4>3. (k - (i - 1)) + i = k + 1
        BY <4>0
      <4> QED BY <3>2, <4>1, <4>2, <4>3
    <3> QED BY <3>1, <3>2
  <2> QED BY <2>5, <2>6
<1>3. DOMAIN t = 1 .. Len(l) - 1 /\ Len(l) \in Nat /\ i \in 1 .. Len(l)
  BY <1>1, <1>2
<1>4. \A k \in DOMAIN t : t[k] \in S
  BY <1>2
<1>5. IsList(t)
  <2>1. t \in Seq(Entries(t))
    BY <1>2 DEF Entries
  <2> QED BY <2>1, <1>4, <1>1 DEF IsList
<1>6. ASSUME NEW j \in DOMAIN l \ {i}
      PROVE  \E k \in DOMAIN t : t[k] = l[j]
  <2>0. j \in 1 .. Len(l) /\ j # i /\ i \in 1 .. Len(l) /\ Len(l) \in Nat
    BY <1>1, <1>3
  <2> HIDE DEF t
  <2>1. CASE j < i
    <3>1. j \in 1 .. Len(l) - 1
      BY <2>0, <2>1
    <3> QED BY <1>2, <1>3, <2>1, <3>1
  <2>2. CASE ~(j < i)
    <3>1. j - 1 \in DOMAIN t /\ ~(j - 1 < i) /\ t[j - 1] = l[j]
      <4>1. j - 1 \in 1 .. Len(l) - 1 /\ ~(j - 1 < i) /\ (j - 1) + 1 = j
        BY <2>0, <2>2
      <4>2. t[j - 1] = l[(j - 1) + 1]
        BY <1>2, <4>1
      <4> QED BY <1>3, <4>1, <4>2
    <3> QED BY <3>1
  <2> QED BY <2>1, <2>2
<1> QED BY <1>4, <1>5, <1>6, <1>1 DEF S
(* Counting the members of a set of numbers up to each of its members      *)
(* numbers them from 1 to their number: the places that Unexpired gives    *)
(* to the entries it keeps.                                                *)
LEMMA PlacesFill ==
  ASSUME NEW n \in Nat, NEW K \in SUBSET (1 .. n)
  PROVE  /\ Cardinality(K) \in Nat
         /\ \A i \in K : Cardinality({j \in K : j <= i}) \in 1 .. Cardinality(K)
         /\ \A i, h \in K :
              Cardinality({j \in K : j <= i}) = Cardinality({j \in K : j <= h}) => i = h
         /\ \A k \in 1 .. Cardinality(K) :
              \E i \in K : Cardinality({j \in K : j <= i}) = k
<1> DEFINE UpTo(i) == {j \in K : j <= i}
           N == Cardinality(K)
           T == 1 .. N
<1>1. IsFiniteSet(K) /\ N \in Nat
  <2>1. IsFiniteSet(1 .. n)
    BY FS_Interval
  <2> QED BY <2>1, FS_Subset, FS_CardinalityType
<1>2. \A i : /\ IsFiniteSet(UpTo(i)) /\ Cardinality(UpTo(i)) \in Nat
            /\ Cardinality(UpTo(i)) <= N
  <2> SUFFICES ASSUME NEW i
               PROVE  /\ IsFiniteSet(UpTo(i)) /\ Cardinality(UpTo(i)) \in Nat
                      /\ Cardinality(UpTo(i)) <= N
    OBVIOUS
  <2>1. UpTo(i) \in SUBSET K
    OBVIOUS
  <2> HIDE DEF UpTo
  <2> QED BY <1>1, <2>1, FS_Subset, FS_CardinalityType
<1>3. \A i \in K : Cardinality(UpTo(i)) # 0
  <2> SUFFICES ASSUME NEW i \in K PROVE Cardinality(UpTo(i)) # 0
    OBVIOUS
  <2>1. i \in UpTo(i)
    OBVIOUS
  <2> QED BY <1>2, <2>1, FS_EmptySet
<1>4. ASSUME NEW i \in K, NEW h \in K, i < h
      PROVE  Cardinality(UpTo(i)) # Cardinality(UpTo(h))
  <2>1. UpTo(i) \in SUBSET UpTo(h) /\ h \in UpTo(h) /\ h \notin UpTo(i)
    <3>1. \A j \in K : j <= i => j <= h
      BY <1>4
    <3>2. h <= h /\ ~(h <= i)
      BY <1>4
    <3> QED BY <3>1, <3>2
  <2> HIDE DEF UpTo
  <2> QED BY <2>1, <1>2, FS_Subset
<1>5. \A i, h \in K : Cardinality(UpTo(i)) = Cardinality(UpTo(h)) => i = h
  <2> SUFFICES ASSUME NEW i \in K, NEW h \in K, Cardinality(UpTo(i)) = Cardinality(UpTo(h))
               PROVE  i = h
    OBVIOUS
  <2>1. ~(i < h) /\ ~(h < i)
    BY <1>4
  <2> QED BY <2>1
<1>6. \A i \in K : Cardinality(UpTo(i)) \in T
  BY <1>1, <1>2, <1>3
<1> DEFINE f == [i \in K |-> Cardinality(UpTo(i))]
<1>7. f \in Injection(K, T)
  <2>1. f \in [K -> T]
    BY <1>6
  <2>2. \A i, h \in K : f[i] = f[h] => i = h
    BY <1>5
  <2> QED BY <2>1, <2>2, Fun_IsInj
<1>8. IsFiniteSet(T) /\ Cardinality(T) = N
  BY <1>1, FS_Interval
<1>9. f \in Surjection(K, T)
  <2> HIDE DEF f, T, N
  <2>1. Cardinality(K) = Cardinality(T)
    BY <1>8 DEF N
  <2> QED BY <2>1, <1>7, <1>8, FS_Injection
<1>10. \A k \in T : \E i \in K : f[i] = k
  <2> HIDE DEF f, T
  <2> QED BY <1>9, Fun_SurjectionProperties
<1> QED BY <1>1, <1>5, <1>6, <1>10

(* GetGuards and CleanupExpired keep every entry that has not expired      *)
(* (guards.go:121-136).                                                    *)
LEMMA UnexpiredKeeps ==
  ASSUME NEW l, IsList(l)
  PROVE  /\ IsList(Unexpired(l))
         /\ \A i \in DOMAIN l :
              l[i].used = epoch => \E k \in DOMAIN Unexpired(l) : Unexpired(l)[k] = l[i]
<1> DEFINE K == {i \in DOMAIN l : l[i].used = epoch}
           Place(i) == Cardinality({j \in K : j <= i})
           At(k) == CHOOSE i \in K : Place(i) = k
           N == Cardinality(K)
<1>1. DOMAIN l = 1 .. Len(l) /\ Len(l) \in Nat /\ K \in SUBSET (1 .. Len(l))
  BY DEF IsList
<1>2. /\ N \in Nat
      /\ \A i \in K : Place(i) \in 1 .. N
      /\ \A i, h \in K : Place(i) = Place(h) => i = h
      /\ \A k \in 1 .. N : \E i \in K : Place(i) = k
  <2> HIDE DEF K
  <2> QED BY <1>1, PlacesFill
<1>3. Unexpired(l) = [k \in 1 .. N |-> l[At(k)]]
  BY DEF Unexpired
<1> HIDE DEF N, Place
<1>4. \A k \in 1 .. N : At(k) \in K
  BY <1>2
<1>5. \A i \in K : At(Place(i)) = i
  BY <1>2
<1>6. \A k \in 1 .. N : IsEntry(l[At(k)])
  BY <1>4 DEF IsList
<1> HIDE DEF At
<1>7. IsList(Unexpired(l))
  <2>1. /\ DOMAIN Unexpired(l) = 1 .. N
        /\ Unexpired(l) = [k \in 1 .. N |-> Unexpired(l)[k]]
        /\ \A k \in 1 .. N : IsEntry(Unexpired(l)[k])
    BY <1>3, <1>6
  <2> QED BY <2>1, <1>2, ListShape
<1>8. \A i \in K : Place(i) \in DOMAIN Unexpired(l) /\ Unexpired(l)[Place(i)] = l[i]
  BY <1>2, <1>3, <1>5
<1> QED BY <1>7, <1>8

(* Confirmed, as an existential.                                           *)
LEMMA ConfirmedIs ==
  ASSUME NEW l, NEW r
  PROVE  r \in Confirmed(l) <=> \E i \in DOMAIN l : l[i].confirmed /\ l[i].relay = r
BY DEF Confirmed, Unconfirmed

(* Appending an entry confirms nobody and loses nobody.                    *)
LEMMA AppendKeeps ==
  ASSUME NEW l, IsList(l), NEW e, IsEntry(e)
  PROVE  IsList(Append(l, e)) /\ Confirmed(l) \subseteq Confirmed(Append(l, e))
<1> DEFINE S == Entries(l) \cup {e}
           t == Append(l, e)
<1>1. l \in Seq(S) /\ e \in S /\ \A x \in S : IsEntry(x)
  BY DEF IsList, Entries
<1> HIDE DEF S
<1>2. /\ t \in Seq(S)
      /\ DOMAIN t = 1 .. Len(l) + 1
      /\ \A i \in DOMAIN l : i \in DOMAIN t /\ t[i] = l[i]
      /\ \A i \in DOMAIN t : t[i] \in S
  BY <1>1
<1> HIDE DEF t
<1>3. IsList(t)
  <2>1. t \in Seq(Entries(t))
    BY <1>2 DEF Entries
  <2> QED BY <2>1, <1>1, <1>2 DEF IsList
<1>4. ASSUME NEW r \in Confirmed(l)
      PROVE  r \in Confirmed(t)
  <2>1. PICK i \in DOMAIN l : l[i].confirmed /\ l[i].relay = r
    BY <1>4, ConfirmedIs
  <2>2. i \in DOMAIN t /\ t[i].confirmed /\ t[i].relay = r
    BY <2>1, <1>2
  <2> QED BY <2>2, ConfirmedIs
<1> QED BY <1>3, <1>4 DEF t

(* Confirming or refreshing the entry of a guard loses no confirmed guard  *)
(* (guards.go:146-154).                                                    *)
LEMMA TouchedKeeps ==
  ASSUME NEW l, IsList(l), NEW r
  PROVE  IsList(Touched(l, r)) /\ Confirmed(l) \subseteq Confirmed(Touched(l, r))
<1> DEFINE t == Touched(l, r)
<1>1. DOMAIN l = 1 .. Len(l) /\ Len(l) \in Nat /\ \A i \in DOMAIN l : IsEntry(l[i])
  BY DEF IsList
<1>2. /\ DOMAIN t = DOMAIN l
      /\ t = [i \in DOMAIN l |-> t[i]]
      /\ \A i \in DOMAIN l :
           t[i] = IF l[i].relay = r
                    THEN [l[i] EXCEPT !.confirmed = TRUE, !.used = epoch]
                    ELSE l[i]
  BY DEF Touched
<1> HIDE DEF t
<1>3. \A i \in DOMAIN l :
        /\ IsEntry(t[i]) /\ t[i].relay = l[i].relay
        /\ l[i].confirmed => t[i].confirmed
  <2> SUFFICES ASSUME NEW i \in DOMAIN l
               PROVE  /\ IsEntry(t[i]) /\ t[i].relay = l[i].relay
                      /\ l[i].confirmed => t[i].confirmed
    OBVIOUS
  <2>1. CASE l[i].relay = r
    <3>1. t[i] = [relay |-> r, confirmed |-> TRUE, used |-> epoch]
      BY <2>1, <1>1, <1>2 DEF IsEntry
    <3> QED BY <2>1, <3>1 DEF IsEntry
  <2>2. CASE l[i].relay # r
    BY <2>2, <1>1, <1>2
  <2> QED BY <2>1, <2>2
<1>4. IsList(t)
  BY <1>1, <1>2, <1>3, ListShape
<1>5. ASSUME NEW x \in Confirmed(l)
      PROVE  x \in Confirmed(t)
  <2>1. PICK i \in DOMAIN l : l[i].confirmed /\ l[i].relay = x
    BY <1>5, ConfirmedIs
  <2>2. i \in DOMAIN t /\ t[i].confirmed /\ t[i].relay = x
    BY <2>1, <1>2, <1>3
  <2> QED BY <2>2, ConfirmedIs
<1> QED BY <1>4, <1>5 DEF t

(* Taking out one entry loses at most the guard that entry confirms.       *)
LEMMA RemovedKeeps ==
  ASSUME NEW l, IsList(l), NEW i \in DOMAIN l
  PROVE  /\ IsList(RemoveAt(l, i))
         /\ \A r \in Confirmed(l) :
              r \in Confirmed(RemoveAt(l, i)) \/ (l[i].confirmed /\ l[i].relay = r)
<1>1. ASSUME NEW r \in Confirmed(l), ~(l[i].confirmed /\ l[i].relay = r)
      PROVE  r \in Confirmed(RemoveAt(l, i))
  <2>1. PICK j \in DOMAIN l : l[j].confirmed /\ l[j].relay = r
    BY <1>1, ConfirmedIs
  <2>2. PICK k \in DOMAIN RemoveAt(l, i) : RemoveAt(l, i)[k] = l[j]
    BY <2>1, <1>1, RemoveAtKeeps
  <2> QED BY <2>1, <2>2, ConfirmedIs
<1> QED BY <1>1, RemoveAtKeeps

(* AddGuard loses no confirmed guard, a full list included: it makes room  *)
(* by an unconfirmed entry or stays as it is (guards.go:157-174).          *)
LEMMA AddedKeeps ==
  ASSUME NEW l, IsList(l), NEW r
  PROVE  IsList(Added(l, r)) /\ Confirmed(l) \subseteq Confirmed(Added(l, r))
<1>1. IsEntry(NewEntry(r))
  BY DEF IsEntry, NewEntry
<1>2. CASE IndexOf(l, r) # {}
  <2>1. Added(l, r) = Touched(l, r)
    BY <1>2 DEF Added
  <2> QED BY <2>1, TouchedKeeps
<1>3. CASE IndexOf(l, r) = {} /\ Len(l) < MaxGuards
  <2>1. ~(Len(l) >= MaxGuards)
    BY <1>3, GuardLimitAssumption DEF IsList, GuardLimitAssumption
  <2>2. Added(l, r) = Append(l, NewEntry(r))
    BY <1>3, <2>1, Zenon DEF Added
  <2> QED BY <2>2, <1>1, AppendKeeps
<1>4. CASE IndexOf(l, r) = {} /\ Len(l) >= MaxGuards /\ Unconfirmed(l) # {}
  <2> DEFINE i == First(Unconfirmed(l))
  <2>1. i \in Unconfirmed(l)
    <3>1. Unconfirmed(l) \in SUBSET Nat
      BY DEF IsList, Unconfirmed
    <3> QED BY <3>1, <1>4, FirstIsMember
  <2>2. i \in DOMAIN l /\ ~l[i].confirmed
    BY <2>1 DEF Unconfirmed
  <2>3. ~(Len(l) < MaxGuards)
    BY <1>4, GuardLimitAssumption DEF IsList, GuardLimitAssumption
  <2>4. Added(l, r) = Append(RemoveAt(l, i), NewEntry(r))
    BY <1>4, <2>3, Zenon DEF Added
  <2> HIDE DEF i
  <2>5. IsList(RemoveAt(l, i)) /\ Confirmed(l) \subseteq Confirmed(RemoveAt(l, i))
    BY <2>2, RemovedKeeps
  <2> QED BY <2>4, <2>5, <1>1, AppendKeeps
<1>5. CASE /\ IndexOf(l, r) = {} /\ ~(Len(l) < MaxGuards)
           /\ ~(Len(l) >= MaxGuards /\ Unconfirmed(l) # {})
  <2>1. Added(l, r) = l
    BY <1>5 DEF Added
  <2> QED BY <2>1
<1> QED BY <1>2, <1>3, <1>4, <1>5

(* CleanupExpired loses only confirmed guards with an expired entry.       *)
LEMMA UnexpiredConfirmed ==
  ASSUME NEW l, IsList(l)
  PROVE  /\ IsList(Unexpired(l))
         /\ \A r \in Confirmed(l) :
              \/ r \in Confirmed(Unexpired(l))
              \/ \E j \in DOMAIN l : l[j].used # epoch /\ l[j].relay = r
<1>1. ASSUME NEW r \in Confirmed(l), \A j \in DOMAIN l : l[j].relay = r => l[j].used = epoch
      PROVE  r \in Confirmed(Unexpired(l))
  <2>1. PICK j \in DOMAIN l : l[j].confirmed /\ l[j].relay = r
    BY <1>1, ConfirmedIs
  <2>2. PICK k \in DOMAIN Unexpired(l) : Unexpired(l)[k] = l[j]
    BY <2>1, <1>1, UnexpiredKeeps
  <2> QED BY <2>1, <2>2, ConfirmedIs
<1> QED BY <1>1, UnexpiredKeeps

-----------------------------------------------------------------------------
(* Where a builder can be.                                                 *)
Steps == {"idle", "adding", "saving", "writing", "renaming", "choosing",
          "building", "confirming"}

ListsInv ==
  /\ IsList(list)
  /\ data = [b \in Builders |-> data[b]] /\ \A b \in Builders : IsList(data[b])
  /\ content = [i \in Contents |-> content[i]] /\ \A i \in Contents : IsList(content[i])
  /\ pc \in [Builders -> Steps]
  /\ fd \in [Builders -> Contents \cup {NoFile}]
  /\ tmp \in Contents \cup {NoFile} /\ file \in Contents \cup {NoFile}
  /\ \A b \in Saving : fd[b] \in Contents

(* There are two contents more than builders.                              *)
LEMMA ContentsNumbered ==
  /\ IsFiniteSet(Contents) /\ Cardinality(Contents) = Cardinality(Builders) + 2
  /\ Cardinality(Builders) \in Nat
  /\ Contents \in SUBSET Nat /\ NoFile \notin Contents
<1> DEFINE n == Cardinality(Builders)
<1>1. n \in Nat
  BY BuildersAssumption, FS_CardinalityType DEF BuildersAssumption
<1>2. Contents = 1 .. n + 2 /\ NoFile = 0
  BY DEF Contents, NoFile
<1> HIDE DEF n
<1>3. IsFiniteSet(1 .. n + 2) /\ Cardinality(1 .. n + 2) = n + 2
  <2>1. 1 \in Int /\ n + 2 \in Int /\ ~(1 > n + 2) /\ n + 2 - 1 + 1 = n + 2
    BY <1>1
  <2> QED BY <2>1, FS_Interval
<1>4. 1 .. n + 2 \in SUBSET Nat /\ 0 \notin 1 .. n + 2
  BY <1>1
<1> QED BY <1>1, <1>2, <1>3, <1>4 DEF n

(* Opening ".tmp" when it does not exist finds a content that no writer    *)
(* and no name holds: writers hold at most one each.                       *)
LEMMA FreshIsFree ==
  ASSUME fd \in [Builders -> Contents \cup {NoFile}], tmp = NoFile
  PROVE  /\ Fresh \in Contents /\ Fresh # file
         /\ \A b \in Saving : Fresh # fd[b]
<1> DEFINE N == Cardinality(Builders)
           U == {fd[b] : b \in Builders}
           V == U \cup {file}
           X == {fd[b] : b \in Saving} \cup {tmp, file}
           Free == Contents \ X
<1>1. IsFiniteSet(U) /\ Cardinality(U) <= N
  <2>1. fd \in [Builders -> U] /\ \A u \in U : \E b \in Builders : fd[b] = u
    OBVIOUS
  <2> HIDE DEF U
  <2>2. fd \in Surjection(Builders, U)
    BY <2>1, Fun_IsSurj
  <2>3. IsFiniteSet(Builders)
    BY BuildersAssumption DEF BuildersAssumption
  <2> QED BY <2>2, <2>3, FS_Surjection
<1>2. IsFiniteSet(V) /\ Cardinality(V) < N + 2
  <2> HIDE DEF U
  <2>1. /\ IsFiniteSet(V)
        /\ Cardinality(V) = IF file \in U THEN Cardinality(U) ELSE Cardinality(U) + 1
    BY <1>1, FS_AddElement
  <2>2. Cardinality(U) \in Nat /\ N \in Nat
    BY <1>1, FS_CardinalityType, ContentsNumbered
  <2> QED BY <2>1, <2>2, <1>1
<1>3. Free # {}
  <2> SUFFICES ASSUME Free = {} PROVE FALSE
    OBVIOUS
  <2>1. Contents \in SUBSET V
    <3>1. Saving \subseteq Builders
      BY DEF Saving
    <3>2. \A i \in Contents : i \in X /\ i # NoFile
      BY ContentsNumbered
    <3> QED BY <3>1, <3>2
  <2> HIDE DEF V, N
  <2>2. Cardinality(Contents) <= Cardinality(V)
    BY <2>1, <1>2, FS_Subset
  <2>3. Cardinality(V) \in Nat /\ N \in Nat /\ Cardinality(Contents) = N + 2
    BY <1>2, FS_CardinalityType, ContentsNumbered DEF N
  <2> QED BY <2>2, <2>3, <1>2
<1>4. Fresh \in Free
  <2>1. Fresh = First(Free)
    BY DEF Fresh
  <2>2. Free \in SUBSET Nat
    BY ContentsNumbered
  <2> HIDE DEF Free
  <2> QED BY <1>3, <2>1, <2>2, FirstIsMember
<1> QED BY <1>4

(* A guard manager without a state file starts with a list.                *)
LEMMA EmptyIsList == IsList(<< >>)
BY DEF IsList, Entries

(* Every step keeps lists and names well formed, a restart included,       *)
(* which loads what the state file names.                                  *)
LEMMA ListsStep ==
  ASSUME ListsInv, [Next]_vars
  PROVE  ListsInv'
<1>0. /\ IsList(list)
      /\ data = [b \in Builders |-> data[b]] /\ \A b \in Builders : IsList(data[b])
      /\ content = [i \in Contents |-> content[i]] /\ \A i \in Contents : IsList(content[i])
      /\ pc \in [Builders -> Steps]
      /\ fd \in [Builders -> Contents \cup {NoFile}]
      /\ tmp \in Contents \cup {NoFile} /\ file \in Contents \cup {NoFile}
      /\ \A b \in Saving : fd[b] \in Contents
  BY DEF ListsInv
<1>1. ASSUME UNCHANGED <<list, fileVars, pc>>
      PROVE  ListsInv'
  BY <1>0, <1>1 DEF ListsInv, fileVars, Saving
<1>2. ASSUME NEW b \in Builders,
             SelectGuard(b) \/ SelectRest(b) \/ \E built \in BOOLEAN : BuildEnds(b, built)
      PROVE  ListsInv'
  <2>1. UNCHANGED <<list, fileVars>>
    BY <1>2 DEF SelectGuard, SelectRest, BuildEnds
  <2>2. /\ pc' \in [Builders -> Steps]
        /\ \A c \in Builders : pc'[c] \in {"writing", "renaming"} => pc[c] = pc'[c]
    BY <1>0, <1>2 DEF SelectGuard, SelectRest, BuildEnds, Steps
  <2> QED BY <1>0, <2>1, <2>2 DEF ListsInv, fileVars, Saving
<1>3. ASSUME NEW b \in Builders, AddGuard(b) \/ ConfirmGuard(b)
      PROVE  ListsInv'
  <2>1. IsList(list') /\ UNCHANGED fileVars
    BY <1>0, <1>3, AddedKeeps, TouchedKeeps DEF AddGuard, ConfirmGuard
  <2>2. /\ pc' \in [Builders -> Steps]
        /\ \A c \in Builders : pc'[c] \in {"writing", "renaming"} => pc[c] = pc'[c]
    BY <1>0, <1>3 DEF AddGuard, ConfirmGuard, Steps
  <2> QED BY <1>0, <2>1, <2>2 DEF ListsInv, fileVars, Saving
<1>4. ASSUME NEW b \in Builders, SaveOpen(b)
      PROVE  ListsInv'
  <2> DEFINE i == IF tmp = NoFile THEN Fresh ELSE tmp
  <2>1. i \in Contents
    BY <1>0, FreshIsFree
  <2>2. /\ tmp' = i /\ fd' = [fd EXCEPT ![b] = i]
        /\ content' = [content EXCEPT ![i] = << >>]
        /\ data' = [data EXCEPT ![b] = list]
        /\ pc' = [pc EXCEPT ![b] = "writing"]
        /\ UNCHANGED <<list, file>>
    BY <1>4 DEF SaveOpen
  <2> HIDE DEF i
  <2>3. data' = [c \in Builders |-> data'[c]] /\ \A c \in Builders : IsList(data'[c])
    BY <1>0, <2>2
  <2>4. content' = [j \in Contents |-> content'[j]] /\ \A j \in Contents : IsList(content'[j])
    BY <1>0, <2>1, <2>2, EmptyIsList
  <2>5. /\ pc' \in [Builders -> Steps] /\ fd' \in [Builders -> Contents \cup {NoFile}]
        /\ \A c \in Builders : pc'[c] \in {"writing", "renaming"} => fd'[c] \in Contents
    BY <1>0, <2>1, <2>2 DEF Steps, Saving
  <2> QED BY <1>0, <2>1, <2>2, <2>3, <2>4, <2>5 DEF ListsInv, Saving
<1>5. ASSUME NEW b \in Builders, SaveWrite(b)
      PROVE  ListsInv'
  <2>1. /\ content' = [content EXCEPT ![fd[b]] = data[b]]
        /\ pc' = [pc EXCEPT ![b] = "renaming"]
        /\ pc[b] = "writing"
        /\ UNCHANGED <<list, file, tmp, fd, data>>
    BY <1>5 DEF SaveWrite
  <2>2. content' = [j \in Contents |-> content'[j]] /\ \A j \in Contents : IsList(content'[j])
    BY <1>0, <2>1
  <2>3. /\ pc' \in [Builders -> Steps]
        /\ \A c \in Builders : pc'[c] \in {"writing", "renaming"} => fd[c] \in Contents
    BY <1>0, <2>1 DEF Steps, Saving
  <2> QED BY <1>0, <2>1, <2>2, <2>3 DEF ListsInv, Saving
<1>6. ASSUME NEW b \in Builders, SaveFails(b) \/ SaveRename(b)
      PROVE  ListsInv'
  <2>1. /\ AfterSave(b) /\ list' = list
        /\ \/ content' = content
           \/ content' = [j \in Contents |->
                            IF j = file /\ tmp # NoFile THEN << >> ELSE content[j]]
        /\ tmp' \in {tmp, NoFile} /\ file' \in {file, tmp}
    BY <1>6 DEF SaveFails, SaveRename
  <2>2. content' = [j \in Contents |-> content'[j]] /\ \A j \in Contents : IsList(content'[j])
    BY <1>0, <2>1, EmptyIsList
  <2>3. data' = [c \in Builders |-> data'[c]] /\ \A c \in Builders : IsList(data'[c])
    BY <1>0, <2>1, EmptyIsList DEF AfterSave
  <2>4. /\ pc' \in [Builders -> Steps] /\ fd' \in [Builders -> Contents \cup {NoFile}]
        /\ \A c \in Builders : pc'[c] \in {"writing", "renaming"} => fd'[c] \in Contents
    BY <1>0, <2>1 DEF AfterSave, Steps, Saving
  <2> QED BY <1>0, <2>1, <2>2, <2>3, <2>4 DEF ListsInv, Saving
<1>7. ASSUME NEW r \in Relays, RemoveGuard(r)
      PROVE  ListsInv'
  <2>1. IndexOf(list, r) \in SUBSET Nat
    BY <1>0 DEF IndexOf, IsList
  <2>2. First(IndexOf(list, r)) \in DOMAIN list
    BY <1>7, <2>1, FirstIsMember DEF RemoveGuard, IndexOf
  <2>3. IsList(list')
    BY <1>0, <1>7, <2>2, RemovedKeeps DEF RemoveGuard
  <2> QED BY <1>0, <1>7, <2>3 DEF RemoveGuard, ListsInv, Saving, fileVars, builderVars
<1>8. ASSUME CleanupExpired
      PROVE  ListsInv'
  <2>1. IsList(list')
    BY <1>0, <1>8, UnexpiredKeeps DEF CleanupExpired
  <2> QED BY <1>0, <1>8, <2>1 DEF CleanupExpired, ListsInv, Saving, fileVars, builderVars
<1>9. ASSUME Restart
      PROVE  ListsInv'
  <2>1. /\ IsList(list') /\ UNCHANGED <<content, tmp, file>>
        /\ pc' = [b \in Builders |-> "idle"]
        /\ data' = [b \in Builders |-> << >>]
        /\ fd' = [b \in Builders |-> NoFile]
    BY <1>0, <1>9, EmptyIsList DEF Restart
  <2>2. data' = [b \in Builders |-> data'[b]] /\ \A b \in Builders : IsList(data'[b])
    BY <2>1, EmptyIsList
  <2> QED BY <1>0, <2>1, <2>2 DEF ListsInv, Saving, Steps
<1>10. CASE \E fetched \in Fetches : UpdateConsensus(fetched)
  BY <1>1, <1>10 DEF UpdateConsensus, builderVars
<1>11. CASE Tick
  BY <1>1, <1>11 DEF Tick, builderVars
<1>12. CASE UNCHANGED vars
  BY <1>1, <1>12 DEF vars, builderVars
<1> QED BY <1>2, <1>3, <1>4, <1>5, <1>6, <1>7, <1>8, <1>9, <1>10, <1>11, <1>12 DEF Next

(* Memory, Saves and files hold lists of entries, and the names and        *)
(* writers hold contents, at every moment (guards.go:43-118).              *)
THEOREM ListsStayWellFormed == Spec => []ListsInv
<1>1. Init => ListsInv
  <2> SUFFICES ASSUME Init PROVE ListsInv
    OBVIOUS
  <2>1. /\ list = << >> /\ pc = [b \in Builders |-> "idle"]
        /\ data = [b \in Builders |-> << >>] /\ fd = [b \in Builders |-> NoFile]
        /\ tmp = NoFile /\ file = NoFile /\ content = [i \in Contents |-> << >>]
    BY DEF Init
  <2>2. /\ data = [b \in Builders |-> data[b]] /\ \A b \in Builders : IsList(data[b])
        /\ content = [i \in Contents |-> content[i]] /\ \A i \in Contents : IsList(content[i])
    BY <2>1, EmptyIsList
  <2> QED BY <2>1, <2>2, EmptyIsList DEF ListsInv, Saving, Steps
<1> QED BY <1>1, ListsStep, PTL DEF Spec

-----------------------------------------------------------------------------
(* While the process runs a confirmed guard leaves the list only by        *)
(* RemoveGuard or by expiry, for any list length and any interleaving of   *)
(* selections, confirmations and Saves (guards.go:139-205, path.go:163).   *)
THEOREM ConfirmedGuardsAreKept == Spec => ConfirmedGuardKept
<1> DEFINE Kept == \A r \in Confirmed(list) :
                     \/ r \in Confirmed(list')
                     \/ RemoveGuard(r) \/ CleanupExpired \/ Restart
<1>1. ASSUME ListsInv, [Next]_vars
      PROVE  Kept
  <2>0. IsList(list)
    BY <1>1 DEF ListsInv
  <2>1. ASSUME list' = list
        PROVE  Kept
    BY <2>1
  <2>2. ASSUME NEW b \in Builders, AddGuard(b) \/ ConfirmGuard(b)
        PROVE  Kept
    <3>1. Confirmed(list) \subseteq Confirmed(list')
      BY <2>0, <2>2, AddedKeeps, TouchedKeeps DEF AddGuard, ConfirmGuard
    <3> QED BY <3>1
  <2>3. ASSUME NEW r \in Relays, RemoveGuard(r)
        PROVE  Kept
    <3> DEFINE i == First(IndexOf(list, r))
    <3>1. i \in IndexOf(list, r)
      <4>1. IndexOf(list, r) \in SUBSET Nat /\ IndexOf(list, r) # {}
        BY <2>0, <2>3 DEF IndexOf, IsList, RemoveGuard
      <4> QED BY <4>1, FirstIsMember
    <3>2. i \in DOMAIN list /\ list[i].relay = r /\ list' = RemoveAt(list, i)
      BY <2>3, <3>1 DEF RemoveGuard, IndexOf
    <3> HIDE DEF i
    <3>3. \A x \in Confirmed(list) : x \in Confirmed(list') \/ x = r
      BY <2>0, <3>2, RemovedKeeps
    <3> QED BY <2>3, <3>3
  <2>4. CASE \E b \in Builders :
               \/ SelectGuard(b) \/ SelectRest(b) \/ SaveOpen(b) \/ SaveWrite(b)
               \/ SaveFails(b) \/ SaveRename(b)
               \/ \E built \in BOOLEAN : BuildEnds(b, built)
    BY <2>1, <2>4
       DEF SelectGuard, SelectRest, SaveOpen, SaveWrite, SaveFails, SaveRename, BuildEnds
  <2>5. CASE \E fetched \in Fetches : UpdateConsensus(fetched)
    BY <2>1, <2>5 DEF UpdateConsensus
  <2>6. CASE Tick
    BY <2>1, <2>6 DEF Tick
  <2>7. CASE UNCHANGED vars
    BY <2>1, <2>7 DEF vars
  <2>8. CASE CleanupExpired \/ Restart
    BY <2>8
  <2> QED BY <1>1, <2>2, <2>3, <2>4, <2>5, <2>6, <2>7, <2>8 DEF Next
<1> QED BY <1>1, ListsStayWellFormed, PTL DEF Spec, ConfirmedGuardKept

-----------------------------------------------------------------------------
(* The guards of the selector are relays of the same consensus.            *)
RelayPath ==
  /\ guards \subseteq relays
  /\ selecting \subseteq Builders
  /\ guard = [b \in Builders |-> guard[b]] /\ path = [b \in Builders |-> path[b]]

(* A builder inside a selection has a guard of the consensus in force,     *)
(* for which the selector's lock is the reason, and only such a builder    *)
(* goes on to choose the rest of its path.                                 *)
GuardsHeld ==
  /\ \A b \in selecting :
       /\ pc[b] \in {"adding", "saving", "writing", "renaming", "choosing"}
       /\ guard[b] \in RelaysOf(guards)
  /\ \A b \in Builders : pc[b] \in {"adding", "choosing"} => b \in selecting

PathInv == RelayPath /\ GuardsHeld

(* Every step keeps the selections consistent with the consensus.          *)
LEMMA PathStep ==
  ASSUME ListsInv, PathInv, [Next]_vars
  PROVE  PathInv'
<1>0. /\ guards \subseteq relays
      /\ selecting \subseteq Builders
      /\ guard = [b \in Builders |-> guard[b]] /\ path = [b \in Builders |-> path[b]]
      /\ \A b \in selecting :
           /\ pc[b] \in {"adding", "saving", "writing", "renaming", "choosing"}
           /\ guard[b] \in RelaysOf(guards)
      /\ \A b \in Builders : pc[b] \in {"adding", "choosing"} => b \in selecting
      /\ pc \in [Builders -> Steps]
  BY DEF PathInv, RelayPath, GuardsHeld, ListsInv
<1>1. ASSUME UNCHANGED <<selectorVars, builderVars>>
      PROVE  PathInv'
  BY <1>0, <1>1 DEF PathInv, RelayPath, GuardsHeld, selectorVars, builderVars, RelaysOf
<1>2. ASSUME NEW b \in Builders, SelectGuard(b)
      PROVE  PathInv'
  <2>1. PICK g \in RelaysOf(guards), s \in {"adding", "choosing"} :
          guard' = [guard EXCEPT ![b] = g] /\ pc' = [pc EXCEPT ![b] = s]
    <3> DEFINE kept == Unexpired(list)
               usable == {i \in DOMAIN kept : kept[i].relay \in RelaysOf(guards)}
    <3>1. CASE usable # {}
      <4>1. /\ guard' = [guard EXCEPT ![b] = kept[First(usable)].relay]
            /\ pc' = [pc EXCEPT ![b] = "choosing"]
        BY <1>2, <3>1 DEF SelectGuard
      <4>2. usable \in SUBSET Nat
        <5>1. IsList(kept)
          BY UnexpiredKeeps DEF ListsInv
        <5>2. DOMAIN kept \subseteq Nat
          <6> HIDE DEF kept
          <6> QED BY <5>1 DEF IsList
        <5> QED BY <5>2
      <4>3. First(usable) \in usable
        <5> HIDE DEF usable
        <5> QED BY <3>1, <4>2, FirstIsMember
      <4>4. kept[First(usable)].relay \in RelaysOf(guards)
        BY <4>3
      <4> QED BY <4>1, <4>4
    <3>2. CASE usable = {}
      BY <1>2, <3>2 DEF SelectGuard
    <3> QED BY <3>1, <3>2
  <2>2. selecting' = selecting \cup {b} /\ UNCHANGED <<selectorVars, path>>
    BY <1>2 DEF SelectGuard
  <2>3. RelayPath'
    BY <1>0, <2>1, <2>2 DEF RelayPath, selectorVars
  <2>4. GuardsHeld'
    BY <1>0, <2>1, <2>2 DEF GuardsHeld, selectorVars, RelaysOf
  <2> QED BY <2>3, <2>4 DEF PathInv
<1>3. ASSUME NEW b \in Builders, AddGuard(b) \/ SaveOpen(b) \/ SaveWrite(b)
      PROVE  PathInv'
  <2>1. \E s \in {"saving", "writing", "renaming"} : pc' = [pc EXCEPT ![b] = s]
    BY <1>3 DEF AddGuard, SaveOpen, SaveWrite
  <2>2. UNCHANGED <<selectorVars, selecting, guard, path>>
    BY <1>3 DEF AddGuard, SaveOpen, SaveWrite
  <2> QED BY <1>0, <2>1, <2>2 DEF PathInv, RelayPath, GuardsHeld, selectorVars, RelaysOf
<1>4. ASSUME NEW b \in Builders, SaveFails(b) \/ SaveRename(b)
      PROVE  PathInv'
  <2>1. /\ pc' = [pc EXCEPT ![b] = IF b \in selecting THEN "choosing" ELSE "idle"]
        /\ guard' = [guard EXCEPT ![b] = IF b \in selecting THEN @ ELSE NoRelay]
        /\ UNCHANGED <<selectorVars, selecting, path>>
    BY <1>4 DEF SaveFails, SaveRename, AfterSave
  <2> QED BY <1>0, <2>1 DEF PathInv, RelayPath, GuardsHeld, selectorVars, RelaysOf
<1>5. ASSUME NEW b \in Builders, SelectRest(b)
      PROVE  PathInv'
  <2>1. /\ selecting' = selecting \ {b} /\ UNCHANGED selectorVars
        /\ \E s \in {"building", "idle"} : pc' = [pc EXCEPT ![b] = s]
        /\ \E g : guard' = [guard EXCEPT ![b] = g]
        /\ \E p : path' = [path EXCEPT ![b] = p]
    <3>1. guard = [guard EXCEPT ![b] = guard[b]] /\ path = [path EXCEPT ![b] = path[b]]
      BY <1>0
    <3> QED BY <1>5, <3>1 DEF SelectRest
  <2> QED BY <1>0, <2>1 DEF PathInv, RelayPath, GuardsHeld, selectorVars, RelaysOf
<1>6. ASSUME NEW b \in Builders, ConfirmGuard(b) \/ \E built \in BOOLEAN : BuildEnds(b, built)
      PROVE  PathInv'
  <2>1. /\ \E s \in {"saving", "confirming", "idle"} : pc' = [pc EXCEPT ![b] = s]
        /\ \E g : guard' = [guard EXCEPT ![b] = g]
        /\ \E p : path' = [path EXCEPT ![b] = p]
        /\ UNCHANGED <<selectorVars, selecting>>
    <3>1. guard = [guard EXCEPT ![b] = guard[b]] /\ path = [path EXCEPT ![b] = path[b]]
      BY <1>0
    <3> QED BY <1>6, <3>1 DEF ConfirmGuard, BuildEnds
  <2>2. b \notin selecting
    BY <1>0, <1>6 DEF ConfirmGuard, BuildEnds
  <2> QED BY <1>0, <2>1, <2>2 DEF PathInv, RelayPath, GuardsHeld, selectorVars, RelaysOf
<1>7. ASSUME NEW fetched, UpdateConsensus(fetched)
      PROVE  PathInv'
  <2>1. guards' \subseteq relays' /\ selecting = {} /\ UNCHANGED builderVars
    BY <1>7 DEF UpdateConsensus, GuardsOf
  <2> QED BY <1>0, <2>1 DEF PathInv, RelayPath, GuardsHeld, builderVars
<1>8. ASSUME Restart
      PROVE  PathInv'
  <2>1. /\ guards' = {} /\ relays' = {} /\ selecting' = {}
        /\ pc' = [b \in Builders |-> "idle"]
        /\ guard' = [b \in Builders |-> NoRelay] /\ path' = [b \in Builders |-> << >>]
    BY <1>8 DEF Restart
  <2> QED BY <2>1 DEF PathInv, RelayPath, GuardsHeld
<1>9. CASE \E r \in Relays : RemoveGuard(r)
  BY <1>1, <1>9 DEF RemoveGuard
<1>10. CASE CleanupExpired \/ Tick
  BY <1>1, <1>10 DEF CleanupExpired, Tick
<1>11. CASE UNCHANGED vars
  BY <1>1, <1>11 DEF vars
<1> QED BY <1>2, <1>3, <1>4, <1>5, <1>6, <1>7, <1>8, <1>9, <1>10, <1>11 DEF Next

(* The guard of a selection under way is a guard of the consensus in       *)
(* force at every moment (path.go:111-148).                                *)
LEMMA PathsStayGuarded == Spec => []PathInv
<1>1. Init => PathInv
  BY DEF Init, PathInv, RelayPath, GuardsHeld
<1> QED BY <1>1, PathStep, ListsStayWellFormed, PTL DEF Spec

(* A path of three relays that differ has three relays.                    *)
LEMMA ThreeDiffer ==
  ASSUME NEW a, NEW b, NEW c, a # b, a # c, b # c
  PROVE  Cardinality({<<a, b, c>>[i] : i \in 1 .. 3}) = 3
<1>1. {<<a, b, c>>[i] : i \in 1 .. 3} = ({a} \cup {b}) \cup {c}
  <2>1. \A i : i \in 1 .. 3 <=> i = 1 \/ i = 2 \/ i = 3
    OBVIOUS
  <2> QED BY <2>1
<1>2. IsFiniteSet({a}) /\ Cardinality({a}) = 1
  BY FS_Singleton
<1>3. IsFiniteSet({a} \cup {b}) /\ Cardinality({a} \cup {b}) = 2
  BY <1>2, FS_AddElement
<1>4. Cardinality(({a} \cup {b}) \cup {c}) = 3
  <2>1. c \notin {a} \cup {b}
    OBVIOUS
  <2> QED BY <1>3, <2>1, FS_AddElement
<1> QED BY <1>1, <1>4

(* A completed path has three different relays of the consensus in force,  *)
(* and its guard is a guard of it, although the guard was picked some      *)
(* steps and a file write earlier (path.go:111-148).                       *)
THEOREM PathsAreOfOneConsensus == Spec => PathOfOneConsensus
<1> DEFINE OfOne(b) ==
             path'[b] # path[b] /\ path'[b] # << >> =>
               /\ path'[b][1] \in RelaysOf(guards)
               /\ {path'[b][2], path'[b][3]} \subseteq RelaysOf(relays)
               /\ Cardinality({path'[b][i] : i \in 1 .. 3}) = 3
<1>1. ASSUME PathInv, [Next]_vars, NEW b \in Builders
      PROVE  OfOne(b)
  <2>0. path = [c \in Builders |-> path[c]]
    BY <1>1 DEF PathInv, RelayPath
  <2>1. ASSUME UNCHANGED path
        PROVE  OfOne(b)
    BY <2>1
  <2>2. ASSUME NEW c \in Builders, SelectRest(c)
        PROVE  OfOne(b)
    <3>1. CASE UNCHANGED path
      BY <3>1, <2>1
    <3>2. ASSUME NEW x \in ExitsFor(guard[c]), NEW m \in MiddlesFor(guard[c], x),
                 path' = [path EXCEPT ![c] = <<guard[c], m, x>>]
          PROVE  OfOne(b)
      <4>1. CASE b # c
        BY <4>1, <3>2, <2>0
      <4>2. CASE b = c
        <5>1. path'[b] = <<guard[b], m, x>>
          BY <4>2, <3>2, <2>0
        <5>2. guard[b] \in RelaysOf(guards)
          BY <4>2, <2>2, <1>1 DEF PathInv, GuardsHeld, SelectRest
        <5>3. x \in RelaysOf(relays) /\ x # guard[b]
          BY <4>2 DEF ExitsFor, RelaysOf
        <5>4. m \in RelaysOf(relays) /\ m # guard[b] /\ m # x
          BY <4>2 DEF MiddlesFor
        <5>5. Cardinality({path'[b][i] : i \in 1 .. 3}) = 3
          BY <5>1, <5>3, <5>4, ThreeDiffer
        <5> QED BY <5>1, <5>2, <5>3, <5>4, <5>5
      <4> QED BY <4>1, <4>2
    <3> QED BY <2>2, <3>1, <3>2 DEF SelectRest
  <2>3. ASSUME NEW c \in Builders, NEW built, BuildEnds(c, built)
        PROVE  OfOne(b)
    BY <2>3, <2>0 DEF BuildEnds
  <2>4. CASE Restart
    BY <2>4 DEF Restart
  <2>5. CASE \E c \in Builders :
               \/ SelectGuard(c) \/ AddGuard(c) \/ ConfirmGuard(c) \/ SaveOpen(c)
               \/ SaveWrite(c) \/ SaveFails(c) \/ SaveRename(c)
    BY <2>1, <2>5
       DEF SelectGuard, AddGuard, ConfirmGuard, SaveOpen, SaveWrite, SaveFails, SaveRename
  <2>6. CASE \/ \E fetched \in Fetches : UpdateConsensus(fetched)
             \/ \E r \in Relays : RemoveGuard(r)
             \/ CleanupExpired \/ Tick \/ UNCHANGED vars
    BY <2>1, <2>6 DEF UpdateConsensus, RemoveGuard, CleanupExpired, Tick, vars, builderVars
  <2> QED BY <1>1, <2>2, <2>3, <2>4, <2>5, <2>6 DEF Next
<1>2. ASSUME PathInv, [Next]_vars
      PROVE  \A b \in Builders : OfOne(b)
  BY <1>1, <1>2
<1> QED BY <1>2, PathsStayGuarded, PTL DEF Spec, PathOfOneConsensus

-----------------------------------------------------------------------------
(* The state file and ".tmp" never name one content.                       *)
TwoNames == tmp # NoFile => tmp # file

(* A guard whose confirmation was saved is confirmed in memory too.        *)
AckedAreListed == acked \subseteq Confirmed(list)

(* Saves that run write the list in force: they share the lock that any    *)
(* change of the list needs to itself.                                     *)
SavesOfOneList == \A b \in Saving : data[b] = list

(* A writer whose Save no other has overlapped has ".tmp" to itself.       *)
AloneUnlessOverlapped ==
  /\ overlapped \in BOOLEAN
  /\ \A b, c \in Saving : b # c => overlapped
  /\ ~overlapped =>
       \A b \in Saving : tmp = fd[b] /\ (pc[b] = "writing" <=> tmp \in torn)

(* While a Save runs, ".tmp" is torn or holds the list in force: the       *)
(* first Save has truncated what an earlier process left there.            *)
WrittenIsCurrent ==
  Saving # {} /\ tmp # NoFile /\ tmp \notin torn => content[tmp] = list

(* The inductive invariant: what the state file promises depends on what   *)
(* the Saves under way will rename over it.                                *)
SavesInv ==
  /\ TwoNames /\ AckedAreListed /\ SavesOfOneList
  /\ AloneUnlessOverlapped /\ WrittenIsCurrent /\ SavedGuardSurvives

(* What the actions that leave list and files alone have in common.        *)
LEMMA OutsideSaves ==
  ASSUME SavesInv, UNCHANGED <<list, fileVars, acked>>,
         \A b \in Builders :
           pc'[b] # pc[b] => {pc[b], pc'[b]} \cap {"writing", "renaming"} = {}
  PROVE  SavesInv'
<1>1. Saving' = Saving /\ \A b \in Saving : pc'[b] = pc[b]
  BY DEF Saving
<1> QED BY <1>1
       DEF SavesInv, TwoNames, AckedAreListed, SavesOfOneList, AloneUnlessOverlapped,
           WrittenIsCurrent, SavedGuardSurvives, Confirmed, Unconfirmed, Saving, fileVars

(* What the actions that change the list have in common.                   *)
LEMMA BetweenSaves ==
  ASSUME SavesInv, Saving' = {}, UNCHANGED fileVars,
         acked' \subseteq acked, acked' \subseteq Confirmed(list)'
  PROVE  SavesInv'
BY DEF SavesInv, TwoNames, AckedAreListed, SavesOfOneList, AloneUnlessOverlapped,
       WrittenIsCurrent, SavedGuardSurvives, Confirmed, Unconfirmed, fileVars

(* A Save that opens ".tmp" truncates it, and never the state file.        *)
LEMMA SaveOpenStep ==
  ASSUME ListsInv, SavesInv, NEW b \in Builders, SaveOpen(b)
  PROVE  SavesInv'
<1> DEFINE i == IF tmp = NoFile THEN Fresh ELSE tmp
<1>1. i \in Contents /\ i # file /\ i # NoFile
  BY FreshIsFree, ContentsNumbered DEF ListsInv, SavesInv, TwoNames
<1>2. /\ tmp' = i /\ fd' = [fd EXCEPT ![b] = i]
      /\ content' = [content EXCEPT ![i] = << >>]
      /\ torn' = torn \cup {i}
      /\ data' = [data EXCEPT ![b] = list]
      /\ pc[b] = "saving" /\ pc' = [pc EXCEPT ![b] = "writing"]
      /\ overlapped' = (overlapped \/ Saving # {})
      /\ UNCHANGED <<list, file, acked>>
  BY DEF SaveOpen
<1> HIDE DEF i
<1>3. /\ pc \in [Builders -> Steps] /\ fd \in [Builders -> Contents \cup {NoFile}]
      /\ data = [c \in Builders |-> data[c]]
      /\ content = [j \in Contents |-> content[j]] /\ file \in Contents \cup {NoFile}
  BY DEF ListsInv
<1>4. /\ Saving' = Saving \cup {b} /\ b \notin Saving
      /\ \A c \in Saving : c \in Builders /\ pc'[c] = pc[c]
  BY <1>2, <1>3 DEF Saving
<1>5. TwoNames'
  BY <1>1, <1>2 DEF TwoNames
<1>6. AckedAreListed'
  BY <1>2 DEF SavesInv, AckedAreListed, Confirmed, Unconfirmed
<1>7. SavesOfOneList'
  <2>1. \A c \in Saving : data[c] = list
    BY DEF SavesInv, SavesOfOneList
  <2> QED BY <2>1, <1>2, <1>3, <1>4 DEF SavesOfOneList
<1>8. AloneUnlessOverlapped'
  <2>1. overlapped' \in BOOLEAN
    <3>1. CASE Saving # {}
      BY <3>1, <1>2
    <3>2. CASE Saving = {}
      BY <3>2, <1>2 DEF SavesInv, AloneUnlessOverlapped
    <3> QED BY <3>1, <3>2
  <2>2. Saving # {} => overlapped'
    BY <1>2
  <2>3. Saving = {} => tmp' = fd'[b] /\ pc'[b] = "writing" /\ tmp' \in torn'
    BY <1>2, <1>3
  <2> QED BY <2>1, <2>2, <2>3, <1>4 DEF AloneUnlessOverlapped
<1>9. WrittenIsCurrent'
  BY <1>2 DEF WrittenIsCurrent
<1>10. SavedGuardSurvives'
  <2>1. file \in torn' <=> file \in torn
    BY <1>1, <1>2
  <2>2. file # NoFile => content'[file] = content[file]
    BY <1>1, <1>2, <1>3
  <2> QED BY <2>1, <2>2, <1>2 DEF SavesInv, SavedGuardSurvives, Confirmed, Unconfirmed
<1> QED BY <1>5, <1>6, <1>7, <1>8, <1>9, <1>10 DEF SavesInv

(* A Save writes the list in force, also when another has meanwhile made   *)
(* its content the state file.                                             *)
LEMMA SaveWriteStep ==
  ASSUME ListsInv, SavesInv, NEW b \in Builders, SaveWrite(b)
  PROVE  SavesInv'
<1>1. /\ content' = [content EXCEPT ![fd[b]] = data[b]]
      /\ torn' = torn \ {fd[b]} \/ (fd[b] \notin torn /\ torn' = torn \cup {fd[b]})
      /\ pc[b] = "writing" /\ pc' = [pc EXCEPT ![b] = "renaming"]
      /\ UNCHANGED <<list, data, fd, tmp, file, overlapped, acked>>
  BY DEF SaveWrite
<1>2. /\ pc \in [Builders -> Steps]
      /\ content = [j \in Contents |-> content[j]]
      /\ tmp \in Contents \cup {NoFile} /\ file \in Contents \cup {NoFile}
      /\ \A c \in Saving : fd[c] \in Contents
  BY DEF ListsInv
<1>3. Saving' = Saving /\ b \in Saving /\ \A c \in Saving : c # b => pc'[c] = pc[c]
  BY <1>1, <1>2 DEF Saving
<1>4. data[b] = list /\ fd[b] \in Contents
  BY <1>2, <1>3 DEF SavesInv, SavesOfOneList
<1>5. TwoNames' /\ AckedAreListed' /\ SavesOfOneList'
  BY <1>1, <1>3
     DEF SavesInv, TwoNames, AckedAreListed, SavesOfOneList, Confirmed, Unconfirmed
<1>6. AloneUnlessOverlapped'
  <2>1. ASSUME ~overlapped
        PROVE  /\ \A c \in Saving : c = b
               /\ tmp = fd[b] /\ tmp \in torn
    BY <2>1, <1>1, <1>3 DEF SavesInv, AloneUnlessOverlapped
  <2>2. ~overlapped => tmp \notin torn' /\ pc'[b] = "renaming"
    BY <2>1, <1>1, <1>2
  <2> QED BY <2>1, <2>2, <1>1, <1>3 DEF SavesInv, AloneUnlessOverlapped
<1>7. WrittenIsCurrent'
  <2>1. CASE tmp = fd[b]
    BY <2>1, <1>1, <1>2, <1>4 DEF WrittenIsCurrent
  <2>2. CASE tmp # fd[b]
    <3>1. tmp # NoFile => content'[tmp] = content[tmp] /\ (tmp \in torn' <=> tmp \in torn)
      BY <2>2, <1>1, <1>2
    <3> QED BY <3>1, <1>1, <1>3 DEF SavesInv, WrittenIsCurrent
  <2> QED BY <2>1, <2>2
<1>8. SavedGuardSurvives'
  <2>1. CASE file = fd[b]
    <3>1. content'[file] = list /\ file # NoFile
      BY <2>1, <1>1, <1>2, <1>4, ContentsNumbered
    <3>2. overlapped
      BY <2>1, <3>1, <1>3 DEF SavesInv, AloneUnlessOverlapped, TwoNames
    <3> QED BY <3>1, <3>2, <1>1
            DEF SavesInv, AckedAreListed, SavedGuardSurvives, Confirmed, Unconfirmed
  <2>2. CASE file # fd[b]
    <3>1. file # NoFile => content'[file] = content[file]
      BY <2>2, <1>1, <1>2
    <3>2. file \in torn' <=> file \in torn
      BY <2>2, <1>1
    <3> QED BY <3>1, <3>2, <1>1 DEF SavesInv, SavedGuardSurvives, Confirmed, Unconfirmed
  <2> QED BY <2>1, <2>2
<1> QED BY <1>5, <1>6, <1>7, <1>8 DEF SavesInv

(* A Save that fails leaves what it has truncated under ".tmp".            *)
LEMMA SaveFailsStep ==
  ASSUME ListsInv, SavesInv, NEW b \in Builders, SaveFails(b)
  PROVE  SavesInv'
<1>1. /\ \E s \in {"choosing", "idle"} : pc' = [pc EXCEPT ![b] = s]
      /\ fd' = [fd EXCEPT ![b] = NoFile] /\ data' = [data EXCEPT ![b] = << >>]
      /\ UNCHANGED <<list, tmp, file, content, torn, overlapped, acked>>
  BY DEF SaveFails, AfterSave
<1>2. /\ pc \in [Builders -> Steps] /\ fd \in [Builders -> Contents \cup {NoFile}]
      /\ data = [c \in Builders |-> data[c]]
  BY DEF ListsInv
<1>3. /\ Saving' = Saving \ {b}
      /\ \A c \in Saving' : pc'[c] = pc[c] /\ fd'[c] = fd[c] /\ data'[c] = data[c]
  BY <1>1, <1>2 DEF Saving
<1> QED BY <1>1, <1>3
       DEF SavesInv, TwoNames, AckedAreListed, SavesOfOneList, AloneUnlessOverlapped,
           WrittenIsCurrent, SavedGuardSurvives, Confirmed, Unconfirmed

(* A rename puts a content with the list in force in place of the state    *)
(* file, unless Saves overlapped and it is torn.                           *)
LEMMA SaveRenameStep ==
  ASSUME ListsInv, SavesInv, NEW b \in Builders, SaveRename(b)
  PROVE  SavesInv'
<1>1. /\ \E s \in {"choosing", "idle"} : pc' = [pc EXCEPT ![b] = s]
      /\ fd' = [fd EXCEPT ![b] = NoFile] /\ data' = [data EXCEPT ![b] = << >>]
      /\ tmp' = NoFile /\ file' = IF tmp = NoFile THEN file ELSE tmp
      /\ acked' = IF tmp = NoFile THEN acked ELSE acked \cup Confirmed(data[b])
      /\ content' = [i \in Contents |-> IF i = file /\ tmp # NoFile THEN << >> ELSE content[i]]
      /\ torn' = IF tmp = NoFile THEN torn ELSE torn \ {file}
      /\ pc[b] = "renaming" /\ UNCHANGED <<list, overlapped>>
  BY DEF SaveRename, AfterSave
<1>2. /\ pc \in [Builders -> Steps] /\ fd \in [Builders -> Contents \cup {NoFile}]
      /\ data = [c \in Builders |-> data[c]]
      /\ content = [j \in Contents |-> content[j]]
      /\ tmp \in Contents \cup {NoFile} /\ file \in Contents \cup {NoFile}
  BY DEF ListsInv
<1>3. /\ Saving' = Saving \ {b} /\ b \in Saving
      /\ \A c \in Saving' : pc'[c] = pc[c] /\ fd'[c] = fd[c] /\ data'[c] = data[c]
  BY <1>1, <1>2 DEF Saving
<1>4. acked' \subseteq Confirmed(list)
  <2>1. data[b] = list /\ acked \subseteq Confirmed(list)
    BY <1>3 DEF SavesInv, SavesOfOneList, AckedAreListed
  <2> QED BY <2>1, <1>1
<1>5. AckedAreListed'
  <2>1. Confirmed(list') = Confirmed(list)
    BY <1>1
  <2> QED BY <1>4, <2>1 DEF AckedAreListed
<1>6. TwoNames' /\ SavesOfOneList' /\ WrittenIsCurrent'
  BY <1>1, <1>3 DEF SavesInv, TwoNames, SavesOfOneList, WrittenIsCurrent
<1>7. AloneUnlessOverlapped'
  BY <1>1, <1>3 DEF SavesInv, AloneUnlessOverlapped
<1>8. SavedGuardSurvives'
  <2>1. CASE tmp = NoFile
    <3>1. UNCHANGED <<file, acked, content, torn, overlapped>>
      BY <2>1, <1>1, <1>2
    <3> QED BY <3>1 DEF SavesInv, SavedGuardSurvives, Confirmed, Unconfirmed
  <2>2. CASE tmp # NoFile
    <3>1. /\ file' = tmp /\ tmp # file /\ content'[tmp] = content[tmp]
          /\ (tmp \in torn' <=> tmp \in torn)
      BY <2>2, <1>1, <1>2 DEF SavesInv, TwoNames
    <3>2. tmp \in torn => overlapped
      BY <1>1, <1>3 DEF SavesInv, AloneUnlessOverlapped
    <3>3. tmp \notin torn => content[tmp] = list
      BY <2>2, <1>3 DEF SavesInv, WrittenIsCurrent
    <3>4. file' \in torn' => overlapped'
      BY <3>1, <3>2, <1>1
    <3>5. file' \notin torn' => file' # NoFile /\ content'[file'] = list
      BY <2>2, <3>1, <3>3
    <3> QED BY <3>4, <3>5, <1>4 DEF SavedGuardSurvives, Confirmed, Unconfirmed
  <2> QED BY <2>1, <2>2
<1> QED BY <1>5, <1>6, <1>7, <1>8 DEF SavesInv

(* A stop at any point leaves the files as they are, and the start loads   *)
(* the state file.                                                         *)
LEMMA RestartStep ==
  ASSUME ListsInv, SavesInv, Restart
  PROVE  SavesInv'
<1>1. /\ list' = IF file = NoFile \/ file \in torn THEN << >> ELSE content[file]
      /\ pc' = [b \in Builders |-> "idle"]
      /\ acked' \subseteq acked /\ acked' \subseteq Confirmed(list')
      /\ UNCHANGED <<tmp, file, content, torn, overlapped>>
  BY DEF Restart
<1>2. Saving' = {}
  BY <1>1 DEF Saving
<1>3. SavedGuardSurvives'
  BY <1>1 DEF SavesInv, SavedGuardSurvives, Confirmed, Unconfirmed
<1> QED BY <1>1, <1>2, <1>3
       DEF SavesInv, TwoNames, AckedAreListed, SavesOfOneList, AloneUnlessOverlapped,
           WrittenIsCurrent, Confirmed, Unconfirmed

(* The actions that change the list run between Saves, and forget the      *)
(* guards they remove.                                                     *)
LEMMA ListChangeStep ==
  ASSUME ListsInv, SavesInv,
         \/ \E b \in Builders : AddGuard(b) \/ ConfirmGuard(b)
         \/ \E r \in Relays : RemoveGuard(r)
         \/ CleanupExpired
  PROVE  SavesInv'
<1>0. IsList(list) /\ acked \subseteq Confirmed(list) /\ pc \in [Builders -> Steps]
  BY DEF ListsInv, SavesInv, AckedAreListed
<1>1. ASSUME NEW b \in Builders, AddGuard(b) \/ ConfirmGuard(b)
      PROVE  SavesInv'
  <2>1. Saving = {} /\ UNCHANGED <<fileVars, acked>>
    BY <1>1 DEF AddGuard, ConfirmGuard, ListFree
  <2>2. \E s \in {"saving", "idle"} : pc' = [pc EXCEPT ![b] = s]
    BY <1>1 DEF AddGuard, ConfirmGuard
  <2>3. Saving' = {}
    BY <1>0, <2>1, <2>2 DEF Saving
  <2>4. Confirmed(list) \subseteq Confirmed(list')
    BY <1>0, <1>1, AddedKeeps, TouchedKeeps DEF AddGuard, ConfirmGuard
  <2>5. acked' \subseteq Confirmed(list)'
    BY <1>0, <2>1, <2>4 DEF Confirmed, Unconfirmed
  <2> QED BY <2>1, <2>3, <2>5, BetweenSaves
<1>2. ASSUME NEW r \in Relays, RemoveGuard(r)
      PROVE  SavesInv'
  <2> DEFINE i == First(IndexOf(list, r))
  <2>1. IndexOf(list, r) \in SUBSET Nat /\ IndexOf(list, r) # {}
    BY <1>0, <1>2 DEF IndexOf, IsList, RemoveGuard
  <2>2. i \in DOMAIN list /\ list[i].relay = r /\ list' = RemoveAt(list, i)
    BY <1>2, <2>1, FirstIsMember DEF RemoveGuard, IndexOf
  <2> HIDE DEF i
  <2>3. \A x \in Confirmed(list) : x \in Confirmed(list') \/ x = r
    BY <1>0, <2>2, RemovedKeeps
  <2>4. acked' \subseteq acked /\ acked' \subseteq Confirmed(list)'
    BY <1>0, <1>2, <2>3 DEF RemoveGuard, Confirmed, Unconfirmed
  <2>5. Saving' = {} /\ UNCHANGED fileVars
    BY <1>2 DEF RemoveGuard, ListFree, Saving, builderVars
  <2> QED BY <2>4, <2>5, BetweenSaves
<1>3. ASSUME CleanupExpired
      PROVE  SavesInv'
  <2>1. \A x \in Confirmed(list) :
          \/ x \in Confirmed(list')
          \/ \E j \in DOMAIN list : list[j].used # epoch /\ list[j].relay = x
    BY <1>0, <1>3, UnexpiredConfirmed DEF CleanupExpired
  <2>2. acked' = acked \ {list[i].relay : i \in {j \in DOMAIN list : list[j].used # epoch}}
    BY <1>3 DEF CleanupExpired
  <2>3. acked' \subseteq acked /\ acked' \subseteq Confirmed(list)'
    BY <1>0, <2>1, <2>2 DEF Confirmed, Unconfirmed
  <2>4. Saving' = {} /\ UNCHANGED fileVars
    BY <1>3 DEF CleanupExpired, ListFree, Saving, builderVars
  <2> QED BY <2>3, <2>4, BetweenSaves
<1> QED BY <1>1, <1>2, <1>3

(* Every step keeps the invariant.                                         *)
LEMMA SavesStep ==
  ASSUME ListsInv, SavesInv, [Next]_vars
  PROVE  SavesInv'
<1>0. pc \in [Builders -> Steps]
  BY DEF ListsInv
<1>1. ASSUME NEW b \in Builders,
             SelectGuard(b) \/ SelectRest(b) \/ \E built \in BOOLEAN : BuildEnds(b, built)
      PROVE  SavesInv'
  <2>1. /\ pc[b] \in {"idle", "choosing", "building"}
        /\ \E s \in {"choosing", "adding", "building", "idle", "confirming"} :
             pc' = [pc EXCEPT ![b] = s]
        /\ UNCHANGED <<list, fileVars, acked>>
    BY <1>1 DEF SelectGuard, SelectRest, BuildEnds
  <2>2. \A c \in Builders :
          pc'[c] # pc[c] => {pc[c], pc'[c]} \cap {"writing", "renaming"} = {}
    BY <1>0, <2>1
  <2> QED BY <2>1, <2>2, OutsideSaves
<1>2. CASE \/ \E fetched \in Fetches : UpdateConsensus(fetched)
           \/ Tick \/ UNCHANGED vars
  <2>1. UNCHANGED <<pc, list, fileVars, acked>>
    BY <1>2 DEF UpdateConsensus, Tick, vars, builderVars
  <2> QED BY <2>1, OutsideSaves
<1> QED BY <1>1, <1>2, ListChangeStep, SaveOpenStep, SaveWriteStep, SaveFailsStep,
           SaveRenameStep, RestartStep DEF Next

(* A guard whose confirmation a Save has stored is confirmed in the state  *)
(* file from then on, across crashes and overlapping Saves, unless it was  *)
(* removed or expired, and only overlapping Saves can leave a file that    *)
(* does not parse (guards.go:95-118).                                      *)
THEOREM SavedGuardsSurvive == Spec => []SavedGuardSurvives
<1>1. Init => SavesInv
  BY DEF Init, SavesInv, TwoNames, AckedAreListed, SavesOfOneList,
         AloneUnlessOverlapped, WrittenIsCurrent, SavedGuardSurvives, Saving
<1>2. SavesInv => SavedGuardSurvives
  BY DEF SavesInv
<1> QED BY <1>1, <1>2, SavesStep, ListsStayWellFormed, PTL DEF Spec

=============================================================================
