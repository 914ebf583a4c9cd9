---------------------------- MODULE OnionProofs ----------------------------
(***************************************************************************)
(* What TLAPS proves of onion services, for any number of publishers,      *)
(* HSDirs, introduction points and attempts: what the HSDirs hold is of    *)
(* the service's own points, the client gives up a fetch only after it has *)
(* asked everyone, and it has a connection only after the service came.    *)
(*                                                                         *)
(* The first part is about the text of a descriptor.  The shape that the   *)
(* encoder gives it is local to a line and the next, so it holds of what   *)
(* is written one after the other, and the parser relies on no more.       *)
(***************************************************************************)
EXTENDS OnionClient, SequenceTheorems, WellFoundedInduction, TLAPS

(* A set of natural numbers that is not empty has a least element: the     *)
(* induction over the lines of a text is by its first bad line.            *)
LEMMA FirstOf ==
  ASSUME NEW S \in SUBSET Nat, S # {}
  PROVE  \E m \in S : \A k \in S : m <= k
<1>1. PICK m \in S : \A k \in S : <<k, m>> \notin OpToRel(<, Nat)
  BY WFMin, NatLessThanWellFounded, Zenon
<1>2. \A k \in S : ~(k < m)
  BY <1>1, Zenon DEF OpToRel
<1>3. m \in Nat /\ \A k \in S : k \in Nat
  OBVIOUS
<1>4. \A k \in S : m <= k
  BY <1>2, <1>3
<1> QED BY <1>4

(* PointsText is the function its definition asks for: EncodeDescriptor    *)
(* writes the points one after the other (onion.go:943-987).               *)
LEMMA PointsTextIs ==
  ASSUME NEW pts, NEW n \in Nat, Len(pts) = n
  PROVE  \E f : /\ f = [i \in 0 .. n |->
                          IF i = 0 THEN << >> ELSE f[i - 1] \o PointLines(pts[i])]
                /\ PointsText(pts) = f[n]
<1> DEFINE Follows(f, m) ==
             f = [i \in 0 .. m |-> IF i = 0 THEN << >> ELSE f[i - 1] \o PointLines(pts[i])]
           Exists(m) == \E f : Follows(f, m)
           T == {m \in 0 .. n : ~Exists(m)}
<1>0. Exists(0)
  <2>1. Follows([i \in 0 .. 0 |-> << >>], 0)
    OBVIOUS
  <2> QED BY <2>1
<1>1. T = {}
  <2> SUFFICES ASSUME T # {} PROVE FALSE
    OBVIOUS
  <2> HIDE DEF Exists
  <2>1. PICK m \in T : \A k \in T : m <= k
    <3>1. T \in SUBSET Nat
      OBVIOUS
    <3> HIDE DEF T
    <3> QED BY <3>1, FirstOf
  <2>2. m # 0
    BY <1>0, <2>1
  <2>3. Exists(m)
    <3>1. m - 1 \in 0 .. n /\ m - 1 \notin T
      BY <2>1, <2>2
    <3>2. PICK f : Follows(f, m - 1)
      BY <3>1 DEF Exists
    <3> DEFINE g == [i \in 0 .. m |-> IF i = m THEN f[m - 1] \o PointLines(pts[m]) ELSE f[i]]
    <3>3. \A i \in 0 .. m : g[i] = IF i = 0 THEN << >> ELSE g[i - 1] \o PointLines(pts[i])
      <4> SUFFICES ASSUME NEW i \in 0 .. m
                   PROVE  g[i] = IF i = 0 THEN << >> ELSE g[i - 1] \o PointLines(pts[i])
        OBVIOUS
      <4>1. CASE i = m
        <5>1. m \in Nat
          BY <2>1
        <5>2. m - 1 \in 0 .. m /\ m - 1 # m /\ m \in 0 .. m
          BY <2>2, <5>1
        <5>3. g[m] = f[m - 1] \o PointLines(pts[m]) /\ g[m - 1] = f[m - 1]
          BY <5>2
        <5> HIDE DEF g
        <5> QED BY <4>1, <2>2, <5>3
      <4>2. CASE i # m
        <5>1. i \in 0 .. m - 1 /\ g[i] = f[i]
          BY <4>2, <2>1
        <5>2. i # 0 => g[i - 1] = f[i - 1]
          BY <4>2, <2>1
        <5> HIDE DEF g
        <5> QED BY <5>1, <5>2, <3>2
      <4> QED BY <4>1, <4>2
    <3>4. Follows(g, m)
      BY <3>3
    <3> QED BY <3>4 DEF Exists
  <2> QED BY <2>1, <2>3
<1>2. \E f : Follows(f, n)
  <2> HIDE DEF Exists
  <2>1. n \notin T /\ n \in 0 .. n
    BY <1>1
  <2>2. Exists(n)
    BY <2>1
  <2> QED BY <2>2 DEF Exists
<1> QED BY <1>2 DEF PointsText

(* The line after the one that ParseLine is given.                         *)
After(text, i) == IF i < Len(text) THEN text[i + 1] ELSE Line("end", NoKey)

(* Parsed is the function its definition asks for: ParseDescriptor goes    *)
(* line by line and closes the last point at the end (onion.go:534-691).   *)
LEMMA ParsedIs ==
  ASSUME NEW text, NEW n \in Nat, Len(text) = n
  PROVE  \E f : /\ f = [i \in 0 .. n |->
                       IF i = 0 THEN StartParse ELSE ParseLine(f[i - 1], text[i], After(text, i))]
                /\ Parsed(text).points = ClosePoint(f[n]).points
<1> DEFINE Reads(f, m) ==
             f = [i \in 0 .. m |->
                    IF i = 0 THEN StartParse ELSE ParseLine(f[i - 1], text[i], After(text, i))]
           Exists(m) == \E f : Reads(f, m)
           T == {m \in 0 .. n : ~Exists(m)}
<1>0. Exists(0)
  <2>1. Reads([i \in 0 .. 0 |-> StartParse], 0)
    OBVIOUS
  <2> QED BY <2>1
<1>1. T = {}
  <2> SUFFICES ASSUME T # {} PROVE FALSE
    OBVIOUS
  <2> HIDE DEF Exists
  <2>1. PICK m \in T : \A k \in T : m <= k
    <3>1. T \in SUBSET Nat
      OBVIOUS
    <3> HIDE DEF T
    <3> QED BY <3>1, FirstOf
  <2>2. m # 0
    BY <1>0, <2>1
  <2>3. Exists(m)
    <3>1. m - 1 \in 0 .. n /\ m - 1 \notin T
      BY <2>1, <2>2
    <3>2. PICK f : Reads(f, m - 1)
      BY <3>1 DEF Exists
    <3> DEFINE g == [i \in 0 .. m |->
                       IF i = m THEN ParseLine(f[m - 1], text[m], After(text, m)) ELSE f[i]]
    <3>3. \A i \in 0 .. m :
            g[i] = IF i = 0 THEN StartParse ELSE ParseLine(g[i - 1], text[i], After(text, i))
      <4> SUFFICES ASSUME NEW i \in 0 .. m
                   PROVE  g[i] = IF i = 0 THEN StartParse
                                 ELSE ParseLine(g[i - 1], text[i], After(text, i))
        OBVIOUS
      <4>1. CASE i = m
        <5>1. m \in Nat
          BY <2>1
        <5>2. m - 1 \in 0 .. m /\ m - 1 # m /\ m \in 0 .. m
          BY <2>2, <5>1
        <5>3. g[m] = ParseLine(f[m - 1], text[m], After(text, m)) /\ g[m - 1] = f[m - 1]
          BY <5>2
        <5> HIDE DEF g
        <5> QED BY <4>1, <2>2, <5>3
      <4>2. CASE i # m
        <5>1. i \in 0 .. m - 1 /\ g[i] = f[i]
          BY <4>2, <2>1
        <5>2. i # 0 => g[i - 1] = f[i - 1]
          BY <4>2, <2>1
        <5> HIDE DEF g
        <5> QED BY <5>1, <5>2, <3>2
      <4> QED BY <4>1, <4>2
    <3>4. Reads(g, m)
      BY <3>3
    <3> QED BY <3>4 DEF Exists
  <2> QED BY <2>1, <2>3
<1>2. \E f : Reads(f, n)
  <2> HIDE DEF Exists
  <2>1. n \notin T /\ n \in 0 .. n
    BY <1>1
  <2>2. Exists(n)
    BY <2>1
  <2> QED BY <2>2 DEF Exists
<1> QED BY <1>2 DEF Parsed, After
(* A is the set of authentication keys of the service's own points. The    *)
(* lines and the points that a descriptor of theirs has.                   *)
Keys(A) == {NoKey, ZeroKey} \cup A
Keywords == {"hs-descriptor", "revision-counter", "introduction-point", "onion-key",
             "auth-key", "base64", "enc-key", "signature"}
Lines(A) == [keyword : Keywords, arg : Keys(A) \cup Nat]
Described(A) == {Point(ZeroKey, a, a) : a \in A}

(* What the parser relies on and EncodeDescriptor provides: after          *)
(* introduction-point come the onion key, the auth-key and, on a line of   *)
(* its own, the key itself, one of A (onion.go:943-987).                   *)
InOrder(t, A) ==
  /\ t \in Seq(Lines(A))
  /\ \A i \in 1 .. Len(t) :
       /\ t[i].keyword \in {"introduction-point", "onion-key", "auth-key"} => i < Len(t)
       /\ t[i].keyword = "introduction-point" => t[i + 1].keyword = "onion-key"
       /\ t[i].keyword = "onion-key" => t[i + 1].keyword = "auth-key"
       /\ t[i].keyword = "auth-key" => t[i + 1].keyword = "base64" /\ t[i + 1].arg \in A

(* Texts in order stay so when one is written after the other.             *)
LEMMA InOrderConcat ==
  ASSUME NEW A, NEW s, NEW t, InOrder(s, A), InOrder(t, A)
  PROVE  InOrder(s \o t, A)
<1> DEFINE u == s \o t
<1>1. /\ u \in Seq(Lines(A)) /\ Len(u) = Len(s) + Len(t)
      /\ Len(s) \in Nat /\ Len(t) \in Nat
  <2> HIDE DEF u
  <2>1. s \in Seq(Lines(A)) /\ t \in Seq(Lines(A)) /\ u = s \o t
    BY DEF InOrder, u
  <2> QED BY <2>1
<1>2. \A i \in 1 .. Len(s) : u[i] = s[i]
  BY DEF InOrder
<1>3. \A i \in 1 .. Len(t) : u[Len(s) + i] = t[i]
  BY DEF InOrder
<1> HIDE DEF u
<1>4. ASSUME NEW i \in 1 .. Len(u)
      PROVE  /\ u[i].keyword \in {"introduction-point", "onion-key", "auth-key"} => i < Len(u)
             /\ u[i].keyword = "introduction-point" => u[i + 1].keyword = "onion-key"
             /\ u[i].keyword = "onion-key" => u[i + 1].keyword = "auth-key"
             /\ u[i].keyword = "auth-key" => u[i + 1].keyword = "base64" /\ u[i + 1].arg \in A
  <2>1. CASE i < Len(s)
    <3>1. i \in 1 .. Len(s) /\ i + 1 \in 1 .. Len(s)
      BY <2>1, <1>1
    <3>2. u[i] = s[i] /\ u[i + 1] = s[i + 1] /\ i < Len(u)
      BY <3>1, <1>1, <1>2
    <3> QED BY <3>1, <3>2 DEF InOrder
  <2>2. CASE i = Len(s)
    <3>1. i \in 1 .. Len(s) /\ ~(i < Len(s)) /\ u[i] = s[i]
      BY <2>2, <1>1, <1>2
    <3> QED BY <3>1 DEF InOrder
  <2>3. CASE i > Len(s)
    <3> DEFINE j == i - Len(s)
    <3>1. j \in 1 .. Len(t) /\ i = Len(s) + j /\ (j < Len(t) <=> i < Len(u))
      BY <2>3, <1>1
    <3> HIDE DEF j
    <3>2. u[i] = t[j] /\ (j < Len(t) => u[i + 1] = t[j + 1])
      <4>1. j < Len(t) => j + 1 \in 1 .. Len(t) /\ i + 1 = Len(s) + (j + 1)
        BY <3>1, <1>1
      <4> QED BY <4>1, <3>1, <1>3
    <3>3. t[j].keyword \in {"introduction-point", "onion-key", "auth-key"} => j < Len(t)
      BY <3>1 DEF InOrder
    <3> QED BY <3>1, <3>2, <3>3 DEF InOrder
  <2> QED BY <1>1, <2>1, <2>2, <2>3
<1> QED BY <1>1, <1>4 DEF InOrder, u

(* What the concatenation of two sequences has where.                      *)
LEMMA Joined ==
  ASSUME NEW S, NEW s \in Seq(S), NEW t \in Seq(S)
  PROVE  /\ s \o t \in Seq(S) /\ Len(s \o t) = Len(s) + Len(t)
         /\ \A i \in 1 .. Len(s) : (s \o t)[i] = s[i]
         /\ \A i \in 1 .. Len(t) : (s \o t)[Len(s) + i] = t[i]
OBVIOUS

(* The same for four sequences.                                            *)
LEMMA FourParts ==
  \A S : \A s, u, v, w \in Seq(S) : \A t :
    t = s \o u \o v \o w =>
      /\ t \in Seq(S) /\ Len(t) = Len(s) + Len(u) + Len(v) + Len(w)
      /\ \A i \in 1 .. Len(s) : t[i] = s[i]
      /\ \A i \in 1 .. Len(u) : t[Len(s) + i] = u[i]
      /\ \A i \in 1 .. Len(v) : t[Len(s) + Len(u) + i] = v[i]
      /\ \A i \in 1 .. Len(w) : t[Len(s) + Len(u) + Len(v) + i] = w[i]
<1> TAKE S
<1> TAKE s, u, v, w \in Seq(S)
<1> TAKE z
<1> DEFINE x == s \o u
           y == x \o v
           t == y \o w
<1>1. /\ x \in Seq(S) /\ Len(x) = Len(s) + Len(u)
      /\ \A i \in 1 .. Len(s) : x[i] = s[i]
      /\ \A i \in 1 .. Len(u) : x[Len(s) + i] = u[i]
  BY Joined
<1> HIDE DEF x
<1>2. /\ y \in Seq(S) /\ Len(y) = Len(x) + Len(v)
      /\ \A i \in 1 .. Len(x) : y[i] = x[i]
      /\ \A i \in 1 .. Len(v) : y[Len(x) + i] = v[i]
  <2>1. x \in Seq(S)
    BY <1>1
  <2> QED BY <2>1, Joined
<1> HIDE DEF y
<1>3. /\ t \in Seq(S) /\ Len(t) = Len(y) + Len(w)
      /\ \A i \in 1 .. Len(y) : t[i] = y[i]
      /\ \A i \in 1 .. Len(w) : t[Len(y) + i] = w[i]
  <2>1. y \in Seq(S)
    BY <1>2
  <2> QED BY <2>1, Joined
<1>4. t = s \o u \o v \o w
  BY DEF x, y
<1> HIDE DEF t
<1>5. \A i \in 1 .. Len(s) : t[i] = s[i]
  BY <1>1, <1>2, <1>3
<1>6. \A i \in 1 .. Len(u) : t[Len(s) + i] = u[i]
  <2> SUFFICES ASSUME NEW i \in 1 .. Len(u) PROVE t[Len(s) + i] = u[i]
    OBVIOUS
  <2>1. Len(s) + i \in 1 .. Len(x) /\ Len(s) + i \in 1 .. Len(y)
    <3>1. /\ Len(s) \in Nat /\ Len(u) \in Nat /\ Len(v) \in Nat
          /\ Len(x) = Len(s) + Len(u) /\ Len(y) = Len(x) + Len(v)
      BY <1>1, <1>2
    <3> QED BY ONLY <3>1, i \in 1 .. Len(u)
  <2>2. t[Len(s) + i] = y[Len(s) + i]
    BY <1>3, <2>1
  <2>3. y[Len(s) + i] = x[Len(s) + i]
    BY <1>2, <2>1
  <2>4. x[Len(s) + i] = u[i]
    BY <1>1
  <2> QED BY <2>2, <2>3, <2>4
<1>7. \A i \in 1 .. Len(v) : t[Len(s) + Len(u) + i] = v[i]
  <2> SUFFICES ASSUME NEW i \in 1 .. Len(v) PROVE t[Len(s) + Len(u) + i] = v[i]
    OBVIOUS
  <2>1. Len(s) + Len(u) + i = Len(x) + i /\ Len(x) + i \in 1 .. Len(y)
    <3>1. /\ Len(s) \in Nat /\ Len(u) \in Nat /\ Len(v) \in Nat
          /\ Len(x) = Len(s) + Len(u) /\ Len(y) = Len(x) + Len(v)
      BY <1>1, <1>2
    <3> QED BY ONLY <3>1, i \in 1 .. Len(v)
  <2>2. t[Len(x) + i] = y[Len(x) + i]
    BY <1>3, <2>1
  <2>3. y[Len(x) + i] = v[i]
    BY <1>2
  <2> QED BY <2>1, <2>2, <2>3
<1>8. Len(t) = Len(s) + Len(u) + Len(v) + Len(w)
  BY <1>1, <1>2, <1>3
<1>9. \A i \in 1 .. Len(w) : t[Len(s) + Len(u) + Len(v) + i] = w[i]
  BY <1>1, <1>2, <1>3
<1> QED BY <1>3, <1>4, <1>5, <1>6, <1>7, <1>8, <1>9, <1>4

(* The same for the five lines of an introduction point.                   *)
LEMMA FiveLines ==
  ASSUME NEW S, NEW a \in S, NEW b \in S, NEW c \in S, NEW d \in S, NEW e \in S
  PROVE  LET t == << a >> \o << b >> \o << c, d >> \o << e >>
         IN  /\ t \in Seq(S) /\ Len(t) = 5
             /\ t[1] = a /\ t[2] = b /\ t[3] = c /\ t[4] = d /\ t[5] = e
<1> DEFINE s == << a >>
           u == << b >>
           v == << c, d >>
           w == << e >>
           t == s \o u \o v \o w
<1>1. s \in Seq(S) /\ u \in Seq(S) /\ v \in Seq(S) /\ w \in Seq(S)
  OBVIOUS
<1>2. Len(s) = 1 /\ s[1] = a /\ Len(u) = 1 /\ u[1] = b /\ Len(v) = 2 /\ v[1] = c /\ v[2] = d
      /\ Len(w) = 1 /\ w[1] = e
  OBVIOUS
<1> HIDE DEF s, u, v, w
<1>3. /\ t \in Seq(S) /\ Len(t) = Len(s) + Len(u) + Len(v) + Len(w)
      /\ \A i \in 1 .. Len(s) : t[i] = s[i]
      /\ \A i \in 1 .. Len(u) : t[Len(s) + i] = u[i]
      /\ \A i \in 1 .. Len(v) : t[Len(s) + Len(u) + i] = v[i]
      /\ \A i \in 1 .. Len(w) : t[Len(s) + Len(u) + Len(v) + i] = w[i]
  <2>1. t = s \o u \o v \o w
    OBVIOUS
  <2> HIDE DEF t
  <2> QED BY <1>1, <2>1, FourParts
<1> HIDE DEF t
<1>4. t[1] = s[1] /\ t[1 + 1] = u[1] /\ t[1 + 1 + 1] = v[1] /\ t[1 + 1 + 2] = v[2]
      /\ t[1 + 1 + 2 + 1] = w[1] /\ Len(t) = 5
  <2>1. /\ 1 \in 1 .. Len(s) /\ 1 \in 1 .. Len(u)
        /\ 1 \in 1 .. Len(v) /\ 2 \in 1 .. Len(v) /\ 1 \in 1 .. Len(w)
    BY <1>2
  <2>2. t[1] = s[1]
    BY <2>1, <1>3
  <2>3. t[Len(s) + 1] = u[1]
    BY <2>1, <1>3
  <2>4. t[Len(s) + Len(u) + 1] = v[1] /\ t[Len(s) + Len(u) + 2] = v[2]
    BY <2>1, <1>3
  <2>5. t[Len(s) + Len(u) + Len(v) + 1] = w[1]
    BY <2>1, <1>3
  <2> QED BY <1>2, <1>3, <2>2, <2>3, <2>4, <2>5
<1> QED BY <1>2, <1>3, <1>4 DEF t, s, u, v, w

(* A line that the encoder writes is one of Lines.                         *)
LEMMA LineIn ==
  ASSUME NEW A, NEW w \in Keywords, NEW arg \in Keys(A) \cup Nat
  PROVE  Line(w, arg) \in Lines(A)
BY DEF Line, Lines

(* What EncodeDescriptor writes of one point is in order: the service      *)
(* gives each point a zero onion key and keys that are not empty           *)
(* (service.go:352-369).                                                   *)
LEMMA PointInOrder ==
  ASSUME NEW A, NEW p \in Described(A), NoKey \notin A
  PROVE  InOrder(PointLines(p), A)
<1>1. PICK a \in A : p = Point(ZeroKey, a, a)
  BY DEF Described
<1>2. p.onion = ZeroKey /\ p.auth = a /\ p.enc = a /\ a # NoKey
  BY <1>1 DEF Point
<1> DEFINE L1 == Line("introduction-point", NoKey)
           L2 == Line("onion-key", ZeroKey)
           L3 == Line("auth-key", NoKey)
           L4 == Line("base64", a)
           L5 == Line("enc-key", a)
           t  == PointLines(p)
<1>3. t = << L1 >> \o << L2 >> \o << L3, L4 >> \o << L5 >>
  <2>1. ZeroKey # NoKey
    BY DEF ZeroKey, NoKey
  <2>2. /\ (IF p.onion = NoKey THEN << >> ELSE << Line("onion-key", p.onion) >>) = << L2 >>
        /\ (IF p.auth = NoKey THEN << >>
            ELSE << Line("auth-key", NoKey), Line("base64", p.auth) >>) = << L3, L4 >>
        /\ (IF p.enc = NoKey THEN << >> ELSE << Line("enc-key", p.enc) >>) = << L5 >>
    BY <1>2, <2>1
  <2> HIDE DEF L2, L3, L4, L5
  <2>3. PointLines(p) =
          << Line("introduction-point", NoKey) >>
            \o (IF p.onion = NoKey THEN << >> ELSE << Line("onion-key", p.onion) >>)
            \o (IF p.auth = NoKey THEN << >>
                ELSE << Line("auth-key", NoKey), Line("base64", p.auth) >>)
            \o (IF p.enc = NoKey THEN << >> ELSE << Line("enc-key", p.enc) >>)
    BY Zenon DEF PointLines
  <2> QED BY <2>2, <2>3, Zenon
<1>4. /\ L1 \in Lines(A) /\ L2 \in Lines(A) /\ L3 \in Lines(A)
      /\ L4 \in Lines(A) /\ L5 \in Lines(A)
  <2>1. NoKey \in Keys(A) /\ ZeroKey \in Keys(A) /\ a \in Keys(A)
    BY DEF Keys
  <2> QED BY <2>1, LineIn DEF Keywords
<1>5. /\ L1.keyword = "introduction-point"
      /\ L2.keyword = "onion-key"
      /\ L3.keyword = "auth-key"
      /\ L4.keyword = "base64" /\ L4.arg = a
      /\ L5.keyword = "enc-key"
  BY DEF Line
<1> HIDE DEF L1, L2, L3, L4, L5, t
<1>6. /\ t \in Seq(Lines(A)) /\ Len(t) = 5
      /\ t[1] = L1 /\ t[2] = L2 /\ t[3] = L3 /\ t[4] = L4 /\ t[5] = L5
  BY <1>3, <1>4, FiveLines
<1>7. InOrder(t, A)
  <2> SUFFICES ASSUME NEW i \in 1 .. 5
      PROVE  /\ t[i].keyword \in {"introduction-point", "onion-key", "auth-key"} => i < 5
             /\ t[i].keyword = "introduction-point" => t[i + 1].keyword = "onion-key"
             /\ t[i].keyword = "onion-key" => t[i + 1].keyword = "auth-key"
             /\ t[i].keyword = "auth-key" => t[i + 1].keyword = "base64" /\ t[i + 1].arg \in A
    BY <1>6 DEF InOrder
  <2>1. i = 1 \/ i = 2 \/ i = 3 \/ i = 4 \/ i = 5
    OBVIOUS
  <2> QED BY <1>5, <1>6, <2>1
<1> QED BY <1>7 DEF t

(* So is what it writes of all of them.                                    *)
LEMMA PointsInOrder ==
  ASSUME NEW A, NoKey \notin A, NEW pts \in Seq(Described(A))
  PROVE  InOrder(PointsText(pts), A)
<1> DEFINE n == Len(pts)
<1>0. n \in Nat /\ \A i \in 1 .. n : pts[i] \in Described(A)
  OBVIOUS
<1>1. PICK f : /\ f = [i \in 0 .. n |-> IF i = 0 THEN << >> ELSE f[i - 1] \o PointLines(pts[i])]
               /\ PointsText(pts) = f[n]
  BY <1>0, PointsTextIs
<1> HIDE DEF n
<1>start. f[0] = << >>
  <2>1. 0 \in 0 .. n
    BY <1>0
  <2> QED BY <1>1, <2>1
<1> DEFINE Bad == {i \in 0 .. n : ~InOrder(f[i], A)}
<1>2. Bad = {}
  <2> SUFFICES ASSUME Bad # {} PROVE FALSE
    OBVIOUS
  <2>1. PICK m \in Bad : \A k \in Bad : m <= k
    <3>1. Bad \in SUBSET Nat
      OBVIOUS
    <3> HIDE DEF Bad
    <3> QED BY <3>1, FirstOf
  <2>2. m \in 0 .. n /\ m \in Nat
    BY <2>1
  <2>3. CASE m = 0
    <3>1. f[m] = << >>
      BY <1>start, <2>3
    <3>2. InOrder(<< >>, A)
      BY DEF InOrder
    <3>3. ~InOrder(f[m], A)
      BY <2>1
    <3> QED BY <3>1, <3>2, <3>3
  <2>4. CASE m # 0
    <3>1. m - 1 \in 0 .. n /\ m - 1 \notin Bad /\ m \in 1 .. n
      BY <1>0, <2>1, <2>2, <2>4
    <3>2. f[m] = f[m - 1] \o PointLines(pts[m])
      BY <1>1, <2>2, <2>4
    <3>3. InOrder(f[m - 1], A)
      BY <3>1
    <3>4. InOrder(PointLines(pts[m]), A)
      BY <1>0, <3>1, PointInOrder
    <3>5. InOrder(f[m], A)
      BY <3>2, <3>3, <3>4, InOrderConcat
    <3> QED BY <2>1, <3>5
  <2> QED BY <2>3, <2>4
<1> QED BY <1>0, <1>1, <1>2

(* And so is the whole text, from the version to the signature             *)
(* (onion.go:912-1000).                                                    *)
LEMMA TextInOrder ==
  ASSUME NEW A, NoKey \notin A, NEW d, d.points \in Seq(Described(A)), d.rev \in Nat
  PROVE  InOrder(Encoded(d, TRUE), A)
<1> DEFINE L1 == Line("hs-descriptor", 3)
           L2 == Line("revision-counter", d.rev)
           L3 == Line("signature", NoKey)
           start == << L1, L2 >>
           end   == << L3 >>
<1>1. Encoded(d, TRUE) = (start \o PointsText(d.points)) \o end
  BY Zenon DEF Encoded
<1>2. L1 \in Lines(A) /\ L2 \in Lines(A) /\ L3 \in Lines(A)
  <2>1. 3 \in Keys(A) \cup Nat /\ d.rev \in Keys(A) \cup Nat /\ NoKey \in Keys(A) \cup Nat
    BY DEF Keys
  <2> QED BY <2>1, LineIn DEF Keywords
<1>3. /\ L1.keyword = "hs-descriptor" /\ L2.keyword = "revision-counter"
      /\ L3.keyword = "signature"
  BY DEF Line
<1> HIDE DEF L1, L2, L3
<1>4. InOrder(start, A)
  <2>1. start \in Seq(Lines(A)) /\ Len(start) = 2 /\ start[1] = L1 /\ start[2] = L2
    BY <1>2
  <2> HIDE DEF start
  <2> QED BY <1>3, <2>1 DEF InOrder
<1>5. InOrder(end, A)
  <2>1. end \in Seq(Lines(A)) /\ Len(end) = 1 /\ end[1] = L3
    BY <1>2
  <2> HIDE DEF end
  <2> QED BY <1>3, <2>1 DEF InOrder
<1> HIDE DEF start, end
<1>6. InOrder(PointsText(d.points), A)
  BY PointsInOrder
<1>7. InOrder(start \o PointsText(d.points), A)
  BY <1>4, <1>6, InOrderConcat
<1> QED BY <1>1, <1>5, <1>7, InOrderConcat

(* What the parser makes of such lines: its points, and those whose        *)
(* authentication key is the service's.                                    *)
Args(A) == Keys(A) \cup Nat
Points(A) == [onion : Args(A), auth : Args(A), enc : Args(A)]
Listed(A) == {p \in Points(A) : p.auth \in A}

(* The state of the parser after a line with this keyword: every point it  *)
(* has closed is the service's, and the one that is open has its           *)
(* authentication key once the two lines that open it are read. A point    *)
(* that was closed without one, or with that of another point, would break *)
(* it.                                                                     *)
Reading(s, keyword, A) ==
  /\ s \in [rev : Args(A), points : Seq(Listed(A)), current : Points(A), inBlock : BOOLEAN]
  /\ s.inBlock /\ keyword \notin {"introduction-point", "onion-key"} => s.current.auth \in A

(* One line keeps it, whatever it is (onion.go:534-682).                   *)
LEMMA LineReads ==
  ASSUME NEW A, NEW s, NEW before, Reading(s, before, A),
         NEW line \in Lines(A), NEW next, next.arg \in Args(A),
         before = "introduction-point" => line.keyword = "onion-key",
         before = "onion-key" => line.keyword = "auth-key",
         line.keyword = "auth-key" => next.keyword = "base64" /\ next.arg \in A
  PROVE  Reading(ParseLine(s, line, next), line.keyword, A)
<1> DEFINE r == ParseLine(s, line, next)
<1>1. /\ s.rev \in Args(A) /\ s.points \in Seq(Listed(A)) /\ s.inBlock \in BOOLEAN
      /\ s.current.onion \in Args(A) /\ s.current.auth \in Args(A) /\ s.current.enc \in Args(A)
      /\ s = [rev |-> s.rev, points |-> s.points, current |-> s.current, inBlock |-> s.inBlock]
      /\ s.current = [onion |-> s.current.onion, auth |-> s.current.auth, enc |-> s.current.enc]
  BY DEF Reading, Points
<1>2. line.arg \in Args(A) /\ NoPoint \in Points(A)
  BY DEF Lines, Args, Keys, NoPoint, Point, Points
<1>3. CASE line.keyword = "revision-counter"
  <2>1. r = [rev |-> line.arg, points |-> s.points, inBlock |-> s.inBlock,
             current |-> s.current]
    BY <1>1, <1>3 DEF ParseLine
  <2> QED BY <1>1, <1>2, <1>3, <2>1 DEF Reading, Points
<1>4. CASE line.keyword = "introduction-point"
  <2>1. r = [rev |-> s.rev, points |-> s.points, current |-> NoPoint, inBlock |-> TRUE]
    BY <1>1, <1>4 DEF ParseLine
  <2> QED BY <1>1, <1>2, <1>4, <2>1 DEF Reading
<1>5. CASE line.keyword = "onion-key"
  <2>1. \/ r = s
        \/ r = [rev |-> s.rev, points |-> s.points, inBlock |-> s.inBlock,
                current |-> [s.current EXCEPT !.onion = next.arg]]
    BY <1>1, <1>5 DEF ParseLine
  <2> QED BY <1>1, <1>2, <1>5, <2>1 DEF Reading, Points
<1>6. CASE line.keyword = "auth-key"
  <2>1. IF s.inBlock
          THEN r = [rev |-> s.rev, points |-> s.points, inBlock |-> s.inBlock,
                    current |-> [s.current EXCEPT !.auth = next.arg]]
          ELSE r = s
    BY <1>1, <1>6 DEF ParseLine
  <2> QED BY <1>1, <1>2, <1>6, <2>1 DEF Reading, Points
<1>7. CASE line.keyword = "enc-key"
  <2>1. \/ r = s
        \/ r = [rev |-> s.rev, points |-> s.points, inBlock |-> s.inBlock,
                current |-> [s.current EXCEPT !.enc = line.arg]]
    BY <1>1, <1>7 DEF ParseLine
  <2> QED BY <1>1, <1>2, <1>7, <2>1 DEF Reading, Points
<1>8. CASE line.keyword = "signature"
  <2>1. CASE s.inBlock
    <3>1. r = [rev |-> s.rev, points |-> Append(s.points, s.current),
               current |-> s.current, inBlock |-> FALSE]
      BY <1>1, <1>8, <2>1 DEF ParseLine, ClosePoint
    <3>2. s.current \in Listed(A)
      BY <1>1, <1>8, <2>1 DEF Reading, Listed
    <3>3. Append(s.points, s.current) \in Seq(Listed(A))
      BY <1>1, <3>2, AppendProperties
    <3> QED BY <1>1, <3>1, <3>3 DEF Reading
  <2>2. CASE ~s.inBlock
    BY <1>1, <1>8, <2>2 DEF ParseLine, ClosePoint, Reading
  <2> QED BY <1>1, <2>1, <2>2
<1>9. CASE line.keyword \notin {"revision-counter", "introduction-point", "onion-key",
                               "auth-key", "enc-key", "signature"}
  <2>1. r = s
    BY <1>9 DEF ParseLine
  <2> QED BY <1>9, <2>1 DEF Reading
<1> HIDE DEF r
<1> QED BY <1>3, <1>4, <1>5, <1>6, <1>7, <1>8, <1>9 DEF r

(* ParseDescriptor finds only points with the authentication keys that     *)
(* EncodeDescriptor was given.                                             *)
LEMMA ParsedPoints ==
  ASSUME NEW A, NEW text, InOrder(text, A)
  PROVE  Parsed(text).points \in Seq(Listed(A))
<1> DEFINE n == Len(text)
           before(i) == IF i = 0 THEN "" ELSE text[i].keyword
<1>0. n \in Nat /\ \A i \in 1 .. n : text[i] \in Lines(A)
  BY DEF InOrder
<1>1. PICK f : /\ f = [i \in 0 .. n |->
                       IF i = 0 THEN StartParse ELSE ParseLine(f[i - 1], text[i], After(text, i))]
               /\ Parsed(text).points = ClosePoint(f[n]).points
  BY <1>0, ParsedIs
<1> HIDE DEF n, before
<1> DEFINE Bad == {i \in 0 .. n : ~Reading(f[i], before(i), A)}
<1>2. Bad = {}
  <2> SUFFICES ASSUME Bad # {} PROVE FALSE
    OBVIOUS
  <2>1. PICK m \in Bad : \A k \in Bad : m <= k
    <3>1. Bad \in SUBSET Nat
      OBVIOUS
    <3> HIDE DEF Bad
    <3> QED BY <3>1, FirstOf
  <2>2. m \in 0 .. n /\ m \in Nat
    BY <2>1
  <2>3. CASE m = 0
    <3>1. f[m] = StartParse
      BY <1>1, <2>2, <2>3
    <3>2. Reading(StartParse, before(0), A)
      BY DEF Reading, StartParse, NoPoint, Point, Points, Args, Keys
    <3> QED BY <2>1, <2>3, <3>1, <3>2
  <2>4. CASE m # 0
    <3>1. m - 1 \in 0 .. n /\ m - 1 \notin Bad /\ m \in 1 .. n
      BY <1>0, <2>1, <2>2, <2>4
    <3>2. f[m] = ParseLine(f[m - 1], text[m], After(text, m))
      BY <1>1, <2>2, <2>4
    <3>3. Reading(f[m - 1], before(m - 1), A)
      BY <3>1
    <3>4. After(text, m).arg \in Args(A)
      <4>1. m < n => m + 1 \in 1 .. n
        BY <1>0, <3>1
      <4>2. NoKey \in Args(A)
        BY DEF Args, Keys
      <4> QED BY <1>0, <4>1, <4>2 DEF After, Line, Lines, Args, n
    <3>5. /\ before(m - 1) = "introduction-point" => text[m].keyword = "onion-key"
          /\ before(m - 1) = "onion-key" => text[m].keyword = "auth-key"
      <4>1. m - 1 # 0 => m - 1 \in 1 .. n /\ (m - 1) + 1 = m
        BY <1>0, <3>1
      <4> QED BY <4>1 DEF InOrder, n, before
    <3>6. text[m].keyword = "auth-key" =>
            After(text, m).keyword = "base64" /\ After(text, m).arg \in A
      BY <3>1 DEF InOrder, After, n
    <3>7. Reading(f[m], text[m].keyword, A)
      BY <1>0, <3>1, <3>2, <3>3, <3>4, <3>5, <3>6, LineReads
    <3>8. before(m) = text[m].keyword
      BY <2>4 DEF before
    <3> QED BY <2>1, <3>7, <3>8
  <2> QED BY <2>3, <2>4
<1>3. Reading(f[n], before(n), A) /\ before(n) \notin {"introduction-point", "onion-key"}
  <2>1. Reading(f[n], before(n), A)
    BY <1>0, <1>2
  <2>2. n # 0 => n \in 1 .. n /\ ~(n < n)
    BY <1>0
  <2> QED BY <2>1, <2>2 DEF InOrder, n, before
<1>4. CASE f[n].inBlock
  <2>1. f[n].current \in Listed(A)
    BY <1>3, <1>4 DEF Reading, Listed
  <2>2. Append(f[n].points, f[n].current) \in Seq(Listed(A))
    BY <1>3, <2>1, AppendProperties DEF Reading
  <2>3. ClosePoint(f[n]).points = Append(f[n].points, f[n].current)
    BY <1>3, <1>4 DEF ClosePoint, Reading
  <2> QED BY <1>1, <2>2, <2>3
<1>5. CASE ~f[n].inBlock
  BY <1>1, <1>3, <1>5 DEF ClosePoint, Reading
<1> QED BY <1>4, <1>5

-----------------------------------------------------------------------------
(* Where a publisher is, and an introduction point of the service.         *)
Places == {"off", "establishing", "appending", "creating", "storing", "publishing",
           "uploading", "waiting"}
IntroPoint == [key : Publishers, relay : Nat, circuit : Nat]

(* The types of the state that the actions of the host index and count     *)
(* with.                                                                   *)
HostTyped ==
  /\ clock \in Nat /\ descriptor.rev \in Nat
  /\ at \in [Publishers -> Places] /\ inLoop \in [Publishers -> BOOLEAN]
  /\ count \in [Publishers -> Nat] /\ draftRev \in [Publishers -> Nat]
  /\ draft = [p \in Publishers |-> draft[p]]
  /\ stored = [d \in HSDirs |-> stored[d]]

(* Only a Start establishes introduction points: the maintenance loop goes *)
(* back to createDescriptor and no further (service.go:567-594).           *)
OnlyStartsAppend == \A p \in Publishers : at[p] \in {"establishing", "appending"} => ~inLoop[p]

(* At most one Start is at work.                                           *)
OneStart == \A p, q \in Publishers : Busy(p) /\ Busy(q) => p = q

(* The list of introduction points, numbered by position                   *)
(* (service.go:300-340).                                                   *)
PointsNumbered ==
  /\ introPoints \in Seq(IntroPoint)
  /\ \A j \in DOMAIN introPoints : introPoints[j].circuit = j - 1

(* The authentication keys of the service's introduction points.           *)
Auths == {<< introPoints[j] >> : j \in DOMAIN introPoints}

(* What a publisher has read and still works with: the list itself while a *)
(* Start lengthens it, then points of that list, then a descriptor of      *)
(* them.                                                                   *)
DraftsAreOurs ==
  \A p \in Publishers :
    /\ at[p] = "appending" => draft[p] = introPoints
    /\ at[p] = "storing" => draft[p] \in Seq({introPoints[j] : j \in DOMAIN introPoints})
    /\ at[p] = "uploading" => draft[p] \in Seq(Described(Auths))

(* The descriptor that the service keeps describes its own points.         *)
DescriptorIsOurs == descriptor.points \in Seq(Described(Auths))

(* Every HSDir holds a text in order, or none.                             *)
StoredAreOurs == \A d \in HSDirs : InOrder(stored[d], Auths)

(* The inductive invariant of the host. Nothing but the types and          *)
(* OnlyStartsAppend is kept once two Starts have overlapped.               *)
Ours == OneStart /\ PointsNumbered /\ DraftsAreOurs /\ DescriptorIsOurs /\ StoredAreOurs

HostInv == HostTyped /\ OnlyStartsAppend /\ (~overlapped => Ours)

(* The list of introduction points only grows: what was in order stays so. *)
LEMMA InOrderGrows ==
  ASSUME NEW A, NEW B, A \subseteq B, NEW t, InOrder(t, A)
  PROVE  InOrder(t, B)
<1>1. Lines(A) \subseteq Lines(B)
  BY DEF Lines, Keys
<1>2. t \in Seq(Lines(B))
  BY <1>1 DEF InOrder
<1> QED BY <1>2 DEF InOrder

(* What described the points before describes them now.                    *)
LEMMA DescribedGrows ==
  ASSUME NEW A, NEW B, A \subseteq B, NEW s, s \in Seq(Described(A))
  PROVE  s \in Seq(Described(B))
<1>1. Described(A) \subseteq Described(B)
  BY DEF Described
<1> HIDE DEF Described
<1> QED BY <1>1

(* Every step of the host keeps the types.                                 *)
LEMMA HostTypedStep ==
  ASSUME HostTyped, OnlyStartsAppend, [ServiceNext]_serviceVars
  PROVE  HostTyped' /\ OnlyStartsAppend'
<1> USE DEF HostTyped, OnlyStartsAppend
<1>1. ASSUME NEW p \in Publishers, Start(p)
      PROVE  HostTyped' /\ OnlyStartsAppend'
  BY <1>1 DEF Start, Places
<1>2. ASSUME NEW p \in Publishers, ReadPoints(p)
      PROVE  HostTyped' /\ OnlyStartsAppend'
  BY <1>2 DEF ReadPoints, Places
<1>3. ASSUME NEW p \in Publishers, AppendPoint(p)
      PROVE  HostTyped' /\ OnlyStartsAppend'
  BY <1>3 DEF AppendPoint, Places
<1>4. ASSUME NEW p \in Publishers, CreateDescriptor(p)
      PROVE  HostTyped' /\ OnlyStartsAppend'
  BY <1>4 DEF CreateDescriptor, Places
<1>5. ASSUME NEW p \in Publishers, StoreDescriptor(p)
      PROVE  HostTyped' /\ OnlyStartsAppend'
  BY <1>5 DEF StoreDescriptor, Places
<1>6. ASSUME NEW p \in Publishers, EndPublish(p)
      PROVE  HostTyped' /\ OnlyStartsAppend'
  BY <1>6 DEF EndPublish, Places
<1>7. ASSUME NEW p \in Publishers, LoopTick(p) \/ LoopEnds(p) \/ CancelContext(p)
      PROVE  HostTyped' /\ OnlyStartsAppend'
  BY <1>7 DEF LoopTick, LoopEnds, CancelContext, Places
<1>8. ASSUME NEW p \in Publishers, NEW one, NEW two, BeginPublish(p, one, two)
      PROVE  HostTyped' /\ OnlyStartsAppend'
  BY <1>8 DEF BeginPublish, Places
<1>9. ASSUME NEW p \in Publishers, NEW d \in HSDirs, Upload(p, d)
      PROVE  HostTyped' /\ OnlyStartsAppend'
  BY <1>9 DEF Upload, Keep
<1>10. CASE Stop \/ PassSecond
  BY <1>10 DEF Stop, PassSecond
<1>11. CASE UNCHANGED serviceVars
  BY <1>11 DEF serviceVars
<1> QED BY <1>1, <1>2, <1>3, <1>4, <1>5, <1>6, <1>7, <1>8, <1>9, <1>10, <1>11 DEF ServiceNext

(* The places at which a publisher works with what it has read.            *)
Drafting == {"appending", "storing", "uploading"}

(* Drafts stay the service's own when a step leaves the list alone and the *)
(* draft of whoever works with one is as it was, is the list, or holds     *)
(* descriptions of its points.                                             *)
LEMMA DraftsKept ==
  ASSUME DraftsAreOurs, UNCHANGED introPoints,
         \A q \in Publishers : at'[q] \in Drafting =>
           \/ at'[q] = at[q] /\ draft'[q] = draft[q]
           \/ at'[q] = "appending" /\ draft'[q] = introPoints
           \/ at'[q] = "uploading" /\ draft'[q] \in Seq(Described(Auths))
  PROVE  DraftsAreOurs'
<1> DEFINE OwnPoints == {introPoints[j] : j \in DOMAIN introPoints}
           OurDraft(place, d) ==
             /\ place = "appending" => d = introPoints
             /\ place = "storing" => d \in Seq(OwnPoints)
             /\ place = "uploading" => d \in Seq(Described(Auths))
<1>1. \A q \in Publishers : OurDraft(at[q], draft[q])
  BY DEF DraftsAreOurs
<1>2. (\A q \in Publishers : OurDraft(at'[q], draft'[q])) => DraftsAreOurs'
  BY DEF DraftsAreOurs, Auths
<1> HIDE DEF OwnPoints
<1>3. ASSUME NEW q \in Publishers PROVE OurDraft(at'[q], draft'[q])
  <2>1. CASE at'[q] \notin Drafting
    BY <2>1 DEF Drafting
  <2>2. CASE at'[q] = at[q] /\ draft'[q] = draft[q]
    BY <1>1, <2>2
  <2>3. CASE at'[q] = "appending" /\ draft'[q] = introPoints
    BY <2>3
  <2>4. CASE at'[q] = "uploading" /\ draft'[q] \in Seq(Described(Auths))
    BY <2>4
  <2> QED BY <2>1, <2>2, <2>3, <2>4
<1> QED BY <1>2, <1>3

(* Every step that lets no second Start in keeps the rest.                 *)
LEMMA OursStep ==
  ASSUME HostTyped, OnlyStartsAppend, Ours, ~overlapped', [ServiceNext]_serviceVars
  PROVE  Ours'
<1>0. /\ HostTyped /\ OnlyStartsAppend
      /\ OneStart /\ PointsNumbered /\ DraftsAreOurs /\ DescriptorIsOurs /\ StoredAreOurs
  BY DEF Ours
<1>a. ASSUME UNCHANGED <<introPoints, stored, descriptor, draft>>, NEW p \in Publishers,
             NEW x \in Places \ {"appending", "storing", "uploading"},
             at' = [at EXCEPT ![p] = x], OneStart'
      PROVE  Ours'
  <2>1. \A q \in Publishers : at'[q] \in Drafting => at'[q] = at[q] /\ draft'[q] = draft[q]
    BY <1>0, <1>a DEF HostTyped, Drafting, Places
  <2>2. DraftsAreOurs'
    BY <1>0, <1>a, <2>1, DraftsKept
  <2> QED BY <1>0, <1>a, <2>2 DEF Ours, PointsNumbered, DescriptorIsOurs, StoredAreOurs, Auths
<1>b. ASSUME UNCHANGED <<introPoints, stored, descriptor, draft, at, inLoop>>
      PROVE  Ours'
  BY <1>0, <1>b DEF Ours, OneStart, Busy, PointsNumbered, DraftsAreOurs, DescriptorIsOurs,
     StoredAreOurs, Auths
<1>1. ASSUME NEW p \in Publishers, Start(p)
      PROVE  Ours'
  <2>1. OneStart'
    BY <1>0, <1>1 DEF HostTyped, Start, OneStart, Busy
  <2> QED BY <1>a, <1>1, <2>1 DEF Start, Places
<1>2. ASSUME NEW p \in Publishers, ReadPoints(p)
      PROVE  Ours'
  <2>1. OneStart'
    BY <1>0, <1>2 DEF HostTyped, ReadPoints, OneStart, Busy
  <2>2. \A q \in Publishers : at'[q] \in Drafting =>
          \/ at'[q] = at[q] /\ draft'[q] = draft[q]
          \/ at'[q] = "appending" /\ draft'[q] = introPoints
    <3>1. \A q \in Publishers \ {p} : at'[q] = at[q] /\ draft'[q] = draft[q]
      BY <1>0, <1>2 DEF HostTyped, ReadPoints
    <3>2. at'[p] \in Drafting => at'[p] = "appending" /\ draft'[p] = introPoints
      BY <1>0, <1>2 DEF HostTyped, ReadPoints, Drafting
    <3> QED BY <3>1, <3>2
  <2>3. DraftsAreOurs'
    BY <1>0, <1>2, <2>2, DraftsKept DEF ReadPoints
  <2> QED BY <1>0, <1>2, <2>1, <2>3 DEF ReadPoints, Ours, PointsNumbered, DescriptorIsOurs,
     StoredAreOurs, Auths
<1>3. ASSUME NEW p \in Publishers, AppendPoint(p)
      PROVE  Ours'
  <2>1. /\ at[p] = "appending" /\ draft[p] = introPoints
        /\ introPoints' = Append(introPoints, NewPoint(p))
        /\ UNCHANGED <<descriptor, stored, draft, inLoop>>
    BY <1>0, <1>3 DEF AppendPoint, DraftsAreOurs
  <2>2. NewPoint(p) \in IntroPoint /\ NewPoint(p).circuit = Len(introPoints)
    BY <1>0, <2>1 DEF NewPoint, IntroPoint, HostTyped, PointsNumbered
  <2>3. /\ introPoints' \in Seq(IntroPoint) /\ Len(introPoints') = Len(introPoints) + 1
        /\ \A j \in 1 .. Len(introPoints) : introPoints'[j] = introPoints[j]
        /\ introPoints'[Len(introPoints) + 1] = NewPoint(p)
    BY <1>0, <2>1, <2>2, AppendProperties DEF PointsNumbered
  <2>4. PointsNumbered'
    BY <1>0, <2>2, <2>3 DEF PointsNumbered
  <2>5. \A j \in DOMAIN introPoints :
          j \in DOMAIN introPoints' /\ introPoints'[j] = introPoints[j]
    BY <1>0, <2>3 DEF PointsNumbered
  <2>6. Auths \subseteq Auths'
    BY <2>5 DEF Auths
  <2>7. OneStart'
    BY <1>0, <1>3 DEF HostTyped, AppendPoint, OneStart, Busy
  <2>8. DraftsAreOurs'
    <3> SUFFICES ASSUME NEW q \in Publishers
                 PROVE  /\ at'[q] = "appending" => draft'[q] = introPoints'
                        /\ at'[q] = "storing" =>
                             draft'[q] \in Seq({introPoints'[j] : j \in DOMAIN introPoints'})
                        /\ at'[q] = "uploading" => draft'[q] \in Seq(Described(Auths'))
      BY DEF DraftsAreOurs
    <3>1. /\ at'[q] # "appending"
          /\ at'[q] \in {"storing", "uploading"} => at'[q] = at[q]
      <4>1. CASE q = p
        BY <1>0, <1>3, <4>1 DEF AppendPoint, HostTyped
      <4>2. CASE q # p
        BY <1>0, <1>3, <2>1, <4>2 DEF AppendPoint, HostTyped, OnlyStartsAppend, OneStart, Busy
      <4> QED BY <4>1, <4>2
    <3>2. {introPoints[j] : j \in DOMAIN introPoints} \subseteq
            {introPoints'[j] : j \in DOMAIN introPoints'}
      BY <2>5
    <3>3. at[q] = "storing" => draft[q] \in Seq({introPoints'[j] : j \in DOMAIN introPoints'})
      <4> DEFINE S == {introPoints[j] : j \in DOMAIN introPoints}
                 T == {introPoints'[j] : j \in DOMAIN introPoints'}
      <4>1. S \subseteq T /\ (at[q] = "storing" => draft[q] \in Seq(S))
        BY <1>0, <3>2 DEF DraftsAreOurs
      <4> HIDE DEF S, T
      <4>2. at[q] = "storing" => draft[q] \in Seq(T)
        BY <4>1
      <4> QED BY <4>2 DEF T
    <3>4. at[q] = "uploading" => draft[q] \in Seq(Described(Auths'))
      BY <1>0, <2>6, DescribedGrows DEF DraftsAreOurs
    <3> QED BY <2>1, <3>1, <3>3, <3>4
  <2>9. DescriptorIsOurs'
    BY <1>0, <2>1, <2>6, DescribedGrows DEF DescriptorIsOurs
  <2>10. StoredAreOurs'
    BY <1>0, <2>1, <2>6, InOrderGrows DEF StoredAreOurs
  <2> QED BY <2>4, <2>7, <2>8, <2>9, <2>10 DEF Ours
<1>4. ASSUME NEW p \in Publishers, CreateDescriptor(p)
      PROVE  Ours'
  <2>1. /\ at' = [at EXCEPT ![p] = "storing"] /\ draft' = [draft EXCEPT ![p] = introPoints]
        /\ at[p] = "creating" /\ UNCHANGED <<introPoints, descriptor, stored, inLoop>>
    BY <1>4 DEF CreateDescriptor
  <2>2. OneStart'
    BY <1>0, <2>1 DEF HostTyped, OneStart, Busy
  <2>3. introPoints \in Seq({introPoints[j] : j \in DOMAIN introPoints})
    BY <1>0 DEF PointsNumbered
  <2>4. DraftsAreOurs'
    <3> SUFFICES ASSUME NEW q \in Publishers
                 PROVE  /\ at'[q] = "appending" => draft'[q] = introPoints
                        /\ at'[q] = "storing" =>
                             draft'[q] \in Seq({introPoints[j] : j \in DOMAIN introPoints})
                        /\ at'[q] = "uploading" => draft'[q] \in Seq(Described(Auths))
      BY <2>1 DEF DraftsAreOurs, Auths
    <3>1. CASE q = p
      BY <1>0, <2>1, <2>3, <3>1 DEF HostTyped
    <3>2. CASE q # p
      <4>1. at'[q] = at[q] /\ draft'[q] = draft[q]
        BY <1>0, <2>1, <3>2 DEF HostTyped
      <4> QED BY <1>0, <4>1 DEF DraftsAreOurs
    <3> QED BY <3>1, <3>2
  <2> QED BY <1>0, <2>1, <2>2, <2>4 DEF Ours, PointsNumbered, DescriptorIsOurs,
     StoredAreOurs, Auths
<1>5. ASSUME NEW p \in Publishers, StoreDescriptor(p)
      PROVE  Ours'
  <2>1. /\ at' = [at EXCEPT ![p] = "publishing"] /\ draft' = [draft EXCEPT ![p] = << >>]
        /\ at[p] = "storing" /\ UNCHANGED <<introPoints, stored, inLoop>>
        /\ descriptor'.points = [i \in DOMAIN draft[p] |-> DescribedPoint(draft[p][i])]
    BY <1>5 DEF StoreDescriptor
  <2>2. OneStart'
    BY <1>0, <2>1 DEF HostTyped, OneStart, Busy
  <2>3. DescriptorIsOurs'
    <3> DEFINE S == {introPoints[j] : j \in DOMAIN introPoints}
    <3>1. draft[p] \in Seq(S)
      BY <1>0, <2>1 DEF DraftsAreOurs
    <3>2. \A x \in S : DescribedPoint(x) \in Described(Auths)
      BY DEF Described, DescribedPoint, Auths
    <3> HIDE DEF S
    <3>3. descriptor'.points \in Seq(Described(Auths))
      BY <2>1, <3>1, <3>2
    <3> QED BY <2>1, <3>3 DEF DescriptorIsOurs, Auths
  <2>4. DraftsAreOurs'
    <3>1. \A q \in Publishers : at'[q] \in Drafting =>
            at'[q] = at[q] /\ draft'[q] = draft[q]
      BY <1>0, <2>1 DEF HostTyped, Drafting
    <3> QED BY <1>0, <2>1, <3>1, DraftsKept
  <2> QED BY <1>0, <2>1, <2>2, <2>3, <2>4 DEF Ours, PointsNumbered, StoredAreOurs, Auths
<1>6. ASSUME NEW p \in Publishers, EndPublish(p)
      PROVE  Ours'
  <2>1. /\ at[p] = "uploading" /\ draft' = [draft EXCEPT ![p] = << >>]
        /\ UNCHANGED <<introPoints, stored, descriptor>>
        /\ \/ at' = [at EXCEPT ![p] = "waiting"] /\ inLoop' = [inLoop EXCEPT ![p] = TRUE]
           \/ at' = [at EXCEPT ![p] = "off"] /\ UNCHANGED inLoop
    BY <1>6 DEF EndPublish
  <2>2. \A q \in Publishers :
          /\ Busy(q)' => Busy(q)
          /\ at'[q] \in {"appending", "storing", "uploading"} =>
               at'[q] = at[q] /\ draft'[q] = draft[q]
    <3> SUFFICES ASSUME NEW q \in Publishers
                 PROVE  /\ Busy(q)' => Busy(q)
                        /\ at'[q] \in {"appending", "storing", "uploading"} =>
                             at'[q] = at[q] /\ draft'[q] = draft[q]
      OBVIOUS
    <3>1. CASE q = p
      BY <1>0, <2>1, <3>1 DEF HostTyped, Busy
    <3>2. CASE q # p
      <4>1. at'[q] = at[q] /\ inLoop'[q] = inLoop[q] /\ draft'[q] = draft[q]
        BY <1>0, <2>1, <3>2 DEF HostTyped
      <4> QED BY <4>1 DEF Busy
    <3> QED BY <3>1, <3>2
  <2>3. OneStart'
    BY <1>0, <2>2 DEF OneStart
  <2>4. DraftsAreOurs'
    BY <1>0, <2>1, <2>2, DraftsKept DEF Drafting
  <2> QED BY <1>0, <2>1, <2>3, <2>4 DEF Ours, PointsNumbered, DescriptorIsOurs,
     StoredAreOurs, Auths
<1>7. ASSUME NEW p \in Publishers, LoopTick(p) \/ LoopEnds(p)
      PROVE  Ours'
  <2>1. OneStart'
    BY <1>0, <1>7 DEF HostTyped, LoopTick, LoopEnds, OneStart, Busy
  <2> QED BY <1>a, <1>7, <2>1 DEF LoopTick, LoopEnds, Places
<1>8. ASSUME NEW p \in Publishers, NEW one, NEW two, BeginPublish(p, one, two)
      PROVE  Ours'
  <2>1. /\ at[p] = "publishing" /\ at' = [at EXCEPT ![p] = "uploading"]
        /\ draft' = [draft EXCEPT ![p] = descriptor.points]
        /\ UNCHANGED <<introPoints, stored, descriptor, inLoop>>
    BY <1>8 DEF BeginPublish
  <2>2. OneStart'
    BY <1>0, <2>1 DEF HostTyped, OneStart, Busy
  <2>3. DraftsAreOurs'
    <3>1. \A q \in Publishers \ {p} : at'[q] = at[q] /\ draft'[q] = draft[q]
      BY <1>0, <2>1 DEF HostTyped
    <3>2. at'[p] = "uploading" /\ draft'[p] \in Seq(Described(Auths))
      BY <1>0, <2>1 DEF HostTyped, DescriptorIsOurs
    <3> QED BY <1>0, <2>1, <3>1, <3>2, DraftsKept
  <2> QED BY <1>0, <2>1, <2>2, <2>3 DEF Ours, PointsNumbered, DescriptorIsOurs,
     StoredAreOurs, Auths
<1>9. ASSUME NEW p \in Publishers, NEW d \in HSDirs, Upload(p, d)
      PROVE  Ours'
  <2> DEFINE kept == [rev |-> draftRev[p], points |-> draft[p]]
  <2>1. /\ at[p] = "uploading" /\ UNCHANGED <<introPoints, descriptor, at, inLoop, draft>>
        /\ UNCHANGED stored \/ Keep(d, kept)
    BY <1>9 DEF Upload
  <2>2. InOrder(RawDescriptor(kept), Auths)
    <3>1. kept.points \in Seq(Described(Auths)) /\ kept.rev \in Nat
      BY <1>0, <2>1 DEF DraftsAreOurs, HostTyped
    <3>2. NoKey \notin Auths
      BY DEF NoKey, Auths
    <3> HIDE DEF kept
    <3> QED BY <3>1, <3>2, TextInOrder DEF RawDescriptor
  <2>3. StoredAreOurs'
    <3> SUFFICES ASSUME NEW e \in HSDirs PROVE InOrder(stored'[e], Auths)
      BY <2>1 DEF StoredAreOurs, Auths
    <3>1. stored'[e] = stored[e] \/ stored'[e] = RawDescriptor(kept)
      BY <1>0, <2>1 DEF Keep, HostTyped
    <3> HIDE DEF kept
    <3> QED BY <1>0, <2>2, <3>1 DEF StoredAreOurs
  <2> QED BY <1>0, <2>1, <2>3
          DEF Ours, OneStart, Busy, PointsNumbered, DraftsAreOurs, DescriptorIsOurs, Auths
<1>10. ASSUME NEW p \in Publishers, CancelContext(p)
       PROVE  Ours'
  BY <1>b, <1>10 DEF CancelContext
<1>11. CASE Stop \/ PassSecond \/ UNCHANGED serviceVars
  BY <1>b, <1>11 DEF Stop, PassSecond, serviceVars
<1> QED BY <1>1, <1>2, <1>3, <1>4, <1>5, <1>6, <1>7, <1>8, <1>9, <1>10, <1>11 DEF ServiceNext

(* The invariant of the host is inductive.                                 *)
LEMMA HostStep ==
  ASSUME HostInv, [ServiceNext]_serviceVars
  PROVE  HostInv'
<1>1. ~overlapped' => ~overlapped
  BY DEF ServiceNext, serviceVars, Start, ReadPoints, AppendPoint, CreateDescriptor,
     StoreDescriptor,
         EndPublish, LoopTick, LoopEnds, CancelContext, BeginPublish, Upload, Stop, PassSecond
<1> QED BY <1>1, HostTypedStep, OursStep DEF HostInv

(* The introduction points of the descriptors that the HSDirs hold are the *)
(* service's, each with its own circuit id, as long as no Start begins     *)
(* while another is at work (service.go:243-260, 283-291, 355-375;         *)
(* onion.go:516-691, 912-1000): however often the service restarts and     *)
(* republishes, and whichever HSDirs are selected.                         *)
THEOREM PublishedPointsAreKnown == ServiceSpec => []PublishedPointsKnown
<1>1. ServiceInit => HostInv
  <2> SUFFICES ASSUME ServiceInit PROVE HostInv
    OBVIOUS
  <2>1. HostTyped /\ OnlyStartsAppend
    BY DEF ServiceInit, HostTyped, OnlyStartsAppend, Places, NoDescriptor
  <2>2. OneStart /\ DraftsAreOurs
    BY DEF ServiceInit, OneStart, Busy, DraftsAreOurs
  <2>3. PointsNumbered /\ DescriptorIsOurs
    BY DEF ServiceInit, PointsNumbered, DescriptorIsOurs, NoDescriptor
  <2>4. StoredAreOurs
    BY DEF ServiceInit, StoredAreOurs, InOrder, NoText
  <2> QED BY <2>1, <2>2, <2>3, <2>4 DEF HostInv, Ours
<1>2. HostInv => PublishedPointsKnown
  <2> SUFFICES ASSUME Ours PROVE PublishedPointsKnown
    BY DEF HostInv, PublishedPointsKnown
  <2>1. ASSUME NEW d \in HSDirs, NEW i \in DOMAIN Parsed(stored[d]).points
        PROVE  \E j \in DOMAIN introPoints :
                 Parsed(stored[d]).points[i].auth = << introPoints[j] >>
    <3>1. Parsed(stored[d]).points \in Seq(Listed(Auths))
      BY ParsedPoints DEF Ours, StoredAreOurs
    <3>2. Parsed(stored[d]).points[i] \in Listed(Auths)
      BY <3>1
    <3> QED BY <3>2 DEF Listed, Auths
  <2>2. ASSUME NEW i \in DOMAIN introPoints, NEW j \in DOMAIN introPoints,
               introPoints[i].circuit = introPoints[j].circuit
        PROVE  i = j
    BY <2>2 DEF Ours, PointsNumbered
  <2> QED BY <2>1, <2>2 DEF PublishedPointsKnown
<1> QED BY <1>1, <1>2, HostStep, PTL DEF ServiceSpec

(* Next to a client the host runs as it does alone: the client and the     *)
(* caches read what the HSDirs hold and write nothing of the service's.    *)
THEOREM HostIsItself == Spec => ServiceSpec
<1>1. Init => ServiceInit
  BY DEF Init
<1>2. [Next]_vars => [ServiceNext]_serviceVars
  <2>1. ConnectStep => UNCHANGED serviceVars
    BY DEF ConnectStep, Connect, NextAttempt, Backoff, CacheFetched, EstablishRendezvousPoint,
           CreateRendezvousCircuit, SendEstablishRendezvous, ReceiveAck, AckTimeout,
           SelectIntroductionPoint, CreateIntroductionCircuit, SendIntroduce1,
           CompleteRendezvous, MeetingTimeout, AskHSDir, RendOnly
  <2>2. (Again \/ Connect \/ Cancel \/ ServiceComes) => UNCHANGED serviceVars
    BY DEF Again, Connect, Cancel, ServiceComes, RendOnly
  <2>3. (Expire \/ Forget \/ CleanExpired) => UNCHANGED serviceVars
    BY DEF Expire, Forget, CleanExpired, CacheOnly
  <2>4. ASSUME NEW x, OtherPut(x) \/ UpdateHSDirs(x) \/ AnswerArrives(x) \/ OtherArrives(x)
        PROVE  UNCHANGED serviceVars
    BY <2>4 DEF OtherPut, UpdateHSDirs, AnswerArrives, OtherArrives, CacheOnly, RendOnly
  <2>5. ClientNext => UNCHANGED serviceVars
    BY <2>1, <2>2, <2>3, <2>4 DEF ClientNext
  <2> QED BY <2>5 DEF Next, vars
<1> QED BY <1>1, <1>2, PTL DEF Spec, ServiceSpec

-----------------------------------------------------------------------------
(* A replica, an attempt and an HSDir.                                     *)
Asks == {1, 2} \X (1 .. MaxRetries) \X HSDirs

(* The asks behind the fetch: those of a replica or an attempt before, and *)
(* in this attempt those that are not left.                                *)
Behind(k, a, d) ==
  \/ k < replica
  \/ k = replica /\ a < attempt
  \/ k = replica /\ a = attempt /\ step = "fetching" /\ d \notin left

(* The state of FetchDescriptor.                                           *)
FetchTyped ==
  /\ consensus \subseteq HSDirs
  /\ chosen = << chosen[1], chosen[2] >>
  /\ chosen[1] \subseteq HSDirs /\ chosen[2] \subseteq HSDirs
  /\ replica \in {1, 2} /\ attempt \in 1 .. MaxRetries
  /\ refused \subseteq Asks

(* The HSDirs not yet asked are of those selected for the replica.         *)
LeftAreChosen == step = "fetching" => left \subseteq chosen[replica]

(* An ask has failed when it is behind the fetch, and only then: both      *)
(* directions, so that an attempt that is skipped or repeated shows.       *)
RefusedSoFar ==
  step \in {"fetching", "backoff"} =>
    \A k \in {1, 2}, a \in 1 .. MaxRetries, d \in HSDirs :
      <<k, a, d>> \in refused <=> d \in chosen[k] /\ Behind(k, a, d)

(* The fetch gives up when every ask has failed.                           *)
GaveUpAtEnd ==
  result = "noDescriptor" =>
    /\ step = "done"
    /\ \A k \in {1, 2}, a \in 1 .. MaxRetries, d \in HSDirs :
         <<k, a, d>> \in refused <=> d \in chosen[k]

(* The inductive invariant of the fetch.                                   *)
FetchInv == FetchTyped /\ LeftAreChosen /\ RefusedSoFar /\ GaveUpAtEnd

(* Every step keeps it: one ask (onion.go:1185-1210), the next attempt or  *)
(* replica (onion.go:1137-1217), the wait between them                     *)
(* (onion.go:1168-1183), and all that goes on meanwhile.                   *)
LEMMA FetchStep ==
  ASSUME FetchInv, [Next]_vars
  PROVE  FetchInv'
<1>0. /\ FetchTyped /\ LeftAreChosen /\ RefusedSoFar /\ GaveUpAtEnd
      /\ MaxRetries \in Nat \ {0}
  BY RetriesAssumption DEF FetchInv, RetriesAssumption
<1>1. ASSUME UNCHANGED <<step, fetchVars, result>>, consensus' \subseteq HSDirs
      PROVE  FetchInv'
  BY <1>0, <1>1 DEF FetchInv, FetchTyped, LeftAreChosen, RefusedSoFar, GaveUpAtEnd, Behind,
     fetchVars
<1>2. ASSUME UNCHANGED <<consensus, fetchVars>>, step # "done",
             step' \notin {"fetching", "backoff"}, result' # "noDescriptor" \/ UNCHANGED result
      PROVE  FetchInv'
  BY <1>0, <1>2 DEF FetchInv, FetchTyped, LeftAreChosen, RefusedSoFar, GaveUpAtEnd, fetchVars
<1>3. CASE Connect
  <2>1. step = "idle" /\ UNCHANGED consensus
    BY <1>3 DEF Connect
  <2>2. CASE /\ step' \in {"establish", "done"} /\ UNCHANGED fetchVars
             /\ UNCHANGED result \/ result' = "failed"
    BY <1>2, <2>1, <2>2
  <2>3. ASSUME NEW one \in Selections(consensus), NEW two \in Selections(consensus),
               chosen' = << one, two >>, left' = one,
               replica' = 1, attempt' = 1, refused' = {}, step' = "fetching", UNCHANGED result
        PROVE  FetchInv'
    <3>1. one \subseteq HSDirs /\ two \subseteq HSDirs
      BY <1>0 DEF FetchTyped, Selections
    <3>2. FetchTyped'
      BY <1>0, <2>1, <2>3, <3>1 DEF FetchTyped
    <3>3. RefusedSoFar'
      <4> SUFFICES ASSUME NEW k \in {1, 2}, NEW a \in 1 .. MaxRetries, NEW d \in HSDirs
                   PROVE  ~(d \in chosen'[k] /\ Behind(k, a, d)')
        BY <2>3 DEF RefusedSoFar
      <4> QED BY <1>0, <2>3 DEF Behind
    <3>4. GaveUpAtEnd'
      BY <1>0, <2>1, <2>3 DEF GaveUpAtEnd
    <3>5. LeftAreChosen'
      BY <2>3 DEF LeftAreChosen
    <3> QED BY <3>2, <3>3, <3>4, <3>5 DEF FetchInv
  <2> QED BY <1>3, <2>2, <2>3 DEF Connect, Finish
<1>4. ASSUME NEW d \in HSDirs, AskHSDir(d)
      PROVE  FetchInv'
  <2>1. /\ step = "fetching" /\ d \in left
        /\ UNCHANGED <<consensus, replica, attempt, chosen, result>>
    BY <1>4 DEF AskHSDir
  <2>2. CASE step' = "caching" /\ UNCHANGED refused
    BY <1>0, <2>1, <2>2 DEF FetchInv, FetchTyped, LeftAreChosen, RefusedSoFar, GaveUpAtEnd
  <2>3. CASE /\ left' = left \ {d} /\ refused' = refused \cup {<<replica, attempt, d>>}
             /\ UNCHANGED step
    <3>1. FetchTyped'
      BY <1>0, <2>1, <2>3 DEF FetchTyped, Asks
    <3>2. GaveUpAtEnd'
      BY <1>0, <2>1, <2>3 DEF GaveUpAtEnd
    <3>3. RefusedSoFar'
      <4> SUFFICES ASSUME NEW k \in {1, 2}, NEW a \in 1 .. MaxRetries, NEW e \in HSDirs
                   PROVE  <<k, a, e>> \in refused' <=> e \in chosen'[k] /\ Behind(k, a, e)'
        BY DEF RefusedSoFar
      <4>1. <<k, a, e>> \in refused <=> e \in chosen[k] /\ Behind(k, a, e)
        BY <1>0, <2>1 DEF RefusedSoFar
      <4>2. CASE k = replica /\ a = attempt /\ e = d
        <5>1. <<k, a, e>> \in refused' /\ Behind(k, a, e)'
          BY <4>2, <2>1, <2>3 DEF Behind
        <5>2. e \in chosen'[k]
          BY <1>0, <4>2, <2>1 DEF LeftAreChosen
        <5> QED BY <5>1, <5>2
      <4>3. CASE ~(k = replica /\ a = attempt /\ e = d)
        <5>1. <<k, a, e>> \in refused' <=> <<k, a, e>> \in refused
          BY <4>3, <2>3
        <5>2. Behind(k, a, e)' <=> Behind(k, a, e)
          BY <4>3, <2>1, <2>3 DEF Behind
        <5> QED BY <4>1, <5>1, <5>2, <2>1
      <4> QED BY <4>2, <4>3
    <3>4. LeftAreChosen'
      BY <1>0, <2>1, <2>3 DEF LeftAreChosen
    <3> QED BY <3>1, <3>2, <3>3, <3>4 DEF FetchInv
  <2> QED BY <1>4, <2>2, <2>3 DEF AskHSDir
<1>5. CASE NextAttempt
  <2>1. step = "fetching" /\ left = {} /\ UNCHANGED <<consensus, chosen, refused>>
    BY <1>5 DEF NextAttempt
  <2>2. \A k \in {1, 2}, a \in 1 .. MaxRetries, d \in HSDirs :
          <<k, a, d>> \in refused <=>
            d \in chosen[k] /\ (k < replica \/ (k = replica /\ a <= attempt))
    <3> SUFFICES ASSUME NEW k \in {1, 2}, NEW a \in 1 .. MaxRetries, NEW d \in HSDirs
                 PROVE  Behind(k, a, d) <=> (k < replica \/ (k = replica /\ a <= attempt))
      BY <1>0, <2>1 DEF RefusedSoFar
    <3> QED BY <1>0, <2>1 DEF FetchTyped, Behind
  <2>3. CASE /\ attempt < MaxRetries /\ attempt' = attempt + 1 /\ step' = "backoff"
             /\ UNCHANGED <<replica, left, result>>
    <3>1. \A k \in {1, 2}, a \in 1 .. MaxRetries, d \in HSDirs :
            Behind(k, a, d)' <=> (k < replica \/ (k = replica /\ a <= attempt))
      BY <1>0, <2>1, <2>3 DEF FetchTyped, Behind
    <3>2. FetchTyped' /\ LeftAreChosen' /\ GaveUpAtEnd'
      BY <1>0, <2>1, <2>3 DEF FetchTyped, LeftAreChosen, GaveUpAtEnd
    <3>3. RefusedSoFar'
      BY <2>1, <2>2, <3>1 DEF RefusedSoFar
    <3> QED BY <3>2, <3>3 DEF FetchInv
  <2>4. CASE /\ attempt = MaxRetries /\ replica = 1
             /\ replica' = 2 /\ attempt' = 1 /\ left' = chosen[2] /\ UNCHANGED <<step, result>>
    <3>1. \A k \in {1, 2}, a \in 1 .. MaxRetries, d \in HSDirs :
            d \in chosen[k] => (Behind(k, a, d)' <=> k = 1)
      BY <1>0, <2>1, <2>4 DEF FetchTyped, Behind
    <3>2. \A k \in {1, 2}, a \in 1 .. MaxRetries, d \in HSDirs :
            <<k, a, d>> \in refused <=> d \in chosen[k] /\ k = 1
      <4> SUFFICES ASSUME NEW k \in {1, 2}, NEW a \in 1 .. MaxRetries
                   PROVE  (k < replica \/ (k = replica /\ a <= attempt)) <=> k = 1
        BY <2>2
      <4> QED BY <1>0, <2>4
    <3>3. FetchTyped' /\ LeftAreChosen' /\ GaveUpAtEnd'
      BY <1>0, <2>1, <2>4 DEF FetchTyped, LeftAreChosen, GaveUpAtEnd
    <3>4. RefusedSoFar'
      BY <2>1, <3>1, <3>2 DEF RefusedSoFar
    <3> QED BY <3>3, <3>4 DEF FetchInv
  <2>5. CASE /\ attempt = MaxRetries /\ replica = 2 /\ Finish("noDescriptor")
             /\ UNCHANGED <<replica, attempt, left>>
    <3>1. \A k \in {1, 2}, a \in 1 .. MaxRetries, d \in HSDirs :
            <<k, a, d>> \in refused <=> d \in chosen[k]
      <4> SUFFICES ASSUME NEW k \in {1, 2}, NEW a \in 1 .. MaxRetries
                   PROVE  k < replica \/ (k = replica /\ a <= attempt)
        BY <2>2
      <4> QED BY <1>0, <2>5
    <3> QED BY <1>0, <2>1, <2>5, <3>1
            DEF FetchInv, FetchTyped, LeftAreChosen, RefusedSoFar, GaveUpAtEnd, Finish
  <2> QED BY <1>5, <2>3, <2>4, <2>5 DEF NextAttempt
<1>6. CASE Backoff
  <2>1. step = "backoff" /\ UNCHANGED <<consensus, replica, attempt, chosen, refused>>
    BY <1>6 DEF Backoff
  <2>2. CASE step' = "fetching" /\ left' = chosen[replica] /\ UNCHANGED result
    <3>1. \A k \in {1, 2}, a \in 1 .. MaxRetries, d \in HSDirs :
            d \in chosen[k] => (Behind(k, a, d)' <=> Behind(k, a, d))
      BY <2>1, <2>2 DEF Behind
    <3>2. FetchTyped' /\ LeftAreChosen' /\ GaveUpAtEnd'
      BY <1>0, <2>1, <2>2 DEF FetchTyped, LeftAreChosen, GaveUpAtEnd
    <3>3. RefusedSoFar'
      BY <1>0, <2>1, <2>2, <3>1 DEF RefusedSoFar
    <3> QED BY <3>2, <3>3 DEF FetchInv
  <2>3. CASE Finish("cancelled") /\ UNCHANGED left
    BY <1>2, <2>1, <2>3 DEF Finish, fetchVars
  <2> QED BY <1>6, <2>2, <2>3 DEF Backoff
<1>7. CASE Again
  <2>1. /\ step' = "idle" /\ result' = "none" /\ replica' = 1 /\ attempt' = 1
        /\ chosen' = << {}, {} >> /\ left' = {} /\ refused' = {} /\ UNCHANGED consensus
    BY <1>7 DEF Again
  <2>2. FetchTyped'
    BY <1>0, <2>1 DEF FetchTyped
  <2> QED BY <2>1, <2>2 DEF FetchInv, LeftAreChosen, RefusedSoFar, GaveUpAtEnd
<1>8. CASE CacheFetched \/ CreateRendezvousCircuit \/ SendEstablishRendezvous
  BY <1>2, <1>8
     DEF CacheFetched, CreateRendezvousCircuit, SendEstablishRendezvous, Finish, RendOnly
<1>9. CASE ReceiveAck \/ AckTimeout
  BY <1>2, <1>9 DEF ReceiveAck, AckTimeout, RendOnly
<1>10. CASE SelectIntroductionPoint \/ CreateIntroductionCircuit \/ SendIntroduce1
  BY <1>2, <1>10
     DEF SelectIntroductionPoint, CreateIntroductionCircuit, SendIntroduce1, Finish, RendOnly
<1>11. CASE CompleteRendezvous \/ MeetingTimeout
  BY <1>2, <1>11 DEF CompleteRendezvous, MeetingTimeout, Finish, RendOnly
<1>12. CASE \E cell : AnswerArrives(cell) \/ OtherArrives(cell)
  BY <1>0, <1>1, <1>12 DEF AnswerArrives, OtherArrives, RendOnly, FetchTyped
<1>13. CASE ServiceComes \/ Cancel \/ Expire \/ Forget \/ CleanExpired
  BY <1>0, <1>1, <1>13
     DEF ServiceComes, Cancel, Expire, Forget, CleanExpired, CacheOnly, RendOnly, FetchTyped
<1>14. CASE \/ \E d \in HSDirs : OtherPut(d)
            \/ \E dirs \in {{}, HSDirs} : UpdateHSDirs(dirs)
  BY <1>0, <1>1, <1>14 DEF OtherPut, UpdateHSDirs, CacheOnly, FetchTyped
<1>15. CASE (ServiceNext /\ UNCHANGED clientVars) \/ UNCHANGED vars
  BY <1>0, <1>1, <1>15 DEF vars, clientVars, FetchTyped
<1> QED BY <1>3, <1>4, <1>5, <1>6, <1>7, <1>8, <1>9, <1>10, <1>11, <1>12, <1>13, <1>14, <1>15
        DEF Next, ClientNext, ConnectStep, EstablishRendezvousPoint

(* FetchDescriptor gives up only after every HSDir selected for each of    *)
(* the two replicas has failed in each attempt (onion.go:1137-1217).       *)
THEOREM GivesUpAfterAll == Spec => []GivesUpOnlyAfterAll
<1>1. Init => FetchInv
  <2> SUFFICES ASSUME Init PROVE FetchInv
    OBVIOUS
  <2>1. /\ consensus = {} /\ step = "idle" /\ replica = 1 /\ attempt = 1
        /\ chosen = << {}, {} >> /\ left = {} /\ result = "none" /\ refused = {}
        /\ 1 \in 1 .. MaxRetries
    BY RetriesAssumption DEF Init, ClientInit, RetriesAssumption
  <2> QED BY <2>1 DEF FetchInv, FetchTyped, LeftAreChosen, RefusedSoFar, GaveUpAtEnd
<1>2. FetchInv => GivesUpOnlyAfterAll
  <2> SUFFICES ASSUME FetchInv, result = "noDescriptor"
               PROVE  refused =
                        {r \in {1, 2} \X (1 .. MaxRetries) \X HSDirs : r[3] \in chosen[r[1]]}
    BY DEF GivesUpOnlyAfterAll
  <2>1. refused \subseteq Asks
    BY DEF FetchInv, FetchTyped
  <2>2. \A r \in Asks : r \in refused <=> r[3] \in chosen[r[1]]
    <3> SUFFICES ASSUME NEW k \in {1, 2}, NEW a \in 1 .. MaxRetries, NEW d \in HSDirs
                 PROVE  <<k, a, d>> \in refused <=> d \in chosen[k]
      BY DEF Asks
    <3> QED BY DEF FetchInv, GaveUpAtEnd
  <2> QED BY <2>1, <2>2 DEF Asks
<1> QED BY <1>1, <1>2, FetchStep, PTL DEF Spec
=============================================================================
