----------------------------- MODULE OriginProofs -----------------------------
(***************************************************************************)
(* The scan of `is_http_origin` takes exactly the texts that have the form *)
(* of an origin, for every set of digit runs and every text.               *)
(***************************************************************************)
EXTENDS HttpOrigin, SequenceTheorems, TLAPS

\* The host and the port of a text, told by positions.
HostBetween(text, i, k, allowed) == i <= k /\ \A j \in i..k : text[j] \in allowed
PortAt(text, k) == k = Len(text) /\ text[k] \in Ports

LEMMA SubSeqIs ==
    ASSUME NEW text \in Seq(Pieces), NEW i \in Nat \ {0}, NEW k \in Nat, k <= Len(text)
    PROVE  /\ Len(SubSeq(text, i, k)) = IF i <= k THEN k - i + 1 ELSE 0
           /\ DOMAIN SubSeq(text, i, k) = 1..Len(SubSeq(text, i, k))
           /\ \A m \in 1..Len(SubSeq(text, i, k)) : SubSeq(text, i, k)[m] = text[i + m - 1]
           /\ SubSeq(text, i, k) \in Seq(Pieces)
  OBVIOUS

LEMMA HostIs ==
    ASSUME NEW text \in Seq(Pieces), NEW i \in Nat \ {0}, NEW k \in Nat, k <= Len(text),
           NEW allowed
    PROVE  HostIsValid(SubSeq(text, i, k), allowed) <=> HostBetween(text, i, k, allowed)
  <1> DEFINE s == SubSeq(text, i, k)
  <1>1. /\ Len(s) = IF i <= k THEN k - i + 1 ELSE 0
        /\ DOMAIN s = 1..Len(s)
        /\ \A m \in 1..Len(s) : s[m] = text[i + m - 1]
        /\ s \in Seq(Pieces)
    BY SubSeqIs
  <1> HIDE DEF s
  <1>2. ASSUME HostIsValid(s, allowed) PROVE HostBetween(text, i, k, allowed)
    <2>1. i <= k
      BY <1>1, <1>2 DEF HostIsValid
    <2>2. ASSUME NEW j \in i..k PROVE text[j] \in allowed
      <3>1. (j - i + 1) \in 1..Len(s) /\ s[j - i + 1] = text[j]
        BY <1>1, <2>1
      <3>2. QED
        BY <3>1, <1>1, <1>2 DEF HostIsValid
    <2>3. QED
      BY <2>1, <2>2 DEF HostBetween
  <1>3. ASSUME HostBetween(text, i, k, allowed) PROVE HostIsValid(s, allowed)
    <2>1. s # <<>>
      BY <1>1, <1>3 DEF HostBetween
    <2>2. ASSUME NEW m \in DOMAIN s PROVE s[m] \in allowed
      <3>1. (i + m - 1) \in i..k
        BY <1>1, <1>3 DEF HostBetween
      <3>2. QED
        BY <3>1, <1>1, <1>3 DEF HostBetween
    <2>3. QED
      BY <2>1, <2>2 DEF HostIsValid
  <1>4. QED
    BY <1>2, <1>3 DEF s

LEMMA PortIs ==
    ASSUME NEW text \in Seq(Pieces), NEW k \in Nat \ {0}
    PROVE  PortIsValid(SubSeq(text, k, Len(text))) <=> PortAt(text, k)
  <1> DEFINE s == SubSeq(text, k, Len(text))
  <1>1. /\ Len(s) = IF k <= Len(text) THEN Len(text) - k + 1 ELSE 0
        /\ \A m \in 1..Len(s) : s[m] = text[k + m - 1]
        /\ Len(text) \in Nat
    <2>1. Len(text) \in Nat /\ Len(text) <= Len(text) /\ k \in Nat \ {0}
      OBVIOUS
    <2>2. QED
      BY <2>1, SubSeqIs, Zenon
  <1> HIDE DEF s
  <1>2. Len(s) = 1 <=> k = Len(text)
    BY <1>1
  <1>3. k = Len(text) => s[1] = text[k]
    BY <1>1, <1>2
  <1>4. PortIsValid(s) <=> PortAt(text, k)
    BY <1>2, <1>3 DEF PortIsValid, PortAt
  <1>5. QED
    BY <1>4 DEF s

\* The reference definition, told by positions.
LEMMA OriginIs ==
    ASSUME NEW text \in Seq(Pieces), text # <<>>, text[1] \in Schemes
    PROVE  Origin(text) <=>
             \E k \in 1..Len(text) :
                /\ \/ HostBetween(text, 2, k, HostPieces)
                   \/ /\ text[2] = "[" /\ text[k] = "]"
                      /\ HostBetween(text, 3, k - 1, AddressPieces)
                /\ k = Len(text) \/ (text[k + 1] = ":" /\ PortAt(text, k + 2))
  <1> SUFFICES ASSUME NEW k \in 1..Len(text)
               PROVE  /\ HostForm(SubSeq(text, 2, k)) <=>
                            \/ HostBetween(text, 2, k, HostPieces)
                            \/ /\ text[2] = "[" /\ text[k] = "]"
                               /\ HostBetween(text, 3, k - 1, AddressPieces)
                      /\ PortForm(SubSeq(text, k + 1, Len(text))) <=>
                            k = Len(text) \/ (text[k + 1] = ":" /\ PortAt(text, k + 2))
    BY DEF Origin
  <1> DEFINE h == SubSeq(text, 2, k)
             p == SubSeq(text, k + 1, Len(text))
  <1>1. /\ Len(h) = k - 1 /\ h \in Seq(Pieces)
        /\ \A m \in 1..Len(h) : h[m] = text[m + 1]
    BY SubSeqIs
  <1>2. /\ Len(p) = Len(text) - k /\ p \in Seq(Pieces)
        /\ \A m \in 1..Len(p) : p[m] = text[k + m]
    <2>1. Len(text) <= Len(text) /\ (k + 1) \in Nat \ {0} /\ Len(text) \in Nat
      OBVIOUS
    <2>2. /\ Len(p) = IF k + 1 <= Len(text) THEN Len(text) - (k + 1) + 1 ELSE 0
          /\ \A m \in 1..Len(p) : p[m] = text[(k + 1) + m - 1]
          /\ p \in Seq(Pieces)
      BY <2>1, SubSeqIs, Zenon
    <2>3. QED
      BY <2>1, <2>2
  <1>3. p # <<>> => Tail(p) = SubSeq(text, k + 2, Len(text))
    OBVIOUS
  <1>4. HostIsValid(h, HostPieces) <=> HostBetween(text, 2, k, HostPieces)
    BY HostIs
  <1> HIDE DEF h, p
  <1>5. /\ Len(h) > 2 /\ h[1] = "[" /\ h[Len(h)] = "]"
        /\ \A i \in 2..(Len(h) - 1) : h[i] \in AddressPieces
        <=> /\ text[2] = "[" /\ text[k] = "]"
            /\ HostBetween(text, 3, k - 1, AddressPieces)
    <2>1. Len(h) > 2 <=> 3 <= k - 1
      BY <1>1
    <2>2. ASSUME 3 <= k - 1
          PROVE  /\ h[1] = text[2] /\ h[Len(h)] = text[k]
                 /\ (\A i \in 2..(Len(h) - 1) : h[i] \in AddressPieces)
                       <=> \A j \in 3..(k - 1) : text[j] \in AddressPieces
      <3>1. h[1] = text[2] /\ h[Len(h)] = text[k]
        BY <1>1, <2>2
      <3>2. ASSUME \A i \in 2..(Len(h) - 1) : h[i] \in AddressPieces, NEW j \in 3..(k - 1)
            PROVE  text[j] \in AddressPieces
        <4>1. (j - 1) \in 2..(Len(h) - 1) /\ h[j - 1] = text[j]
          BY <1>1
        <4>2. QED
          BY <4>1, <3>2
      <3>3. ASSUME \A j \in 3..(k - 1) : text[j] \in AddressPieces, NEW i \in 2..(Len(h) - 1)
            PROVE  h[i] \in AddressPieces
        BY <1>1, <3>3
      <3>4. QED
        BY <3>1, <3>2, <3>3
    <2>3. QED
      BY <2>1, <2>2 DEF HostBetween
  <1>6. p = <<>> <=> k = Len(text)
    <2>1. p = <<>> <=> Len(p) = 0
      BY <1>2
    <2>2. QED
      BY <2>1, <1>2
  <1>7. p # <<>> => p[1] = text[k + 1]
    <2>1. p # <<>> => 1 \in 1..Len(p)
      BY <1>2, <1>6
    <2>2. QED
      BY <2>1, <1>2
  <1>8. p # <<>> => (PortIsValid(Tail(p)) <=> PortAt(text, k + 2))
    <2>1. (k + 2) \in Nat \ {0}
      OBVIOUS
    <2>2. PortIsValid(SubSeq(text, k + 2, Len(text))) <=> PortAt(text, k + 2)
      BY <2>1, PortIs, Zenon
    <2>3. QED
      BY <2>2, <1>3
  <1>9. k # Len(text) \/ ~PortAt(text, k + 2)
    <2>1. Len(text) \in Nat
      OBVIOUS
    <2>2. QED
      BY <2>1 DEF PortAt
  <1>10. QED
    BY <1>4, <1>5, <1>6, <1>7, <1>8, <1>9 DEF HostForm, PortForm, h, p

-----------------------------------------------------------------------------
(* The scan, told by positions.                                            *)

LEMMA TailIs ==
    ASSUME NEW text \in Seq(Pieces), text # <<>>
    PROVE  /\ Tail(text) \in Seq(Pieces) /\ Len(Tail(text)) = Len(text) - 1
           /\ \A i \in 1..Len(Tail(text)) : Tail(text)[i] = text[i + 1]
           /\ DOMAIN Tail(text) = 1..Len(Tail(text))
  OBVIOUS

\* A cut of a text that lacks its first piece is a cut of the text.
LEMMA ShiftIs ==
    ASSUME NEW S, NEW s \in Seq(S), NEW t \in Seq(S), NEW n \in Nat,
           Len(s) = n, Len(t) = n - 1, \A m \in 1..(n - 1) : t[m] = s[m + 1],
           NEW a \in Nat, a >= 1, NEW b \in Nat, b <= n - 1
    PROVE  SubSeq(t, a, b) = SubSeq(s, a + 1, b + 1)
  <1>1. PICK u, v : u = SubSeq(t, a, b) /\ v = SubSeq(s, a + 1, b + 1)
    OBVIOUS
  <1>2. PICK l \in Nat : l = IF a <= b THEN b - a + 1 ELSE 0
    <2>1. (IF a <= b THEN b - a + 1 ELSE 0) \in Nat
      OBVIOUS
    <2>2. QED
      BY <2>1, Zenon
  <1>3. ASSUME NEW m \in a..b PROVE t[m] \in S /\ t[m] = s[m + 1]
    <2>1. m \in 1..(n - 1)
      OBVIOUS
    <2>2. QED
      BY <2>1
  <1>4. ASSUME NEW m \in (a + 1)..(b + 1) PROVE s[m] \in S
    <2>1. m \in 1..n
      OBVIOUS
    <2>2. QED
      BY <2>1
  <1>5. u \in Seq(S) /\ Len(u) = l /\ \A i \in 1..(b - a + 1) : u[i] = t[a + i - 1]
    <2>1. a \in Int /\ b \in Int /\ \A m \in a..b : t[m] \in S
      BY <1>3
    <2>2. /\ SubSeq(t, a, b) \in Seq(S)
          /\ Len(SubSeq(t, a, b)) = IF a <= b THEN b - a + 1 ELSE 0
          /\ \A i \in 1..(b - a + 1) : SubSeq(t, a, b)[i] = t[a + i - 1]
      BY <2>1, SubSeqProperties
    <2>3. QED
      BY <1>1, <1>2, <2>2
  <1>6. v \in Seq(S) /\ Len(v) = l /\ \A i \in 1..(b - a + 1) : v[i] = s[(a + 1) + i - 1]
    <2> DEFINE c == a + 1
               d == b + 1
    <2>1. c \in Int /\ d \in Int /\ (c <= d <=> a <= b) /\ d - c + 1 = b - a + 1
      OBVIOUS
    <2>2. \A m \in c..d : s[m] \in S
      BY <1>4
    <2>3. v = SubSeq(s, c, d)
      BY <1>1
    <2>4. (\A i \in 1..(b - a + 1) : v[i] = s[c + i - 1])
             <=> \A i \in 1..(b - a + 1) : v[i] = s[(a + 1) + i - 1]
      OBVIOUS
    <2> HIDE DEF c, d
    <2>5. /\ SubSeq(s, c, d) \in Seq(S)
          /\ Len(SubSeq(s, c, d)) = IF c <= d THEN d - c + 1 ELSE 0
          /\ \A i \in 1..(d - c + 1) : SubSeq(s, c, d)[i] = s[c + i - 1]
      BY <2>1, <2>2, SubSeqProperties
    <2>6. QED
      BY <1>2, <2>1, <2>3, <2>4, <2>5
  <1>7. ASSUME NEW i \in 1..l PROVE u[i] = v[i]
    <2>1. i \in 1..(b - a + 1) /\ (a + i - 1) \in a..b /\ (a + i - 1) + 1 = (a + 1) + i - 1
      BY <1>2
    <2>2. t[a + i - 1] = s[(a + i - 1) + 1]
      BY <1>3, <2>1
    <2>3. QED
      BY <1>5, <1>6, <2>1, <2>2
  <1>8. u = v
    BY <1>5, <1>6, <1>7, SeqEqual
  <1>9. QED
    BY <1>1, <1>8

\* What follows the scheme of a text, cut at one of its positions.
LEMMA CutIs ==
    ASSUME NEW text \in Seq(Pieces), text # <<>>, NEW i \in DOMAIN Tail(text), NEW allowed
    PROVE  /\ HostIsValid(Before(Tail(text), i), allowed) <=> HostBetween(text, 2, i, allowed)
           /\ After(Tail(text), i) = <<>> <=> i + 1 = Len(text)
           /\ PortIsValid(After(Tail(text), i)) <=> PortAt(text, i + 2)
           /\ PortIsValid(After(Tail(text), i + 1)) <=> PortAt(text, i + 3)
  <1> DEFINE n == Len(text)
  <1>1. n \in Nat /\ i \in 1..(n - 1)
    BY TailIs
  <1>2. /\ Before(Tail(text), i) = SubSeq(text, 2, i)
        /\ After(Tail(text), i) = SubSeq(text, i + 2, n)
        /\ After(Tail(text), i + 1) = SubSeq(text, i + 3, n)
    <2> DEFINE t == Tail(text)
    <2>1. /\ t \in Seq(Pieces) /\ Len(t) = n - 1
          /\ \A m \in 1..(n - 1) : t[m] = text[m + 1]
      BY <1>1, TailIs
    <2> HIDE DEF t
    <2>9. ASSUME NEW x \in Nat, x >= 1, NEW y \in Nat, y <= n - 1
          PROVE  SubSeq(t, x, y) = SubSeq(text, x + 1, y + 1)
      BY <1>1, <2>1, <2>9, ShiftIs
    <2>2. SubSeq(t, 1, i - 1) = SubSeq(text, 2, i)
      <3>1. (i - 1) \in Nat /\ i - 1 <= n - 1 /\ 1 + 1 = 2 /\ (i - 1) + 1 = i
        BY <1>1
      <3>2. SubSeq(t, 1, i - 1) = SubSeq(text, 1 + 1, (i - 1) + 1)
        BY <2>9, <3>1
      <3>3. QED
        BY <3>1, <3>2
    <2> DEFINE b == n - 1
    <2>6. b \in Nat /\ b <= n - 1 /\ b + 1 = n /\ Len(t) = b
      BY <1>1, <2>1
    <2> DEFINE c == i + 1
               d == i + 2
    <2>7. c \in Nat /\ c >= 1 /\ c + 1 = i + 2 /\ c = i + 1
      BY <1>1
    <2>8. d \in Nat /\ d >= 1 /\ d + 1 = i + 3 /\ d = (i + 1) + 1
      BY <1>1
    <2> HIDE DEF b, c, d
    <2>3. SubSeq(t, i + 1, Len(t)) = SubSeq(text, i + 2, n)
      <3>1. SubSeq(t, c, b) = SubSeq(text, c + 1, b + 1)
        BY <2>6, <2>7, <2>9
      <3>2. QED
        BY <2>6, <2>7, <3>1
    <2>4. SubSeq(t, (i + 1) + 1, Len(t)) = SubSeq(text, i + 3, n)
      <3>1. SubSeq(t, d, b) = SubSeq(text, d + 1, b + 1)
        BY <2>6, <2>8, <2>9
      <3>2. QED
        BY <2>6, <2>7, <2>8, <3>1
    <2>5. QED
      BY <2>2, <2>3, <2>4 DEF Before, After, t
  <1>3. HostIsValid(SubSeq(text, 2, i), allowed) <=> HostBetween(text, 2, i, allowed)
    BY <1>1, HostIs
  <1>4. SubSeq(text, i + 2, n) = <<>> <=> i + 1 = n
    <2> DEFINE r == SubSeq(text, i + 2, n)
    <2>1. r \in Seq(Pieces) /\ Len(r) = IF i + 2 <= n THEN n - (i + 2) + 1 ELSE 0
      BY <1>1
    <2> HIDE DEF r
    <2>2. r = <<>> <=> Len(r) = 0
      BY <2>1
    <2>3. QED
      BY <2>1, <2>2, <1>1 DEF r
  <1>5. PortIsValid(SubSeq(text, i + 2, n)) <=> PortAt(text, i + 2)
    <2>1. (i + 2) \in Nat \ {0}
      BY <1>1
    <2>2. QED
      BY <2>1, PortIs, Zenon
  <1>6. PortIsValid(SubSeq(text, i + 3, n)) <=> PortAt(text, i + 3)
    <2>1. (i + 3) \in Nat \ {0}
      BY <1>1
    <2>2. QED
      BY <2>1, PortIs, Zenon
  <1>7. QED
    BY <1>2, <1>3, <1>4, <1>5, <1>6

LEMMA NamedIs ==
    ASSUME NEW text \in Seq(Pieces), text # <<>>
    PROVE  Named(Tail(text)) <=>
             IF \A i \in 2..Len(text) : text[i] # ":"
               THEN HostBetween(text, 2, Len(text), HostPieces)
               ELSE \E i \in 2..Len(text) :
                       /\ text[i] = ":" /\ \A j \in (i + 1)..Len(text) : text[j] # ":"
                       /\ HostBetween(text, 2, i - 1, HostPieces) /\ PortAt(text, i + 1)
  <1> DEFINE a == Tail(text)
             n == Len(text)
  <1>1. /\ a \in Seq(Pieces) /\ Len(a) = n - 1 /\ n \in Nat /\ DOMAIN a = 1..(n - 1)
        /\ \A i \in 1..(n - 1) : a[i] = text[i + 1]
    BY TailIs
  <1>2. HostIsValid(a, HostPieces) <=> HostBetween(text, 2, n, HostPieces)
    <2>1. a = SubSeq(text, 2, n)
      OBVIOUS
    <2>2. 2 \in Nat \ {0} /\ n \in Nat /\ n <= Len(text)
      BY <1>1
    <2>3. HostIsValid(SubSeq(text, 2, n), HostPieces) <=> HostBetween(text, 2, n, HostPieces)
      BY <2>2, HostIs, Zenon
    <2>4. QED
      BY <2>1, <2>3
  <1>3. \A i \in 1..(n - 1) :
           /\ HostIsValid(Before(a, i), HostPieces) <=> HostBetween(text, 2, i, HostPieces)
           /\ PortIsValid(After(a, i)) <=> PortAt(text, i + 2)
    BY <1>1, CutIs
  <1> HIDE DEF a
  <1>4. (\A i \in DOMAIN a : a[i] # ":") <=> (\A i \in 2..n : text[i] # ":")
    <2>1. ASSUME \A i \in DOMAIN a : a[i] # ":", NEW i \in 2..n PROVE text[i] # ":"
      <3>1. (i - 1) \in DOMAIN a /\ a[i - 1] = text[i]
        BY <1>1
      <3>2. QED
        BY <3>1, <2>1
    <2>2. ASSUME \A i \in 2..n : text[i] # ":", NEW i \in DOMAIN a PROVE a[i] # ":"
      BY <2>2, <1>1
    <2>3. QED
      BY <2>1, <2>2
  <1> DEFINE Scan(i) == /\ a[i] = ":" /\ \A j \in (i + 1)..Len(a) : a[j] # ":"
                        /\ HostIsValid(Before(a, i), HostPieces) /\ PortIsValid(After(a, i))
             Spot(i) == /\ text[i] = ":" /\ \A j \in (i + 1)..n : text[j] # ":"
                        /\ HostBetween(text, 2, i - 1, HostPieces) /\ PortAt(text, i + 1)
  <1>5. ASSUME NEW i \in 1..(n - 1) PROVE Scan(i) <=> Spot(i + 1)
    <2>1. a[i] = text[i + 1]
      BY <1>1
    <2>2. (\A j \in (i + 1)..Len(a) : a[j] # ":") <=> (\A j \in (i + 2)..n : text[j] # ":")
      <3>1. ASSUME \A j \in (i + 1)..Len(a) : a[j] # ":", NEW j \in (i + 2)..n
            PROVE  text[j] # ":"
        <4>1. (j - 1) \in (i + 1)..Len(a) /\ a[j - 1] = text[j]
          BY <1>1
        <4>2. QED
          BY <4>1, <3>1
      <3>2. ASSUME \A j \in (i + 2)..n : text[j] # ":", NEW j \in (i + 1)..Len(a)
            PROVE  a[j] # ":"
        <4>1. (j + 1) \in (i + 2)..n /\ a[j] = text[j + 1]
          BY <1>1
        <4>2. QED
          BY <4>1, <3>2
      <3>3. QED
        BY <3>1, <3>2
    <2>3. (i + 1) - 1 = i /\ (i + 1) + 1 = i + 2
      BY <1>1
    <2>4. QED
      BY <2>1, <2>2, <2>3, <1>3
  <1>6. (\E i \in DOMAIN a : Scan(i)) <=> (\E i \in 2..n : Spot(i))
    <2>1. ASSUME NEW i \in DOMAIN a, Scan(i) PROVE \E k \in 2..n : Spot(k)
      <3>1. (i + 1) \in 2..n /\ Spot(i + 1)
        <4>1. i \in 1..(n - 1)
          BY <1>1
        <4>2. (i + 1) \in 2..n
          BY <4>1, <1>1
        <4>3. QED
          BY <4>1, <4>2, <2>1, <1>5
      <3>2. QED
        BY <3>1
    <2>2. ASSUME NEW k \in 2..n, Spot(k) PROVE \E i \in DOMAIN a : Scan(i)
      <3>1. (k - 1) \in 1..(n - 1) /\ (k - 1) + 1 = k
        BY <1>1
      <3>2. Scan(k - 1)
        BY <3>1, <2>2, <1>5
      <3>3. QED
        BY <3>1, <3>2, <1>1
    <2>3. QED
      BY <2>1, <2>2
  <1>7. QED
    BY <1>2, <1>4, <1>6 DEF Named, a

LEMMA BracketedIs ==
    ASSUME NEW text \in Seq(Pieces), text # <<>>
    PROVE  Bracketed(Tail(text)) <=>
             \E i \in 2..Len(text) :
                /\ text[i] = "]" /\ \A j \in 2..(i - 1) : text[j] # "]"
                /\ HostBetween(text, 2, i - 1, AddressPieces)
                /\ i = Len(text) \/ (text[i + 1] = ":" /\ PortAt(text, i + 2))
  <1> DEFINE a == Tail(text)
             n == Len(text)
  <1>1. /\ a \in Seq(Pieces) /\ Len(a) = n - 1 /\ n \in Nat /\ DOMAIN a = 1..(n - 1)
        /\ \A i \in 1..(n - 1) : a[i] = text[i + 1]
    BY TailIs
  <1>2. \A i \in 1..(n - 1) :
           /\ HostIsValid(Before(a, i), AddressPieces) <=> HostBetween(text, 2, i, AddressPieces)
           /\ After(a, i) = <<>> <=> i + 1 = n
           /\ PortIsValid(After(a, i + 1)) <=> PortAt(text, i + 3)
    BY <1>1, CutIs
  <1> HIDE DEF a
  <1> DEFINE Scan(i) == /\ a[i] = "]" /\ \A j \in 1..(i - 1) : a[j] # "]"
                        /\ HostIsValid(Before(a, i), AddressPieces)
                        /\ After(a, i) # <<>> =>
                              a[i + 1] = ":" /\ PortIsValid(After(a, i + 1))
             Spot(i) == /\ text[i] = "]" /\ \A j \in 2..(i - 1) : text[j] # "]"
                        /\ HostBetween(text, 2, i - 1, AddressPieces)
                        /\ i = n \/ (text[i + 1] = ":" /\ PortAt(text, i + 2))
  <1>3. ASSUME NEW i \in 1..(n - 1) PROVE Scan(i) <=> Spot(i + 1)
    <2>1. a[i] = text[i + 1]
      BY <1>1
    <2>2. (\A j \in 1..(i - 1) : a[j] # "]") <=> (\A j \in 2..i : text[j] # "]")
      <3>1. ASSUME \A j \in 1..(i - 1) : a[j] # "]", NEW j \in 2..i
            PROVE  text[j] # "]"
        <4>1. (j - 1) \in 1..(i - 1) /\ a[j - 1] = text[j]
          BY <1>1
        <4>2. QED
          BY <4>1, <3>1
      <3>2. ASSUME \A j \in 2..i : text[j] # "]", NEW j \in 1..(i - 1)
            PROVE  a[j] # "]"
        <4>1. (j + 1) \in 2..i /\ a[j] = text[j + 1]
          BY <1>1
        <4>2. QED
          BY <4>1, <3>2
      <3>3. QED
        BY <3>1, <3>2
    <2>3. (i + 1) - 1 = i /\ (i + 1) + 1 = i + 2 /\ (i + 1) + 2 = i + 3
      BY <1>1
    <2>4. i + 1 # n => a[i + 1] = text[(i + 1) + 1]
      BY <1>1
    <2>5. QED
      BY <2>1, <2>2, <2>3, <2>4, <1>2
  <1>4. (\E i \in DOMAIN a : Scan(i)) <=> (\E i \in 2..n : Spot(i))
    <2>1. ASSUME NEW i \in DOMAIN a, Scan(i) PROVE \E k \in 2..n : Spot(k)
      <3>1. i \in 1..(n - 1) /\ (i + 1) \in 2..n
        BY <1>1
      <3>2. Spot(i + 1)
        BY <3>1, <2>1, <1>3
      <3>3. QED
        BY <3>1, <3>2
    <2>2. ASSUME NEW k \in 2..n, Spot(k) PROVE \E i \in DOMAIN a : Scan(i)
      <3>1. (k - 1) \in 1..(n - 1) /\ (k - 1) + 1 = k
        BY <1>1
      <3>2. Scan(k - 1)
        BY <3>1, <2>2, <1>3
      <3>3. QED
        BY <3>1, <3>2, <1>1
    <2>3. QED
      BY <2>1, <2>2
  <1>5. QED
    BY <1>4 DEF Bracketed, a

-----------------------------------------------------------------------------
\* The scan for brackets and for the last colon takes exactly the texts that
\* are an origin, http(s)://host[:port] (is_http_origin).
THEOREM ScanIsExact ==
    ASSUME NEW text \in Seq(Pieces)
    PROVE  IsHttpOrigin(text) <=> Origin(text)
  <1> DEFINE n == Len(text)
             a == Tail(text)
  <1>1. CASE text = <<>>
    BY <1>1 DEF IsHttpOrigin, Origin
  <1>2. CASE text # <<>> /\ text[1] \notin Schemes
    BY <1>2 DEF IsHttpOrigin, Origin
  <1>3. CASE text # <<>> /\ text[1] \in Schemes
    <2>1. /\ a \in Seq(Pieces) /\ Len(a) = n - 1 /\ n \in Nat \ {0} /\ DOMAIN a = 1..(n - 1)
          /\ \A i \in 1..(n - 1) : a[i] = text[i + 1]
      BY <1>3, TailIs
    <2>2. Origin(text) <=>
             \E k \in 1..n :
                /\ \/ HostBetween(text, 2, k, HostPieces)
                   \/ /\ text[2] = "[" /\ text[k] = "]"
                      /\ HostBetween(text, 3, k - 1, AddressPieces)
                /\ k = n \/ (text[k + 1] = ":" /\ PortAt(text, k + 2))
      BY <1>3, OriginIs
    <2>3. "[" \notin HostPieces /\ ":" \notin HostPieces /\ "]" \notin AddressPieces
          /\ ":" \notin Ports
      <3>1. Ports \subseteq Digits
        BY DEF Ports
      <3>2. {":", "[", "]"} \subseteq Others
        BY DEF Others
      <3>3. QED
        BY <3>1, <3>2, NumberAssumption DEF HostPieces, AddressPieces
    <2>4. IsHttpOrigin(text) <=>
             IF a # <<>> /\ a[1] = "[" THEN Bracketed(Tail(a)) ELSE Named(a)
      BY <1>3 DEF IsHttpOrigin
    <2> HIDE DEF a
    <2>5. a # <<>> <=> n >= 2
      <3>1. a # <<>> <=> Len(a) # 0
        BY <2>1
      <3>2. QED
        BY <3>1, <2>1
    <2>6. CASE a # <<>> /\ a[1] = "["
      <3>1. n >= 2 /\ text[2] = "["
        BY <2>1, <2>5, <2>6
      <3>2. Bracketed(Tail(a)) <=>
               \E i \in 2..Len(a) :
                  /\ a[i] = "]" /\ \A j \in 2..(i - 1) : a[j] # "]"
                  /\ HostBetween(a, 2, i - 1, AddressPieces)
                  /\ i = Len(a) \/ (a[i + 1] = ":" /\ PortAt(a, i + 2))
        BY <2>1, <2>6, BracketedIs
      <3>3. ASSUME NEW i \in 2..Len(a)
            PROVE  HostBetween(a, 2, i - 1, AddressPieces)
                     <=> HostBetween(text, 3, i, AddressPieces)
        <4>1. ASSUME \A j \in 2..(i - 1) : a[j] \in AddressPieces, NEW j \in 3..i
              PROVE  text[j] \in AddressPieces
          <5>1. (j - 1) \in 2..(i - 1) /\ a[j - 1] = text[j]
            BY <2>1
          <5>2. QED
            BY <5>1, <4>1
        <4>2. ASSUME \A j \in 3..i : text[j] \in AddressPieces, NEW j \in 2..(i - 1)
              PROVE  a[j] \in AddressPieces
          <5>1. (j + 1) \in 3..i /\ a[j] = text[j + 1]
            BY <2>1
          <5>2. QED
            BY <5>1, <4>2
        <4>3. 2 <= i - 1 <=> 3 <= i
          BY <2>1
        <4>4. QED
          BY <4>1, <4>2, <4>3 DEF HostBetween
      <3>4. ASSUME NEW i \in 2..Len(a)
            PROVE  /\ a[i] = text[i + 1] /\ (i = Len(a) <=> i + 1 = n)
                   /\ (a[i + 1] = ":" /\ PortAt(a, i + 2))
                         <=> (text[i + 2] = ":" /\ PortAt(text, i + 3))
        <4>1. a[i] = text[i + 1] /\ (i = Len(a) <=> i + 1 = n)
          BY <2>1
        <4>2. i + 2 = Len(a) <=> i + 3 = n
          BY <2>1
        <4>3. i + 2 = Len(a) => a[i + 1] = text[i + 2] /\ a[i + 2] = text[i + 3]
          BY <2>1
        <4>4. QED
          BY <4>1, <4>2, <4>3 DEF PortAt
      <3>5. ASSUME Bracketed(Tail(a)) PROVE Origin(text)
        <4>1. PICK i \in 2..Len(a) :
                  /\ a[i] = "]" /\ HostBetween(a, 2, i - 1, AddressPieces)
                  /\ i = Len(a) \/ (a[i + 1] = ":" /\ PortAt(a, i + 2))
          BY <3>2, <3>5
        <4>2. (i + 1) \in 1..n /\ (i + 1) - 1 = i /\ (i + 1) + 1 = i + 2 /\ (i + 1) + 2 = i + 3
          BY <2>1
        <4>3. /\ text[i + 1] = "]" /\ HostBetween(text, 3, i, AddressPieces)
              /\ i + 1 = n \/ (text[i + 2] = ":" /\ PortAt(text, i + 3))
          BY <4>1, <3>3, <3>4
        <4>4. QED
          BY <4>2, <4>3, <3>1, <2>2
      <3>6. ASSUME Origin(text) PROVE Bracketed(Tail(a))
        <4>1. PICK k \in 1..n :
                  /\ \/ HostBetween(text, 2, k, HostPieces)
                     \/ /\ text[2] = "[" /\ text[k] = "]"
                        /\ HostBetween(text, 3, k - 1, AddressPieces)
                  /\ k = n \/ (text[k + 1] = ":" /\ PortAt(text, k + 2))
          BY <2>2, <3>6
        <4>2. ~HostBetween(text, 2, k, HostPieces)
          BY <2>3, <3>1 DEF HostBetween
        <4>3. text[k] = "]" /\ HostBetween(text, 3, k - 1, AddressPieces)
          BY <4>1, <4>2
        <4>4. (k - 1) \in 2..Len(a) /\ (k - 1) + 1 = k /\ (k - 1) + 2 = k + 1 /\ (k - 1) + 3 = k + 2
          BY <4>3, <2>1 DEF HostBetween
        <4>5. /\ a[k - 1] = "]" /\ HostBetween(a, 2, (k - 1) - 1, AddressPieces)
              /\ k - 1 = Len(a) \/ (a[(k - 1) + 1] = ":" /\ PortAt(a, (k - 1) + 2))
          BY <4>1, <4>3, <4>4, <3>3, <3>4
        <4>6. \A j \in 2..((k - 1) - 1) : a[j] # "]"
          BY <4>5, <2>3 DEF HostBetween
        <4>7. QED
          BY <4>4, <4>5, <4>6, <3>2
      <3>7. QED
        BY <3>5, <3>6, <2>4, <2>6
    <2>7. CASE ~(a # <<>> /\ a[1] = "[")
      <3>1. n >= 2 => text[2] # "["
        BY <2>1, <2>5, <2>7
      <3>2. Named(a) <=>
               IF \A i \in 2..n : text[i] # ":"
                 THEN HostBetween(text, 2, n, HostPieces)
                 ELSE \E i \in 2..n :
                         /\ text[i] = ":" /\ \A j \in (i + 1)..n : text[j] # ":"
                         /\ HostBetween(text, 2, i - 1, HostPieces) /\ PortAt(text, i + 1)
        BY <1>3, NamedIs DEF a
      <3>3. ASSUME Named(a) PROVE Origin(text)
        <4>1. CASE \A i \in 2..n : text[i] # ":"
          BY <4>1, <3>2, <3>3, <2>1, <2>2
        <4>2. CASE ~(\A i \in 2..n : text[i] # ":")
          <5>1. PICK i \in 2..n : /\ text[i] = ":" /\ HostBetween(text, 2, i - 1, HostPieces)
                                  /\ PortAt(text, i + 1)
            BY <4>2, <3>2, <3>3
          <5>2. (i - 1) \in 1..n /\ (i - 1) + 1 = i /\ (i - 1) + 2 = i + 1
            BY <2>1
          <5>3. QED
            BY <5>1, <5>2, <2>2
        <4>3. QED
          BY <4>1, <4>2
      <3>4. ASSUME Origin(text) PROVE Named(a)
        <4>1. PICK k \in 1..n :
                  /\ \/ HostBetween(text, 2, k, HostPieces)
                     \/ /\ text[2] = "[" /\ HostBetween(text, 3, k - 1, AddressPieces)
                  /\ k = n \/ (text[k + 1] = ":" /\ PortAt(text, k + 2))
          BY <2>2, <3>4
        <4>2. ~(text[2] = "[" /\ HostBetween(text, 3, k - 1, AddressPieces))
          BY <3>1, <2>1 DEF HostBetween
        <4>3. HostBetween(text, 2, k, HostPieces)
          BY <4>1, <4>2
        <4>4. \A j \in 2..k : text[j] # ":"
          BY <4>3, <2>3 DEF HostBetween
        <4>5. CASE k = n
          BY <4>3, <4>4, <4>5, <3>2
        <4>6. CASE k # n
          <5>1. text[k + 1] = ":" /\ k + 2 = n /\ text[n] \in Ports /\ PortAt(text, k + 2)
            BY <4>1, <4>6 DEF PortAt
          <5>2. (k + 1) \in 2..n /\ (k + 1) - 1 = k /\ (k + 1) + 1 = k + 2
            BY <5>1, <2>1, <4>3 DEF HostBetween
          <5>3. \A j \in ((k + 1) + 1)..n : text[j] # ":"
            <6>1. \A j \in ((k + 1) + 1)..n : j = n
              BY <5>1, <2>1
            <6>2. QED
              BY <6>1, <5>1, <2>3
          <5>4. QED
            BY <5>1, <5>2, <5>3, <4>3, <3>2
        <4>7. QED
          BY <4>5, <4>6
      <3>5. QED
        BY <3>3, <3>4, <2>4, <2>7
    <2>8. QED
      BY <2>6, <2>7
  <1>4. QED
    BY <1>1, <1>2, <1>3

=============================================================================
