------------------------- MODULE ConfigurationProofs -------------------------
(***************************************************************************)
(* The verdict of `config::load` is about the whole document.  The cursor  *)
(* of the parse and the entries parsed so far are related by a bijection   *)
(* between the indices of each list and the positions of the document that *)
(* have been read: it is what carries a duplicate identifier, or a missing *)
(* one, from the entries back to the document.                             *)
(***************************************************************************)
EXTENDS Configuration, OriginProofs, WellFoundedInduction

Active == Lists \cup {"parsing", "accepted"}

\* The positions the parse has been at.
Read(l) == {p \in Positions(l) :
              p[1] < section \/ (phase = "parsing" /\ p[1] = section /\ p[2] < index)}

Entries(l) == {EntryAt(l, p) : p \in Positions(l)}

TypeInv ==
    /\ document \in Documents
    /\ phase \in Lists \cup {"reading", "parsing", "accepted", "rejected", "unreadable"}
    /\ section \in Nat \ {0} /\ index \in Nat \ {0}
    /\ DOMAIN config = Lists
    /\ \A l \in Lists : config[l] \in Seq(Entries(l))

RootInv ==
    /\ phase \in {"reading", "unreadable"} =>
          section = 1 /\ index = 1 /\ config = [l \in Lists |-> <<>>]
    /\ phase \in Active =>
          /\ RootIsValid
          /\ \A s \in DOMAIN Sections : s < section => Sections[s].name \in Lists
    /\ phase \in Lists \cup {"accepted"} => section = Len(Sections) + 1

\* Whatever is in a list was parsed from a node of it.
ImageInv ==
    \A l \in Lists : \A i \in DOMAIN config[l] :
        /\ RootIsValid
        /\ \E p \in Positions(l) : Parses(l, NodeAt(p)) /\ config[l][i] = EntryAt(l, p)

Matches(l, f) ==
    /\ \A i \in DOMAIN config[l] : config[l][i] = EntryAt(l, f[i])
    /\ \A i, j \in DOMAIN config[l] : f[i] = f[j] => i = j
    /\ \A p \in Read(l) : \E i \in DOMAIN config[l] : f[i] = p

MatchInv ==
    phase \in Active =>
        \A l \in Lists :
            /\ \A p \in Read(l) : Parses(l, NodeAt(p))
            /\ \E f \in [DOMAIN config[l] -> Read(l)] : Matches(l, f)

\* What the validation has passed by.
Checked(l, i) ==
    \/ phase = "accepted"
    \/ phase = "contexts" /\ l = "providers"
    \/ phase = "policies" /\ l # "policies"
    \/ phase = l /\ i < index

CheckedInv == \A l \in Lists : \A i \in DOMAIN config[l] : Checked(l, i) => EntryIsValid(l, i)

VerdictInv == phase = "rejected" => ~WellFormed

IInv == TypeInv /\ RootInv /\ ImageInv /\ MatchInv /\ CheckedInv /\ VerdictInv

-----------------------------------------------------------------------------
(* Positions, and the first entry of an identifier.                        *)

LEMMA PositionIs ==
    ASSUME NEW l, NEW p
    PROVE  p \in Positions(l) <=>
             \E s \in DOMAIN Sections :
                Sections[s].name = l /\ \E n \in DOMAIN Sections[s].children : p = <<s, n>>
  BY DEF Positions

LEMMA SectionsAre ==
    ASSUME document \in Documents, RootIsValid
    PROVE  /\ 1 \in DOMAIN document
           /\ IsSequence(Sections)
           /\ \A s \in DOMAIN Sections : IsSequence(Sections[s].children)
  <1>1. 1 \in DOMAIN document
    <2>1. Len(document) = 1
      BY DEF RootIsValid
    <2>2. IsSequence(document)
      BY DocumentsAssumption
    <2>3. QED
      BY <2>1, <2>2 DEF IsSequence
  <1>2. QED
    BY <1>1, DocumentsAssumption DEF Sections

LEMMA Smallest ==
    ASSUME NEW S \in SUBSET Nat, S # {}
    PROVE  \E m \in S : \A k \in S : m <= k
  <1>1. PICK m \in S : \A k \in S : ~(<<k, m>> \in OpToRel(<, Nat))
    BY WFMin, NatLessThanWellFounded, Zenon
  <1>2. \A k \in S : ~(k < m)
    BY <1>1, Zenon DEF OpToRel
  <1>3. QED
    BY <1>2

\* Induction up to a bound, for a set of numbers.
LEMMA Climb ==
    ASSUME NEW n \in Nat, NEW S, 0 \in S, \A j \in 0..n : j \in S /\ j < n => j + 1 \in S
    PROVE  0..n \subseteq S
  <1> DEFINE T == 0..n \ S
  <1> SUFFICES ASSUME T # {} PROVE FALSE
    OBVIOUS
  <1>1. T \in SUBSET Nat
    OBVIOUS
  <1>2. PICK m \in T : \A k \in T : m <= k
    BY <1>1, Smallest
  <1>3. m \in 0..n /\ m # 0 /\ m \notin S
    BY <1>2
  <1>4. m - 1 \in 0..n /\ m - 1 \notin T /\ (m - 1) + 1 = m /\ m - 1 < n
    BY <1>2, <1>3
  <1>5. QED
    BY <1>3, <1>4

\* `Config::provider` and its like find an entry just when there is one.
LEMMA LookupFinds ==
    ASSUME NEW l, NEW id, NEW S, config[l] \in Seq(S)
    PROVE  (\E i \in DOMAIN config[l] : config[l][i].id = id) <=> Lookup(l, id) # {}
  <1> DEFINE T == {i \in DOMAIN config[l] : config[l][i].id = id}
  <1>1. ASSUME NEW i \in DOMAIN config[l], config[l][i].id = id
        PROVE  Lookup(l, id) # {}
    <2>1. T \in SUBSET Nat /\ T # {}
      BY <1>1
    <2> HIDE DEF T
    <2>2. PICK m \in T : \A k \in T : m <= k
      BY <2>1, Smallest
    <2> USE DEF T
    <2>3. \A j \in 1..(m - 1) : config[l][j].id # id
      <3>1. \A j \in 1..(m - 1) : j \in DOMAIN config[l] /\ ~(m <= j)
        OBVIOUS
      <3>2. QED
        BY <3>1, <2>2
    <2>4. QED
      BY <2>2, <2>3 DEF Lookup
  <1>2. QED
    BY <1>1 DEF Lookup

-----------------------------------------------------------------------------
(* The children of one name.                                               *)

\* What is kept of the first i children, given what is kept of the ones before.
KeptStep(node, name, f, i) ==
    IF i = 0 THEN <<>>
    ELSE IF node.children[i].name = name THEN Append(f[i - 1], node.children[i])
    ELSE f[i - 1]

Keeps(node, name, m, f) == f = [i \in 0..m |-> KeptStep(node, name, f, i)]

LEMMA KeptValues ==
    ASSUME NEW node, NEW name, NEW m, NEW f, Keeps(node, name, m, f)
    PROVE  \A i \in 0..m : f[i] = KeptStep(node, name, f, i)
  <1>1. f = [i \in 0..m |-> KeptStep(node, name, f, i)]
    BY DEF Keeps
  <1>2. \A i \in 0..m : f[i] = [k \in 0..m |-> KeptStep(node, name, f, k)][i]
    BY <1>1, Zenon
  <1>3. QED
    BY <1>2, Zenon

LEMMA KeepOneMore ==
    ASSUME NEW node, NEW name, NEW m \in Nat, NEW f, Keeps(node, name, m, f)
    PROVE  \E g : Keeps(node, name, m + 1, g)
  <1> DEFINE g == [i \in 0..(m + 1) |-> IF i = m + 1 THEN KeptStep(node, name, f, m + 1) ELSE f[i]]
  <1>1. g = [i \in 0..(m + 1) |-> g[i]]
    OBVIOUS
  <1>2. \A i \in 0..m : i \in 0..(m + 1) /\ i # m + 1
    OBVIOUS
  <1>3. \A i \in 0..m : g[i] = f[i]
    BY <1>2, Zenon
  <1>4. m + 1 \in 0..(m + 1)
    OBVIOUS
  <1>5. g[m + 1] = KeptStep(node, name, f, m + 1)
    BY <1>4, Zenon
  <1> HIDE DEF g
  <1>6. ASSUME NEW i \in 0..(m + 1) PROVE g[i] = KeptStep(node, name, g, i)
    <2>1. i = 0 \/ i - 1 \in 0..m
      OBVIOUS
    <2>2. KeptStep(node, name, f, i) = KeptStep(node, name, g, i)
      BY <1>3, <2>1, Zenon DEF KeptStep
    <2>3. i = m + 1 \/ i \in 0..m
      OBVIOUS
    <2>4. \A k \in 0..m : f[k] = KeptStep(node, name, f, k)
      BY KeptValues
    <2>5. QED
      BY <1>3, <1>5, <2>2, <2>3, <2>4, Zenon
  <1>7. g = [i \in 0..(m + 1) |-> KeptStep(node, name, g, i)]
    BY <1>1, <1>6, Zenon
  <1>8. QED
    BY <1>7, Zenon DEF Keeps

LEMMA KeptExists ==
    ASSUME NEW node, NEW name, NEW n \in Nat
    PROVE  \E f : Keeps(node, name, n, f)
  <1> DEFINE S == {m \in 0..n : \E f : Keeps(node, name, m, f)}
  <1>1. 0 \in S
    <2> DEFINE g == [i \in 0..0 |-> <<>>]
    <2>1. \A i \in 0..0 : i = 0
      OBVIOUS
    <2>2. \A f : KeptStep(node, name, f, 0) = <<>>
      BY Zenon DEF KeptStep
    <2>3. g = [i \in 0..0 |-> KeptStep(node, name, g, i)]
      BY <2>1, <2>2, Zenon
    <2> HIDE DEF g
    <2>4. Keeps(node, name, 0, g)
      BY <2>3, Zenon DEF Keeps
    <2>5. 0 \in 0..n
      OBVIOUS
    <2>6. QED
      BY <2>4, <2>5, Zenon
  <1>2. ASSUME NEW m \in 0..n, m \in S, m < n PROVE m + 1 \in S
    <2>1. m + 1 \in 0..n /\ m \in Nat
      BY <1>2
    <2>2. PICK f : Keeps(node, name, m, f)
      BY <1>2
    <2>3. \E g : Keeps(node, name, m + 1, g)
      BY <2>1, <2>2, KeepOneMore
    <2>4. QED
      BY <2>1, <2>3, Zenon
  <1> HIDE DEF S
  <1>3. 0..n \subseteq S
    BY <1>1, <1>2, Climb
  <1>4. n \in S
    BY <1>3
  <1>5. QED
    BY <1>4 DEF S

\* The children of one name are a sequence, and they are just the children that
\* have the name.
LEMMA ChildrenAre ==
    ASSUME NEW node, IsSequence(node.children), NEW name
    PROVE  /\ IsSequence(Children(node, name))
           /\ \A i \in DOMAIN Children(node, name) : \E k \in DOMAIN node.children :
                 Children(node, name)[i] = node.children[k] /\ node.children[k].name = name
           /\ \A k \in DOMAIN node.children : node.children[k].name = name =>
                 \E i \in DOMAIN Children(node, name) : Children(node, name)[i] = node.children[k]
  <1> DEFINE c == node.children
             n == Len(c)
             C == {c[k] : k \in DOMAIN c}
             f == CHOOSE f : Keeps(node, name, n, f)
             Right(i) == /\ f[i] \in Seq(C)
                         /\ \A j \in DOMAIN f[i] : f[i][j].name = name
                         /\ \A k \in 1..i : c[k].name = name => \E j \in DOMAIN f[i] : f[i][j] = c[k]
             S == {i \in 0..n : Right(i)}
  <1>1. n \in Nat /\ DOMAIN c = 1..n
    BY DEF IsSequence
  <1>2. Children(node, name) = f[n]
    BY DEF Children, Keeps, KeptStep
  <1>3. Keeps(node, name, n, f)
    BY <1>1, KeptExists
  <1> HIDE DEF f, n
  <1>4. \A i \in 0..n : f[i] = KeptStep(node, name, f, i)
    BY <1>3, KeptValues
  <1>5. 0 \in S
    <2>1. 0 \in 0..n /\ 1..0 = {}
      BY <1>1
    <2>2. f[0] = <<>>
      BY <1>4, <2>1, Zenon DEF KeptStep
    <2> HIDE DEF C
    <2>3. <<>> \in Seq(C) /\ DOMAIN <<>> = {}
      OBVIOUS
    <2>4. Right(0)
      BY <2>1, <2>2, <2>3
    <2>5. QED
      BY <2>1, <2>4
  <1>6. ASSUME NEW i \in 0..n, i \in S, i < n PROVE i + 1 \in S
    <2>1. i + 1 \in 1..n /\ i + 1 \in 0..n /\ i + 1 # 0 /\ (i + 1) - 1 = i /\ 1..(i + 1) = 1..i \cup {i + 1}
      BY <1>1, <1>6
    <2>2. PICK x : x = c[i + 1] /\ x \in C
      BY <1>1, <2>1
    <2>3. f[i + 1] = IF x.name = name THEN Append(f[i], x) ELSE f[i]
      BY <1>4, <2>1, <2>2 DEF KeptStep
    <2>4. Right(i)
      BY <1>6
    <2> HIDE DEF C, c
    <2>5. CASE x.name = name
      <3>1. PICK s \in Seq(C) : s = f[i]
        BY <2>4
      <3>2. PICK t : t = Append(s, x)
        OBVIOUS
      <3>3. /\ t \in Seq(C) /\ DOMAIN t = 1..(Len(s) + 1) /\ t[Len(s) + 1] = x
            /\ DOMAIN s = 1..Len(s) /\ Len(s) \in Nat
            /\ \A j \in 1..Len(s) : t[j] = s[j]
        BY <2>2, <3>2
      <3>4. \A j \in DOMAIN t : t[j].name = name
        <4>1. \A j \in 1..Len(s) : s[j].name = name
          BY <2>4, <3>1, <3>3
        <4>2. ASSUME NEW j \in DOMAIN t PROVE j \in 1..Len(s) \/ j = Len(s) + 1
          BY <3>3
        <4>3. ASSUME NEW j \in DOMAIN t PROVE t[j].name = name
          BY <2>5, <3>3, <4>1, <4>2
        <4>4. QED
          BY <4>3
      <3>5. \A k \in 1..(i + 1) : c[k].name = name => \E j \in DOMAIN t : t[j] = c[k]
        <4>1. \A k \in 1..i : c[k].name = name => \E j \in 1..Len(s) : s[j] = c[k]
          BY <2>4, <3>1, <3>3
        <4>2. 1..Len(s) \subseteq DOMAIN t /\ Len(s) + 1 \in DOMAIN t
          BY <3>3
        <4>3. QED
          BY <2>1, <2>2, <3>3, <4>1, <4>2
      <3>6. f[i + 1] = t
        BY <2>3, <2>5, <3>1, <3>2
      <3>7. QED
        BY <2>1, <3>3, <3>4, <3>5, <3>6
    <2>6. CASE x.name # name
      BY <2>1, <2>2, <2>3, <2>4, <2>6
    <2>7. QED
      BY <2>5, <2>6
  <1>7. n \in S
    <2> HIDE DEF S
    <2>1. 0..n \subseteq S
      BY <1>1, <1>5, <1>6, Climb
    <2>2. QED
      BY <1>1, <2>1
  <1>8. PICK s \in Seq(C) :
          /\ s = Children(node, name)
          /\ \A j \in DOMAIN s : s[j].name = name
          /\ \A k \in 1..n : c[k].name = name => \E j \in DOMAIN s : s[j] = c[k]
    BY <1>2, <1>7
  <1>9. \A j \in DOMAIN s : s[j] \in C
    OBVIOUS
  <1>10. IsSequence(s)
    BY DEF IsSequence
  <1>11. \A j \in DOMAIN s : \E k \in DOMAIN c : s[j] = c[k] /\ c[k].name = name
    BY <1>8, <1>9
  <1>12. \A k \in DOMAIN c : c[k].name = name => \E j \in DOMAIN s : s[j] = c[k]
    BY <1>1, <1>8
  <1>13. s = Children(node, name)
    BY <1>8
  <1> HIDE DEF C
  <1>14. QED
    BY <1>10, <1>11, <1>12, <1>13, Zenon

\* What a policy of the document parses to.
LEMMA PolicyOfIs ==
    ASSUME document \in Documents, RootIsValid,
           NEW s \in DOMAIN Sections, Sections[s].name = "policies",
           NEW n \in DOMAIN Sections[s].children, NEW node, node = Sections[s].children[n],
           PolicyParses(node), NEW p, p = PolicyOf(node)
    PROVE  /\ IsSequence(p.secrets) /\ IsSequence(p.proxied)
           /\ \A i \in DOMAIN p.proxied : p.proxied[i].upstream \in Seq(Pieces)
  <1>1. 1 \in DOMAIN document
    BY SectionsAre
  <1>2. /\ IsSequence(node.children)
        /\ \A k \in DOMAIN node.children : IsSequence(node.children[k].children)
    <2> DEFINE entries == Sections[s].children
    <2>1. \A m \in DOMAIN entries :
            /\ IsSequence(entries[m].children)
            /\ \A k \in DOMAIN entries[m].children : IsSequence(entries[m].children[k].children)
      <3>1. \A r \in DOMAIN document : \A t \in DOMAIN document[r].children :
              \A m \in DOMAIN document[r].children[t].children :
                /\ IsSequence(document[r].children[t].children[m].children)
                /\ \A k \in DOMAIN document[r].children[t].children[m].children :
                     IsSequence(document[r].children[t].children[m].children[k].children)
        BY DocumentsAssumption
      <3>2. QED
        BY <1>1, <3>1 DEF Sections
    <2>2. n \in DOMAIN entries /\ node = entries[n]
      OBVIOUS
    <2> HIDE DEF entries
    <2>3. QED
      BY <2>1, <2>2
  <1>3. PICK direct, proxied :
          direct = Children(node, "secret") /\ proxied = Children(node, "proxy-secret")
    OBVIOUS
  <1>4. /\ IsSequence(direct) /\ IsSequence(proxied)
        /\ \A i \in DOMAIN proxied : \E k \in DOMAIN node.children :
              proxied[i] = node.children[k] /\ node.children[k].name = "proxy-secret"
    BY <1>2, <1>3, ChildrenAre
  <1>5. /\ DOMAIN p.secrets = DOMAIN direct /\ DOMAIN p.proxied = DOMAIN proxied
        /\ p.secrets = [i \in DOMAIN direct |-> p.secrets[i]]
        /\ p.proxied = [i \in DOMAIN proxied |-> p.proxied[i]]
        /\ \A i \in DOMAIN proxied : p.proxied[i].upstream = SettingOf(proxied[i], "upstream")
    BY <1>3 DEF PolicyOf
  <1>6. IsSequence(p.secrets) /\ IsSequence(p.proxied)
    <2>1. \A x, f : IsSequence(x) /\ f = [i \in DOMAIN x |-> f[i]] => IsSequence(f)
      <3> SUFFICES ASSUME NEW x, NEW f, IsSequence(x), f = [i \in DOMAIN x |-> f[i]]
                   PROVE  IsSequence(f)
        OBVIOUS
      <3>1. Len(x) \in Nat /\ DOMAIN f = 1..Len(x)
        BY DEF IsSequence
      <3>2. f \in Seq({f[i] : i \in 1..Len(x)})
        BY <3>1
      <3>3. QED
        BY <3>2 DEF IsSequence
    <2>2. QED
      BY <1>4, <1>5, <2>1
  <1>7. ASSUME NEW i \in DOMAIN proxied PROVE SettingOf(proxied[i], "upstream") \in Seq(Pieces)
    <2>1. PICK k \in DOMAIN node.children :
            proxied[i] = node.children[k] /\ node.children[k].name = "proxy-secret"
      BY <1>4
    <2>2. PICK x : x = node.children[k]
      OBVIOUS
    <2>3. ProxySecretParses(x) /\ IsSequence(x.children)
      BY <1>2, <2>1, <2>2 DEF PolicyParses
    <2>4. Once(x, "upstream") /\ Single(Children(x, "upstream")[1])
      BY <2>3 DEF ProxySecretParses, SingleSettings
    <2>5. 1 \in DOMAIN Children(x, "upstream")
      <3>1. IsSequence(Children(x, "upstream"))
        BY <2>3, ChildrenAre
      <3>2. QED
        BY <2>4, <3>1 DEF Once, IsSequence
    <2>6. PICK m \in DOMAIN x.children :
            Children(x, "upstream")[1] = x.children[m] /\ x.children[m].name = "upstream"
      BY <2>3, <2>5, ChildrenAre
    <2>7. x.children[m].args[1] \in Seq(Pieces)
      BY <1>1, <2>2, <2>4, <2>6, UpstreamsAssumption DEF Sections
    <2>8. QED
      BY <2>1, <2>2, <2>6, <2>7 DEF SettingOf
  <1>8. QED
    BY <1>5, <1>6, <1>7

-----------------------------------------------------------------------------

LEMMA NodeIs ==
    ASSUME NEW l \in Lists, At(l)
    PROVE  <<section, index>> \in Positions(l) /\ NodeAt(<<section, index>>) = Node
  <1>1. <<section, index>>[1] = section /\ <<section, index>>[2] = index
    OBVIOUS
  <1>2. QED
    BY <1>1, PositionIs DEF At, NodeAt, Node

-----------------------------------------------------------------------------
(* The invariant holds at the start.                                       *)

LEMMA InitInv == Init => IInv
  <1> SUFFICES ASSUME Init PROVE IInv
    OBVIOUS
  <1>1. /\ document \in Documents /\ phase = "reading" /\ section = 1 /\ index = 1
        /\ config = [l \in Lists |-> <<>>] /\ \A l \in Lists : config[l] = <<>>
    BY DEF Init
  <1>2. phase \notin Active /\ phase # "rejected" /\ phase \notin Lists
    BY <1>1 DEF Active, Lists
  <1>3. TypeInv
    BY <1>1 DEF TypeInv
  <1>4. RootInv
    BY <1>1, <1>2 DEF RootInv, Active
  <1>5. ImageInv
    BY <1>1 DEF ImageInv
  <1>6. MatchInv /\ VerdictInv
    BY <1>2 DEF MatchInv, VerdictInv
  <1>7. CheckedInv
    BY <1>1 DEF CheckedInv
  <1>8. QED
    BY <1>3, <1>4, <1>5, <1>6, <1>7 DEF IInv

-----------------------------------------------------------------------------
(* The document does not change, and only ParseNode changes the lists.     *)

LEMMA SameDocument ==
    ASSUME document' = document
    PROVE  /\ Sections' = Sections /\ (RootIsValid)' = RootIsValid /\ (WellFormed)' = WellFormed
           /\ \A l : Positions(l)' = Positions(l) /\ Entries(l)' = Entries(l)
           /\ \A p : NodeAt(p)' = NodeAt(p)
           /\ \A l, p : EntryAt(l, p)' = EntryAt(l, p)
  BY DEF Sections, RootIsValid, WellFormed, Positions, Entries, NodeAt, EntryAt

LEMMA SameConfig ==
    ASSUME config' = config
    PROVE  \A l, i : EntryIsValid(l, i)' = EntryIsValid(l, i)
  BY DEF EntryIsValid, Lookup

LEMMA DocumentStays == [Next]_vars => document' = document
  BY DEF Next, vars, LoadFails, ReadRoot, RejectRoot, RejectSection, NextSection,
         EndOfSections, ParseNode, RejectNode, CheckEntry, RejectEntry, NextList

\* A step of the load leaves the lists alone, or parses one node.
LEMMA ConfigStays ==
    ASSUME [Next]_vars
    PROVE  config' = config \/ \E l \in Lists : ParseNode(l)
  BY DEF Next, vars, LoadFails, ReadRoot, RejectRoot, RejectSection, NextSection,
         EndOfSections, RejectNode, CheckEntry, RejectEntry, NextList

\* What ParseNode adds is the entry of the node the cursor is at.
LEMMA ParseAdds ==
    ASSUME TypeInv, NEW l \in Lists, ParseNode(l)
    PROVE  /\ <<section, index>> \in Positions(l)
           /\ Parses(l, NodeAt(<<section, index>>))
           /\ config'[l] = Append(config[l], EntryAt(l, <<section, index>>))
           /\ config'[l] \in Seq(Entries(l)) /\ config[l] \in Seq(Entries(l))
           /\ EntryAt(l, <<section, index>>) \in Entries(l)
           /\ DOMAIN config' = Lists
           /\ \A m \in Lists \ {l} : config'[m] = config[m]
  <1>1. <<section, index>> \in Positions(l) /\ NodeAt(<<section, index>>) = Node
    BY NodeIs DEF ParseNode
  <1>2. EntryAt(l, <<section, index>>) = Parsed(l, Node)
    BY <1>1 DEF EntryAt
  <1>3. EntryAt(l, <<section, index>>) \in Entries(l)
    BY <1>1 DEF Entries
  <1>4. DOMAIN config = Lists /\ config[l] \in Seq(Entries(l))
    BY DEF TypeInv
  <1>5. /\ config' = [config EXCEPT ![l] = Append(@, Parsed(l, Node))]
        /\ Parses(l, Node)
    BY DEF ParseNode
  <1>6. config'[l] = Append(config[l], EntryAt(l, <<section, index>>))
    BY <1>2, <1>4, <1>5
  <1>7. QED
    BY <1>1, <1>3, <1>4, <1>5, <1>6

-----------------------------------------------------------------------------
(* The types.                                                              *)

LEMMA TypeStep == TypeInv /\ [Next]_vars => TypeInv'
  <1> SUFFICES ASSUME TypeInv, [Next]_vars PROVE TypeInv'
    OBVIOUS
  <1>1. document' = document
    BY DocumentStays
  <1>2. document' \in Documents /\ \A l : Entries(l)' = Entries(l)
    BY <1>1, SameDocument DEF TypeInv
  <1>3. DOMAIN config' = Lists /\ \A m \in Lists : config'[m] \in Seq(Entries(m))
    <2>1. CASE config' = config
      BY <2>1 DEF TypeInv
    <2>2. ASSUME NEW l \in Lists, ParseNode(l)
          PROVE  DOMAIN config' = Lists /\ \A m \in Lists : config'[m] \in Seq(Entries(m))
      BY <2>2, ParseAdds DEF TypeInv
    <2>3. QED
      BY <2>1, <2>2, ConfigStays
  <1>4. /\ section' \in Nat \ {0} /\ index' \in Nat \ {0}
        /\ phase' \in Lists \cup {"reading", "parsing", "accepted", "rejected", "unreadable"}
    BY DEF TypeInv, Next, vars, Goes, LoadFails, ReadRoot, RejectRoot, RejectSection,
           NextSection, EndOfSections, ParseNode, RejectNode, CheckEntry, RejectEntry,
           NextList, ListAfter, Lists
  <1>5. QED
    BY <1>2, <1>3, <1>4 DEF TypeInv

-----------------------------------------------------------------------------
(* The root and the sections.                                              *)

LEMMA RootStep == TypeInv /\ RootInv /\ [Next]_vars => RootInv'
  <1> SUFFICES ASSUME TypeInv, RootInv, [Next]_vars PROVE RootInv'
    OBVIOUS
  <1> USE DEF Active, Lists
  <1>1. /\ document' = document /\ Sections' = Sections
        /\ (RootIsValid)' = RootIsValid
    BY DocumentStays, SameDocument
  <1>2. phase' \in {"reading", "unreadable"} =>
           section' = 1 /\ index' = 1 /\ config' = [l \in Lists |-> <<>>]
    BY DEF RootInv, Next, vars, Goes, LoadFails, ReadRoot, RejectRoot, RejectSection,
           NextSection, EndOfSections, ParseNode, At, RejectNode, CheckEntry, RejectEntry,
           NextList, ListAfter
  <1>3. ASSUME phase' \in Active
        PROVE  RootIsValid /\ \A s \in DOMAIN Sections : s < section' => Sections[s].name \in Lists
    <2>1. CASE ReadRoot
      BY <2>1 DEF RootInv, ReadRoot, Goes, TypeInv
    <2>2. CASE NextSection
      <3>1. /\ phase \in Active /\ section' = section + 1 /\ section \in Nat
            /\ Sections[section].name \in Lists
        BY <2>2 DEF NextSection, TypeInv
      <3>2. RootIsValid
        BY <3>1 DEF RootInv
      <3>3. IsSequence(Sections)
        BY <3>2, SectionsAre DEF TypeInv
      <3>4. ASSUME NEW s \in DOMAIN Sections, s < section' PROVE Sections[s].name \in Lists
        <4>1. s < section \/ s = section
          BY <3>1, <3>3, <3>4 DEF IsSequence
        <4>2. QED
          BY <4>1, <3>1 DEF RootInv
      <3>5. QED
        BY <3>2, <3>4
    <2>3. CASE section' = section /\ phase \in Active
      BY <2>3 DEF RootInv
    <2>4. ReadRoot \/ NextSection \/ (section' = section /\ phase \in Active)
      BY <1>3 DEF Next, vars, Goes, LoadFails, RejectRoot, RejectSection,
           EndOfSections, ParseNode, At, RejectNode, CheckEntry, RejectEntry, NextList
    <2>5. QED
      BY <2>1, <2>2, <2>3, <2>4
  <1>4. phase' \in Lists \cup {"accepted"} => section' = Len(Sections) + 1
    BY DEF RootInv, Next, vars, Goes, LoadFails, ReadRoot, RejectRoot, RejectSection,
           NextSection, EndOfSections, ParseNode, At, RejectNode, CheckEntry, RejectEntry,
           NextList
  <1>5. QED
    BY <1>1, <1>2, <1>3, <1>4 DEF RootInv

-----------------------------------------------------------------------------
(* The entries and the positions.                                          *)

LEMMA ImageStep == TypeInv /\ RootInv /\ ImageInv /\ [Next]_vars => ImageInv'
  <1> SUFFICES ASSUME TypeInv, RootInv, ImageInv, [Next]_vars PROVE ImageInv'
    OBVIOUS
  <1> DEFINE Parse(m, e) == /\ RootIsValid
                         /\ \E p \in Positions(m) : Parses(m, NodeAt(p)) /\ e = EntryAt(m, p)
  <1>1. ImageInv' <=> \A m \in Lists : \A i \in DOMAIN config'[m] : Parse(m, config'[m][i])
    BY DocumentStays, SameDocument DEF ImageInv
  <1>2. \A m \in Lists : \A i \in DOMAIN config[m] : Parse(m, config[m][i])
    BY DEF ImageInv
  <1>3. CASE config' = config
    BY <1>1, <1>2, <1>3
  <1>4. ASSUME NEW l \in Lists, ParseNode(l) PROVE ImageInv'
    <2> DEFINE e == EntryAt(l, <<section, index>>)
    <2>1. /\ Parse(l, e)
          /\ config'[l] = Append(config[l], e)
          /\ config[l] \in Seq(Entries(l)) /\ e \in Entries(l)
          /\ \A m \in Lists \ {l} : config'[m] = config[m]
      BY <1>4, ParseAdds DEF ParseNode, At, RootInv, Active
    <2> HIDE DEF e, Parse
    <2>2. ASSUME NEW i \in DOMAIN config'[l] PROVE Parse(l, config'[l][i])
      <3>1. (i \in DOMAIN config[l] /\ config'[l][i] = config[l][i]) \/ config'[l][i] = e
        BY <2>1
      <3>2. QED
        BY <3>1, <2>1, <1>2
    <2>3. QED
      BY <2>1, <2>2, <1>1, <1>2
  <1>5. QED
    BY <1>3, <1>4, ConfigStays

\* A step of the parse reads the node of the cursor, or nothing.
LEMMA ReadStays ==
    ASSUME TypeInv, RootInv, [Next]_vars, phase' \in Active, phase \in Active,
           config' = config
    PROVE  \A l : Read(l)' = Read(l)
  <1> USE DEF Active, Lists
  <1>1. \A l : Positions(l)' = Positions(l)
    BY DocumentStays, SameDocument
  <1>2. RootIsValid /\ IsSequence(Sections) /\ \A s \in DOMAIN Sections : IsSequence(Sections[s].children)
    BY SectionsAre DEF RootInv, TypeInv
  <1>3. \A l : \A p \in Positions(l) :
           /\ p[1] \in DOMAIN Sections /\ p[1] \in Nat /\ p[1] <= Len(Sections)
           /\ p[2] \in 1..Len(Sections[p[1]].children)
           /\ Len(Sections[p[1]].children) \in Nat
    BY <1>2, PositionIs DEF IsSequence
  <1>4. CASE NextSection
    <2>1. /\ phase = "parsing" /\ phase' = "parsing" /\ section' = section + 1 /\ index' = 1
          /\ index = Len(Sections[section].children) + 1
      BY <1>4 DEF NextSection
    <2>2. ASSUME NEW l, NEW p \in Positions(l)
          PROVE  (p[1] < section' \/ (p[1] = section' /\ p[2] < index'))
                   <=> (p[1] < section \/ (p[1] = section /\ p[2] < index))
      BY <2>1, <1>3 DEF TypeInv
    <2>3. QED
      BY <1>1, <2>1, <2>2 DEF Read
  <1>5. CASE EndOfSections
    <2>1. /\ phase = "parsing" /\ phase' = "providers" /\ section' = section
          /\ section = Len(Sections) + 1
      BY <1>5 DEF EndOfSections, Goes
    <2>2. ASSUME NEW l, NEW p \in Positions(l)
          PROVE  p[1] < section /\ p[1] < section'
      BY <2>1, <1>3, <1>2 DEF IsSequence
    <2>3. QED
      BY <1>1, <2>1, <2>2 DEF Read
  <1>6. CASE UNCHANGED <<phase, section, index>>
    BY <1>1, <1>6 DEF Read
  <1>7. CASE phase # "parsing" /\ phase' # "parsing" /\ section' = section
    BY <1>1, <1>7 DEF Read
  <1>8. NextSection \/ EndOfSections \/ UNCHANGED <<phase, section, index>>
          \/ (phase # "parsing" /\ phase' # "parsing" /\ section' = section)
          \/ \E l \in Lists : ParseNode(l)
    BY DEF Next, vars, Goes, LoadFails, ReadRoot, RejectRoot, RejectSection,
           RejectNode, CheckEntry, RejectEntry, NextList, ListAfter
  <1>9. ASSUME NEW l \in Lists, ParseNode(l) PROVE FALSE
    <2>1. config'[l] = Append(config[l], EntryAt(l, <<section, index>>))
          /\ config[l] \in Seq(Entries(l)) /\ EntryAt(l, <<section, index>>) \in Entries(l)
      BY <1>9, ParseAdds
    <2>2. Len(config'[l]) = Len(config[l]) + 1 /\ Len(config[l]) \in Nat
      BY <2>1
    <2>3. QED
      BY <2>2
  <1>10. QED
    BY <1>4, <1>5, <1>6, <1>7, <1>8, <1>9

LEMMA ReadGrows ==
    ASSUME TypeInv, RootInv, NEW l \in Lists, ParseNode(l), document' = document
    PROVE  /\ Read(l)' = Read(l) \cup {<<section, index>>}
           /\ <<section, index>> \notin Read(l)
           /\ \A m \in Lists \ {l} : Read(m)' = Read(m)
  <1> USE DEF Active, Lists
  <1>1. /\ phase = "parsing" /\ phase' = "parsing" /\ section' = section /\ index' = index + 1
        /\ Sections[section].name = l
    BY DEF ParseNode, At
  <1>2. \A m : Positions(m)' = Positions(m)
    BY SameDocument
  <1>3. RootIsValid /\ IsSequence(Sections) /\ \A s \in DOMAIN Sections : IsSequence(Sections[s].children)
    BY <1>1, SectionsAre DEF RootInv, TypeInv
  <1>4. \A m : \A p \in Positions(m) :
           /\ p = <<p[1], p[2]>> /\ p[1] \in Nat /\ p[2] \in Nat /\ Sections[p[1]].name = m
    BY <1>3, PositionIs DEF IsSequence
  <1>5. <<section, index>> \in Positions(l) /\ section \in Nat /\ index \in Nat
    BY ParseAdds DEF TypeInv
  <1>6. ASSUME NEW p \in Positions(l)
        PROVE  (p[1] < section \/ (p[1] = section /\ p[2] < index + 1))
                 <=> (p[1] < section \/ (p[1] = section /\ p[2] < index)) \/ p = <<section, index>>
    <2>1. p[1] \in Nat /\ p[2] \in Nat /\ p = <<p[1], p[2]>>
      BY <1>4
    <2>2. p[2] < index + 1 <=> p[2] < index \/ p[2] = index
      BY <2>1, <1>5
    <2>3. p = <<section, index>> <=> p[1] = section /\ p[2] = index
      BY <2>1
    <2>4. QED
      BY <2>2, <2>3
  <1>7. Read(l)' = Read(l) \cup {<<section, index>>}
    BY <1>1, <1>2, <1>5, <1>6 DEF Read
  <1>8. <<section, index>> \notin Read(l)
    BY <1>5 DEF Read
  <1>9. ASSUME NEW m \in Lists \ {l}, NEW p \in Positions(m) PROVE p[1] # section
    BY <1>4, <1>1, <1>9
  <1>10. \A m \in Lists \ {l} : Read(m)' = Read(m)
    BY <1>1, <1>2, <1>9 DEF Read
  <1>11. QED
    BY <1>7, <1>8, <1>10

LEMMA MatchStep == TypeInv /\ RootInv /\ MatchInv /\ [Next]_vars => MatchInv'
  <1> SUFFICES ASSUME TypeInv, RootInv, MatchInv, [Next]_vars, phase' \in Active, NEW l \in Lists
               PROVE  /\ \A p \in Read(l)' : Parses(l, NodeAt(p)')
                      /\ \E f \in [DOMAIN config'[l] -> Read(l)'] : Matches(l, f)'
    BY DEF MatchInv
  <1>1. /\ document' = document /\ \A p : NodeAt(p)' = NodeAt(p)
        /\ \A m, p : EntryAt(m, p)' = EntryAt(m, p)
    BY DocumentStays, SameDocument
  <1>2. ASSUME phase \in Active
        PROVE  /\ \A p \in Read(l) : Parses(l, NodeAt(p))
               /\ \E f \in [DOMAIN config[l] -> Read(l)] : Matches(l, f)
    BY <1>2 DEF MatchInv
  <1>3. CASE phase \in Active /\ config' = config
    <2>1. Read(l)' = Read(l)
      BY <1>3, ReadStays
    <2>2. \A f : Matches(l, f)' <=> Matches(l, f)
      BY <2>1, <1>1, <1>3 DEF Matches
    <2>3. QED
      BY <2>1, <2>2, <1>1, <1>2, <1>3
  <1>4. CASE phase \notin Active
    <2>1. ReadRoot
      BY <1>4 DEF Active, Lists, Next, vars, Goes, LoadFails, RejectRoot, RejectSection,
           NextSection, EndOfSections, ParseNode, At, RejectNode, CheckEntry, RejectEntry, NextList
    <2>2. section' = 1 /\ index' = 1 /\ config'[l] = <<>> /\ RootIsValid
      BY <2>1 DEF ReadRoot, Goes, RootInv
    <2>3. IsSequence(Sections) /\ \A s \in DOMAIN Sections : IsSequence(Sections[s].children)
      BY <2>2, SectionsAre DEF TypeInv
    <2>4. \A p \in Positions(l) : p[1] \in Nat \ {0} /\ p[2] \in Nat \ {0}
      BY <2>3, PositionIs DEF IsSequence
    <2>5. Positions(l)' = Positions(l)
      BY <1>1, SameDocument
    <2>6. Read(l)' = {}
      BY <2>2, <2>4, <2>5 DEF Read
    <2>7. DOMAIN config'[l] = {}
      BY <2>2
    <2>8. [x \in {} |-> x] \in [DOMAIN config'[l] -> Read(l)']
      BY <2>7
    <2>9. Matches(l, [x \in {} |-> x])'
      BY <2>6, <2>7 DEF Matches
    <2>10. QED
      BY <2>6, <2>8, <2>9
  <1>5. ASSUME phase \in Active, NEW m \in Lists, ParseNode(m), m # l
        PROVE  /\ \A p \in Read(l)' : Parses(l, NodeAt(p)')
               /\ \E f \in [DOMAIN config'[l] -> Read(l)'] : Matches(l, f)'
    <2>1. Read(l)' = Read(l) /\ config'[l] = config[l]
      BY <1>1, <1>5, ReadGrows, ParseAdds
    <2>2. \A f : Matches(l, f)' <=> Matches(l, f)
      BY <2>1, <1>1 DEF Matches
    <2>3. QED
      BY <2>1, <2>2, <1>1, <1>2, <1>5
  <1>6. ASSUME phase \in Active, ParseNode(l)
        PROVE  /\ \A p \in Read(l)' : Parses(l, NodeAt(p)')
               /\ \E f \in [DOMAIN config'[l] -> Read(l)'] : Matches(l, f)'
    <2> DEFINE here == <<section, index>>
               n    == Len(config[l]) + 1
    <2>1. /\ Read(l)' = Read(l) \cup {here} /\ here \notin Read(l)
          /\ Parses(l, NodeAt(here))
          /\ config'[l] = Append(config[l], EntryAt(l, here))
          /\ config[l] \in Seq(Entries(l)) /\ EntryAt(l, here) \in Entries(l)
      BY <1>1, <1>6, ReadGrows, ParseAdds
    <2> HIDE DEF here
    <2>2. PICK f \in [DOMAIN config[l] -> Read(l)] : Matches(l, f)
      BY <1>2, <1>6
    <2>3. /\ n \in Nat \ {0} /\ DOMAIN config[l] = 1..(n - 1) /\ DOMAIN config'[l] = 1..n
          /\ config'[l][n] = EntryAt(l, here)
          /\ \A i \in 1..(n - 1) : config'[l][i] = config[l][i]
      BY <2>1
    <2> HIDE DEF n
    <2>4. PICK g : g = [i \in 1..n |-> IF i = n THEN here ELSE f[i]]
      OBVIOUS
    <2>5. /\ g[n] = here
          /\ \A i \in 1..(n - 1) : i \in 1..n /\ g[i] = f[i] /\ f[i] \in Read(l)
          /\ \A i \in 1..n : i = n \/ i \in 1..(n - 1)
      BY <2>2, <2>3, <2>4
    <2>6. g \in [DOMAIN config'[l] -> Read(l)']
      BY <2>1, <2>3, <2>4, <2>5
    <2>7. \A i \in 1..n : config'[l][i] = EntryAt(l, g[i])
      BY <2>2, <2>3, <2>5 DEF Matches
    <2>8. \A i, j \in 1..n : g[i] = g[j] => i = j
      BY <2>1, <2>2, <2>3, <2>5 DEF Matches
    <2>9. \A p \in Read(l)' : \E i \in 1..n : g[i] = p
      <3>1. \A p \in Read(l) : \E i \in 1..(n - 1) : f[i] = p
        BY <2>2, <2>3 DEF Matches
      <3>2. n \in 1..n
        BY <2>3
      <3>3. QED
        BY <3>1, <3>2, <2>1, <2>5
    <2>10. Matches(l, g)'
      BY <2>3, <2>7, <2>8, <2>9, <1>1 DEF Matches
    <2>11. \A p \in Read(l)' : Parses(l, NodeAt(p)')
      BY <2>1, <1>1, <1>2, <1>6
    <2>12. QED
      BY <2>6, <2>10, <2>11
  <1>7. QED
    BY <1>3, <1>4, <1>5, <1>6, ConfigStays

-----------------------------------------------------------------------------
(* The entries that have been validated.                                   *)

LEMMA CheckedStep == TypeInv /\ CheckedInv /\ [Next]_vars => CheckedInv'
  <1> SUFFICES ASSUME TypeInv, CheckedInv, [Next]_vars,
                      NEW l \in Lists, NEW i \in DOMAIN config'[l], Checked(l, i)'
               PROVE  EntryIsValid(l, i)'
    BY DEF CheckedInv
  <1> USE DEF Lists
  <1>1. ASSUME NEW m \in Lists, ParseNode(m) PROVE FALSE
    BY <1>1 DEF ParseNode, At, Checked
  <1>2. config' = config /\ EntryIsValid(l, i)' = EntryIsValid(l, i)
    BY <1>1, ConfigStays, SameConfig
  <1>3. i \in Nat /\ i \in 1..Len(config[l]) /\ Len(config[l]) \in Nat /\ index \in Nat \ {0}
    BY <1>2 DEF TypeInv
  <1>4. CASE Checked(l, i)
    BY <1>2, <1>4 DEF CheckedInv
  <1>5. CASE ~Checked(l, i)
    <2>1. CASE CheckEntry(l)
      <3>1. index' = index + 1 /\ phase = l /\ phase' = l
        BY <2>1 DEF CheckEntry
      <3>2. i < index + 1
        BY <3>1 DEF Checked
      <3>3. i = index
        BY <3>1, <3>2, <1>3, <1>5 DEF Checked
      <3>4. QED
        BY <3>3, <2>1, <1>2 DEF CheckEntry
    <2>2. ASSUME NEW m \in Lists, NextList(m) PROVE FALSE
      <3>1. index = Len(config[m]) + 1 /\ phase = m /\ phase' = ListAfter(m) /\ index' = 1
        BY <2>2 DEF NextList, Goes
      <3>2. phase = l => Checked(l, i)
        BY <3>1, <1>3 DEF Checked
      <3>3. ~(i < index')
        BY <3>1, <1>3
      <3>4. QED
        BY <3>1, <3>2, <3>3, <1>5 DEF Checked, ListAfter
    <2>3. CASE EndOfSections
      BY <2>3, <1>3 DEF EndOfSections, Goes, Checked
    <2>4. CASE UNCHANGED vars
      BY <2>4, <1>5 DEF Checked, vars
    <2>5. CASE ReadRoot \/ NextSection
      BY <2>5 DEF ReadRoot, NextSection, Goes, Checked
    <2>6. CASE \/ LoadFails \/ RejectRoot \/ RejectSection
               \/ \E m \in Lists : RejectNode(m) \/ RejectEntry(m)
      BY <2>6 DEF LoadFails, RejectRoot, RejectSection, RejectNode, RejectEntry, Goes, Checked
    <2>7. ASSUME NEW m \in Lists, m # l, CheckEntry(m) PROVE FALSE
      BY <2>7, <1>5 DEF CheckEntry, Checked
    <2>8. QED
      BY <2>1, <2>2, <2>3, <2>4, <2>5, <2>6, <2>7, <1>1 DEF Next
  <1>6. QED
    BY <1>4, <1>5

-----------------------------------------------------------------------------
(* The verdict.                                                            *)

\* Once the parse is over, the entries are those of the whole document.
LEMMA AllIsRead ==
    ASSUME TypeInv, RootInv, phase \in Lists \cup {"accepted"}
    PROVE  \A l : Read(l) = Positions(l)
  <1>1. RootIsValid /\ section = Len(Sections) + 1
    BY DEF RootInv, Active
  <1>2. IsSequence(Sections)
    BY <1>1, SectionsAre DEF TypeInv
  <1>3. \A l : \A p \in Positions(l) : p[1] < section
    BY <1>1, <1>2, PositionIs DEF IsSequence
  <1>4. QED
    BY <1>3 DEF Read

\* An entry of a document that is well-formed is not rejected.
LEMMA WellFormedIsValid ==
    ASSUME TypeInv, RootInv, MatchInv, WellFormed, NEW l \in Lists, phase = l,
           index \in DOMAIN config[l]
    PROVE  EntryIsValid(l, index)
  <1>1. \A m \in Lists : \E f \in [DOMAIN config[m] -> Positions(m)] : Matches(m, f)
    BY AllIsRead DEF MatchInv, Active
  <1>2. \A m : Read(m) = Positions(m)
    BY AllIsRead
  <1>3. PICK f \in [DOMAIN config[l] -> Positions(l)] : Matches(l, f)
    BY <1>1
  <1>4. \A j \in 1..(index - 1) : config[l][j].id # config[l][index].id
    <2>1. \A j \in 1..(index - 1) : j \in DOMAIN config[l] /\ j # index
      BY DEF TypeInv
    <2>2. \A p, q \in Positions(l) : EntryAt(l, p).id = EntryAt(l, q).id => p = q
      BY DEF WellFormed
    <2>3. QED
      BY <2>1, <2>2, <1>3 DEF Matches
  <1>5. config[l][index] = EntryAt(l, f[index]) /\ f[index] \in Positions(l)
    BY <1>3 DEF Matches
  <1>6. IsSound(l, config[l][index])
    BY <1>5 DEF WellFormed
  <1>7. ASSUME l = "policies", NEW id \in References(config[l][index])
        PROVE  Lookup("providers", id) # {}
    <2>1. PICK q \in Positions("providers") : EntryAt("providers", q).id = id
      BY <1>5, <1>7 DEF WellFormed
    <2>2. "providers" \in Lists
      BY DEF Lists
    <2>3. PICK g \in [DOMAIN config["providers"] -> Positions("providers")] :
             Matches("providers", g)
      BY <1>1, <2>2
    <2>4. \E i \in DOMAIN config["providers"] : config["providers"][i].id = id
      BY <2>1, <2>3, <1>2 DEF Matches
    <2>5. config["providers"] \in Seq(Entries("providers"))
      BY <2>2 DEF TypeInv
    <2>6. QED
      BY <2>4, <2>5, LookupFinds
  <1>8. QED
    BY <1>4, <1>6, <1>7 DEF EntryIsValid

LEMMA VerdictStep ==
    TypeInv /\ RootInv /\ MatchInv /\ VerdictInv /\ [Next]_vars => VerdictInv'
  <1> SUFFICES ASSUME TypeInv, RootInv, MatchInv, VerdictInv, [Next]_vars,
                      phase' = "rejected", WellFormed
               PROVE  FALSE
    BY DocumentStays, SameDocument DEF VerdictInv
  <1> USE DEF Lists
  <1>1. CASE UNCHANGED vars
    BY <1>1 DEF vars, VerdictInv
  <1>2. CASE RejectRoot
    BY <1>2 DEF RejectRoot, WellFormed
  <1>3. CASE RejectSection
    BY <1>3 DEF RejectSection, WellFormed
  <1>4. ASSUME NEW l \in Lists, RejectNode(l) PROVE FALSE
    <2>1. <<section, index>> \in Positions(l) /\ NodeAt(<<section, index>>) = Node
      BY <1>4, NodeIs DEF RejectNode
    <2>2. QED
      BY <2>1, <1>4 DEF RejectNode, WellFormed
  <1>5. ASSUME NEW l \in Lists, RejectEntry(l) PROVE FALSE
    BY <1>5, WellFormedIsValid DEF RejectEntry
  <1>6. UNCHANGED vars \/ RejectRoot \/ RejectSection
          \/ \E l \in Lists : RejectNode(l) \/ RejectEntry(l)
    BY DEF VerdictInv, Next, Goes, LoadFails, ReadRoot, NextSection, EndOfSections,
           ParseNode, At, CheckEntry, NextList, ListAfter
  <1>7. QED
    BY <1>1, <1>2, <1>3, <1>4, <1>5, <1>6

\* A document all of whose entries have passed the validation is well-formed.
LEMMA AcceptedIsWellFormed == IInv /\ phase = "accepted" => WellFormed
  <1> SUFFICES ASSUME TypeInv, RootInv, MatchInv, CheckedInv, phase = "accepted"
               PROVE  WellFormed
    BY DEF IInv
  <1>1. /\ RootIsValid /\ section = Len(Sections) + 1
        /\ \A s \in DOMAIN Sections : s < section => Sections[s].name \in Lists
    BY DEF RootInv, Active
  <1>2. \A s \in DOMAIN Sections : Sections[s].name \in Lists
    <2>1. IsSequence(Sections)
      BY <1>1, SectionsAre DEF TypeInv
    <2>2. \A s \in DOMAIN Sections : s < section
      BY <2>1, <1>1 DEF IsSequence
    <2>3. QED
      BY <2>2, <1>1
  <1>3. \A m : Read(m) = Positions(m)
    BY AllIsRead
  <1>4. \A m \in Lists : \A i \in DOMAIN config[m] : EntryIsValid(m, i)
    BY DEF CheckedInv, Checked
  <1>5. ASSUME NEW l \in Lists
        PROVE  \A p \in Positions(l) : Parses(l, NodeAt(p)) /\ \E i \in DOMAIN config[l] :
                  config[l][i] = EntryAt(l, p)
    BY <1>3 DEF MatchInv, Matches, Active
  <1>6. ASSUME NEW l \in Lists, NEW p \in Positions(l), NEW q \in Positions(l),
               EntryAt(l, p).id = EntryAt(l, q).id
        PROVE  p = q
    <2>1. PICK f \in [DOMAIN config[l] -> Positions(l)] : Matches(l, f)
      BY <1>3 DEF MatchInv, Active
    <2>2. PICK i, j \in DOMAIN config[l] : f[i] = p /\ f[j] = q
      BY <2>1, <1>3 DEF Matches
    <2>3. config[l][i].id = config[l][j].id
      BY <2>1, <2>2, <1>6 DEF Matches
    <2>4. i \in 1..Len(config[l]) /\ j \in 1..Len(config[l])
      BY DEF TypeInv
    <2>5. i = j \/ i \in 1..(j - 1) \/ j \in 1..(i - 1)
      BY <2>4
    <2>6. i = j
      BY <2>3, <2>5, <1>4 DEF EntryIsValid
    <2>7. QED
      BY <2>2, <2>6
  <1>7. ASSUME NEW l \in Lists, NEW p \in Positions(l) PROVE IsSound(l, EntryAt(l, p))
    BY <1>4, <1>5 DEF EntryIsValid
  <1>8. ASSUME NEW p \in Positions("policies"), NEW id \in References(EntryAt("policies", p))
        PROVE  \E q \in Positions("providers") : EntryAt("providers", q).id = id
    <2>1. "policies" \in Lists /\ "providers" \in Lists
      BY DEF Lists
    <2>2. PICK i \in DOMAIN config["policies"] : config["policies"][i] = EntryAt("policies", p)
      BY <2>1, <1>5
    <2>3. Lookup("providers", id) # {}
      BY <2>1, <2>2, <1>4, <1>8 DEF EntryIsValid
    <2>4. PICK j \in DOMAIN config["providers"] : config["providers"][j].id = id
      BY <2>3 DEF Lookup
    <2>5. PICK f \in [DOMAIN config["providers"] -> Positions("providers")] :
             Matches("providers", f)
      BY <1>3, <2>1 DEF MatchInv, Active
    <2>6. QED
      BY <2>4, <2>5 DEF Matches
  <1>9. QED
    BY <1>1, <1>2, <1>5, <1>6, <1>7, <1>8 DEF WellFormed

LEMMA NextInv == IInv /\ [Next]_vars => IInv'
  BY TypeStep, RootStep, ImageStep, MatchStep, CheckedStep, VerdictStep DEF IInv

-----------------------------------------------------------------------------
(* The theorems.                                                           *)

\* The invariant above holds in every state of a load.
THEOREM Invariant == Spec => []IInv
  <1>1. Init => IInv
    BY InitInv
  <1>2. IInv /\ [Next]_vars => IInv'
    BY NextInv
  <1>3. QED
    BY <1>1, <1>2, PTL DEF Spec

\* Every variable of the load has its type.
THEOREM Types == Spec => []TypeOK
  <1>1. IInv => TypeOK
    BY DEF IInv, TypeInv, TypeOK
  <1>2. QED
    BY <1>1, Invariant, PTL

\* A document is accepted only if every entry of it is sound, and rejected only
\* if one is not, wherever it stands (config::load, validate).
THEOREM VerdictIsExact == Spec => []VerdictCoversTheWhole
  <1>1. IInv => VerdictCoversTheWhole
    BY AcceptedIsWellFormed DEF IInv, VerdictInv, VerdictCoversTheWhole
  <1>2. QED
    BY <1>1, Invariant, PTL

\* Every upstream that is parsed is recognised as an origin just when it is one
\* (is_http_origin).
THEOREM OriginsAreExact == Spec => []OriginsAreRecognised
  <1>1. IInv => OriginsAreRecognised
    <2> SUFFICES ASSUME IInv, NEW i \in DOMAIN config["policies"],
                        NEW n \in DOMAIN config["policies"][i].proxied
                 PROVE  config["policies"][i].proxied[n].upstream \in Seq(Pieces)
      BY ScanIsExact DEF OriginsAreRecognised
    <2>1. "policies" \in Lists /\ document \in Documents
      BY DEF Lists, IInv, TypeInv
    <2>2. PICK p \in Positions("policies") :
             /\ Parses("policies", NodeAt(p))
             /\ config["policies"][i] = EntryAt("policies", p)
      BY <2>1 DEF IInv, ImageInv
    <2>3. PICK s \in DOMAIN Sections : Sections[s].name = "policies"
                  /\ \E k \in DOMAIN Sections[s].children : p = <<s, k>>
      BY PositionIs
    <2>4. PICK k \in DOMAIN Sections[s].children : p = <<s, k>>
      BY <2>3
    <2> DEFINE node == Sections[s].children[k]
    <2>5. NodeAt(p) = node
      BY <2>4 DEF NodeAt
    <2>6. PolicyParses(node) /\ config["policies"][i] = PolicyOf(node)
      BY <2>2, <2>5 DEF Parses, EntryAt, Parsed
    <2>7. RootIsValid
      BY <2>1 DEF IInv, ImageInv
    <2>8. QED
      BY <2>1, <2>3, <2>6, <2>7, PolicyOfIs
  <1>2. QED
    BY <1>1, Invariant, PTL

=============================================================================
