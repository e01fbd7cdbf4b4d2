----------------------------- MODULE ArgvProofs -----------------------------
(***************************************************************************)
(* What the runtime reads in the arguments that `build_argv` makes.  The   *)
(* reader is a recursive function over the positions of its arguments; an  *)
(* induction on how far a position is from the end shows that there is     *)
(* such a function, and another one that it takes the options of a policy  *)
(* for what they are, however many there are.                              *)
(***************************************************************************)
EXTENDS ConfiguredRunProofs, SequenceTheorems

-----------------------------------------------------------------------------
(* The reader.                                                             *)

NoMore(args, i) ==
    [env |-> {}, settings |-> {}, rest |-> SubSeq(args, i, Len(args))]

\* What Reads makes of position i, given what it makes of the later ones.
ReadStep(args, next, i) ==
    IF i > Len(args) \/ args[i] \notin Dashed THEN NoMore(args, i)
    ELSE IF args[i] \in {"--interactive", "--tty"} THEN next[i + 1]
    ELSE IF args[i] = "--env" /\ i < Len(args)
      THEN [next[i + 2] EXCEPT !.env = @ \cup {args[i + 1]}]
    ELSE IF args[i] \in {"--user", "--workdir"} /\ i < Len(args)
      THEN [next[i + 2] EXCEPT !.settings = @ \cup {<<args[i], args[i + 1]>>}]
    ELSE NoMore(args, Len(args) + 1)

\* A position is read like this whatever the function is before it.
LEMMA ReadsAhead ==
    ASSUME NEW args, Len(args) \in Nat, NEW i \in Nat, NEW f, NEW g,
           \A k \in (i + 1)..(Len(args) + 1) : f[k] = g[k]
    PROVE  ReadStep(args, f, i) = ReadStep(args, g, i)
  <1>1. CASE i > Len(args) \/ args[i] \notin Dashed
    BY <1>1, Zenon DEF ReadStep
  <1>2. CASE i <= Len(args)
    <2>1. f[i + 1] = g[i + 1]
      BY <1>2
    <2>2. i < Len(args) => f[i + 2] = g[i + 2]
      OBVIOUS
    <2>3. QED
      BY <2>1, <2>2, Zenon DEF ReadStep
  <1>3. QED
    BY <1>1, <1>2

Reader(args, f) == f = [i \in 3..(Len(args) + 1) |-> ReadStep(args, f, i)]

\* A function that reads from a position on.
ReaderFrom(args, m, f) == f = [i \in m..(Len(args) + 1) |-> ReadStep(args, f, i)]

LEMMA OneMore ==
    ASSUME NEW args, Len(args) \in Nat, NEW m \in 1..(Len(args) + 1),
           NEW f, ReaderFrom(args, m + 1, f)
    PROVE  \E g : ReaderFrom(args, m, g)
  <1> DEFINE n == Len(args) + 1
             g == [i \in m..n |-> IF i = m THEN ReadStep(args, f, m) ELSE f[i]]
  <1>1. n \in Nat /\ m \in Nat /\ n = Len(args) + 1
    OBVIOUS
  <1>2. \A k \in (m + 1)..n : g[k] = f[k] /\ f[k] = ReadStep(args, f, k)
    <2>1. f = [i \in (m + 1)..n |-> ReadStep(args, f, i)]
      BY DEF ReaderFrom
    <2>2. \A k \in (m + 1)..n : k \in m..n /\ k # m
      OBVIOUS
    <2>3. \A k \in (m + 1)..n : g[k] = f[k]
      BY <2>2, Zenon
    <2>4. \A k \in (m + 1)..n : f[k] = [i \in (m + 1)..n |-> ReadStep(args, f, i)][k]
      BY <2>1, Zenon
    <2>5. QED
      BY <2>3, <2>4, Zenon
  <1>3. g[m] = ReadStep(args, f, m)
    BY <1>1
  <1>4. g = [i \in m..n |-> g[i]]
    OBVIOUS
  <1> HIDE DEF g, n
  <1>5. ASSUME NEW i \in m..n PROVE g[i] = ReadStep(args, g, i)
    <2>1. \A k \in (i + 1)..n : k \in (m + 1)..n
      BY <1>1
    <2>2. \A k \in (i + 1)..(Len(args) + 1) : f[k] = g[k]
      BY <2>1, <1>1, <1>2
    <2>3. i \in Nat
      BY <1>1
    <2>4. ReadStep(args, f, i) = ReadStep(args, g, i)
      BY <2>2, <2>3, ReadsAhead
    <2>5. i = m \/ i \in (m + 1)..n
      BY <1>1
    <2>6. QED
      BY <2>4, <2>5, <1>2, <1>3
  <1>6. g = [i \in m..n |-> ReadStep(args, g, i)]
    BY <1>4, <1>5, Zenon
  <1>7. QED
    BY <1>6 DEF ReaderFrom, n

LEMMA ReaderExists ==
    ASSUME NEW args, Len(args) \in Nat, Len(args) >= 3
    PROVE  \E f : Reader(args, f)
  <1> DEFINE n == Len(args) - 2
             S == {j \in 0..n : \E f : ReaderFrom(args, n + 3 - j, f)}
  <1>1. n \in Nat /\ Len(args) = n + 2
    OBVIOUS
  <1>2. 0 \in S
    <2> DEFINE g == [i \in {n + 3} |-> NoMore(args, n + 3)]
    <2>1. \A f : ReadStep(args, f, n + 3) = NoMore(args, n + 3)
      <3>1. n + 3 > Len(args)
        BY <1>1
      <3>2. QED
        BY <3>1, Zenon DEF ReadStep
    <2>2. (n + 3)..(Len(args) + 1) = {n + 3}
      BY <1>1
    <2> HIDE DEF n
    <2>3. g = [i \in {n + 3} |-> ReadStep(args, g, i)]
      BY <2>1, Zenon
    <2>4. ReaderFrom(args, n + 3, g)
      BY <2>2, <2>3, Zenon DEF ReaderFrom
    <2>5. n + 3 - 0 = n + 3 /\ 0 \in 0..n
      BY <1>1
    <2> HIDE DEF g
    <2>6. QED
      BY <2>4, <2>5
  <1>3. ASSUME NEW j \in 0..n, j \in S, j < n PROVE j + 1 \in S
    <2>1. PICK f : ReaderFrom(args, n + 3 - j, f)
      BY <1>3
    <2> DEFINE m == n + 2 - j
    <2>2. m + 1 = n + 3 - j /\ m = n + 3 - (j + 1) /\ m \in 1..(Len(args) + 1) /\ j + 1 \in 0..n
      BY <1>1, <1>3
    <2> HIDE DEF m, n
    <2>3. \E g : ReaderFrom(args, m, g)
      BY <2>1, <2>2, OneMore
    <2>4. QED
      BY <2>2, <2>3
  <1> HIDE DEF S
  <1>4. 0..n \subseteq S
    BY <1>1, <1>2, <1>3, Climb
  <1> HIDE DEF n
  <1>5. n \in S /\ n + 3 - n = 3
    BY <1>1, <1>4
  <1>6. PICK f : ReaderFrom(args, 3, f)
    BY <1>5 DEF S
  <1>7. QED
    BY <1>6 DEF Reader, ReaderFrom

\* Reads is the value at its first position of a function that reads.
LEMMA ReadsIs ==
    ASSUME NEW args, Len(args) \in Nat, Len(args) >= 3
    PROVE  \E f : /\ Reads(args) = f[3]
                  /\ \A i \in 3..(Len(args) + 1) : f[i] = ReadStep(args, f, i)
  <1> DEFINE f == CHOOSE f : Reader(args, f)
  <1>1. Reads(args) = f[3]
    BY DEF Reads, ReadStep, NoMore, Reader
  <1>2. Reader(args, f)
    BY ReaderExists
  <1> HIDE DEF f
  <1>3. f = [i \in 3..(Len(args) + 1) |-> ReadStep(args, f, i)]
    BY <1>2 DEF Reader
  <1>4. \A i \in 3..(Len(args) + 1) :
           f[i] = [k \in 3..(Len(args) + 1) |-> ReadStep(args, f, k)][i]
    BY <1>3, Zenon
  <1>5. \A i \in 3..(Len(args) + 1) : f[i] = ReadStep(args, f, i)
    BY <1>4, Zenon
  <1>6. QED
    BY <1>1, <1>5

-----------------------------------------------------------------------------
(* The arguments.                                                          *)

\* One list after another.  A fact of its own, that the lemmas below find each
\* other by.
Joins(c, s, t) == c = s \o t

LEMMA JoinIs ==
    ASSUME NEW S, NEW s \in Seq(S), NEW t \in Seq(S), NEW c, Joins(c, s, t)
    PROVE  /\ c \in Seq(S) /\ Len(c) = Len(s) + Len(t)
           /\ \A i \in 1..Len(s) : c[i] = s[i]
           /\ \A i \in 1..Len(t) : c[Len(s) + i] = t[i]
  BY ConcatIs DEF Joins

LEMMA Regroup ==
    ASSUME NEW S, NEW x \in Seq(S), NEW d \in Seq(S), NEW e \in Seq(S), NEW xd, Joins(xd, x, d),
           NEW all, Joins(all, xd, e), NEW de, Joins(de, d, e)
    PROVE  Joins(all, x, de)
  BY ConcatAssociative DEF Joins

LEMMA RestIs ==
    ASSUME NEW S, NEW s \in Seq(S), NEW t \in Seq(S), NEW c, Joins(c, s, t)
    PROVE  SubSeq(c, Len(s) + 1, Len(c)) = t
  <1>0. c = s \o t
    BY DEF Joins
  <1>1. Len(s) \in Nat /\ Len(t) \in Nat /\ Len(c) = Len(s) + Len(t)
    BY <1>0
  <1>2. CASE Len(t) = 0
    <2>1. t = <<>>
      BY <1>2, EmptySeq
    <2>2. SubSeq(c, Len(s) + 1, Len(c)) = <<>>
      BY <1>1, <1>2, SubSeqEmpty
    <2>3. QED
      BY <2>1, <2>2
  <1>3. CASE Len(t) # 0
    <2>1. SubSeq(s \o t, Len(s) + 1, Len(c)) = SubSeq(t, Len(s) + 1 - Len(s), Len(c) - Len(s))
      BY <1>1, <1>3, SubSeqOfConcat2
    <2>2. Len(s) + 1 - Len(s) = 1 /\ Len(c) - Len(s) = Len(t)
      BY <1>1
    <2>3. SubSeq(t, 1, Len(t)) = t
      BY SubSeqFull
    <2>4. QED
      BY <1>0, <2>1, <2>2, <2>3
  <1>4. QED
    BY <1>2, <1>3

\* Three lists, one after the other.
LEMMA ThreeLists ==
    ASSUME NEW S, NEW a \in Seq(S), NEW b \in Seq(S), NEW c \in Seq(S),
           NEW ab, Joins(ab, a, b), NEW abc, Joins(abc, ab, c)
    PROVE  /\ abc \in Seq(S) /\ Len(abc) = Len(a) + Len(b) + Len(c)
           /\ \A i \in 1..Len(a) : abc[i] = a[i]
           /\ \A i \in 1..Len(b) : abc[Len(a) + i] = b[i]
           /\ \A i \in 1..Len(c) : abc[Len(a) + Len(b) + i] = c[i]
  <1>1. /\ ab \in Seq(S) /\ Len(ab) = Len(a) + Len(b)
        /\ \A i \in 1..Len(a) : ab[i] = a[i]
        /\ \A i \in 1..Len(b) : ab[Len(a) + i] = b[i]
    BY JoinIs
  <1>2. /\ abc \in Seq(S) /\ Len(abc) = Len(ab) + Len(c)
        /\ \A i \in 1..Len(ab) : abc[i] = ab[i]
        /\ \A i \in 1..Len(c) : abc[Len(ab) + i] = c[i]
    <2>1. ab \in Seq(S)
      BY <1>1
    <2>2. QED
      BY <2>1, JoinIs
  <1>3. Len(a) \in Nat /\ Len(b) \in Nat /\ Len(c) \in Nat
    OBVIOUS
  <1>4. /\ \A i \in 1..Len(a) : i \in 1..Len(ab)
        /\ \A i \in 1..Len(b) : Len(a) + i \in 1..Len(ab)
    BY <1>1, <1>3
  <1>5. QED
    BY <1>1, <1>2, <1>4

\* Five of them: what stands where, and what is left from the fourth on.
LEMMA FiveLists ==
    ASSUME NEW S, NEW u \in Seq(S), NEW v \in Seq(S), NEW w \in Seq(S), NEW x \in Seq(S),
           NEW y \in Seq(S), NEW uv, Joins(uv, u, v), NEW uvw, Joins(uvw, uv, w),
           NEW uvwx, Joins(uvwx, uvw, x), NEW all, Joins(all, uvwx, y)
    PROVE  /\ Len(all) = Len(u) + Len(v) + Len(w) + Len(x) + Len(y)
           /\ \A i \in 1..Len(u) : all[i] = u[i]
           /\ \A i \in 1..Len(v) : all[Len(u) + i] = v[i]
           /\ \A i \in 1..Len(w) : all[Len(u) + Len(v) + i] = w[i]
           /\ \A i \in 1..Len(x) : all[Len(u) + Len(v) + Len(w) + i] = x[i]
           /\ SubSeq(all, Len(u) + Len(v) + Len(w) + 1, Len(all)) = x \o y
  <1>1. /\ uvw \in Seq(S) /\ Len(uvw) = Len(u) + Len(v) + Len(w)
        /\ \A i \in 1..Len(u) : uvw[i] = u[i]
        /\ \A i \in 1..Len(v) : uvw[Len(u) + i] = v[i]
        /\ \A i \in 1..Len(w) : uvw[Len(u) + Len(v) + i] = w[i]
    BY ThreeLists
  <1>2. PICK xy : Joins(xy, x, y)
    BY DEF Joins
  <1>3. Joins(all, uvw, xy)
    BY <1>1, <1>2, Regroup
  <1>4. xy \in Seq(S)
    BY <1>2, JoinIs
  <1>5. /\ Len(all) = Len(uvw) + Len(x) + Len(y)
        /\ \A i \in 1..Len(uvw) : all[i] = uvw[i]
        /\ \A i \in 1..Len(x) : all[Len(uvw) + i] = x[i]
    <2>1. uvw \in Seq(S)
      BY <1>1
    <2>2. QED
      BY <2>1, ThreeLists
  <1>6. SubSeq(all, Len(uvw) + 1, Len(all)) = xy
    BY <1>1, <1>3, <1>4, RestIs
  <1>7. Len(u) \in Nat /\ Len(v) \in Nat /\ Len(w) \in Nat
    OBVIOUS
  <1>8. /\ \A i \in 1..Len(u) : i \in 1..Len(uvw)
        /\ \A i \in 1..Len(v) : Len(u) + i \in 1..Len(uvw)
        /\ \A i \in 1..Len(w) : Len(u) + Len(v) + i \in 1..Len(uvw)
    BY <1>1, <1>7
  <1>9. xy = x \o y
    BY <1>2 DEF Joins
  <1>10. QED
    BY <1>1, <1>5, <1>6, <1>8, <1>9

\* What stands where in the arguments of the runtime: the flags, m environment
\* options, the settings, and from the container on what is no option.
LaidOut(a, m) ==
    LET n == 4 + 2 * m IN
    /\ Len(a) \in Nat /\ Len(a) >= n + 6
    /\ a[1] = context.runtime /\ a[3] = "--interactive" /\ a[4] = "--tty"
    /\ \A k \in 1..m : a[3 + 2 * k] = "--env" /\ a[4 + 2 * k] = EnvOf(policy, InOrder(policy)[k])
    /\ a[n + 1] = "--user" /\ a[n + 2] = context.user
    /\ a[n + 3] = "--workdir" /\ a[n + 4] = context.workdir
    /\ a[n + 5] = context.container
    /\ SubSeq(a, n + 5, Len(a)) = <<context.container, policy.id>> \o request.args

LEMMA ArgvIs ==
    ASSUME NEW m \in Nat, m = Len(InOrder(policy)), NEW R, request.args \in Seq(R)
    PROVE  LaidOut(Argv, m)
  <1> DEFINE n == 4 + 2 * m
             a == Argv
  <1> HIDE DEF a
  <1>1. PICK u, v, w, x, S :
          /\ u = <<context.runtime, "exec", "--interactive", "--tty">>
          /\ v = Options(policy)
          /\ w = <<"--user", context.user, "--workdir", context.workdir>>
          /\ x = <<context.container, policy.id>>
          /\ S = {u[i] : i \in 1..4} \cup {v[i] : i \in 1..(2 * m)} \cup {w[i] : i \in 1..4}
                   \cup {x[i] : i \in 1..2} \cup R
    OBVIOUS
  <1>2. /\ v = [k \in 1..(2 * m) |->
                  IF k % 2 = 1 THEN "--env" ELSE EnvOf(policy, InOrder(policy)[k \div 2])]
    BY <1>1 DEF Options
  <1>3. \A k \in 1..m : v[2 * k - 1] = "--env" /\ v[2 * k] = EnvOf(policy, InOrder(policy)[k])
    BY <1>2
  <1>4. v \in Seq(S) /\ Len(v) = 2 * m
    <2>1. v \in [1..(2 * m) -> {v[i] : i \in 1..(2 * m)}] /\ 2 * m \in Nat
      BY <1>2
    <2>2. v \in Seq({v[i] : i \in 1..(2 * m)}) /\ Len(v) = 2 * m
      BY <1>2, <2>1
    <2>3. {v[i] : i \in 1..(2 * m)} \subseteq S
      BY <1>1
    <2>4. QED
      BY <2>2, <2>3, SeqMonotonic
  <1>5. /\ u \in Seq(S) /\ Len(u) = 4 /\ w \in Seq(S) /\ Len(w) = 4
        /\ x \in Seq(S) /\ Len(x) = 2
    BY <1>1
  <1>6. request.args \in Seq(S)
    BY <1>1, SeqMonotonic
  <1>7. PICK y : y = request.args
    OBVIOUS
  <1>8. PICK uv, uvw, uvwx :
          Joins(uv, u, v) /\ Joins(uvw, uv, w) /\ Joins(uvwx, uvw, x) /\ Joins(a, uvwx, y)
    BY <1>1, <1>7 DEF a, Argv, Joins
  <1>9. /\ Len(a) = Len(u) + Len(v) + Len(w) + Len(x) + Len(y)
        /\ \A i \in 1..Len(u) : a[i] = u[i]
        /\ \A i \in 1..Len(v) : a[Len(u) + i] = v[i]
        /\ \A i \in 1..Len(w) : a[Len(u) + Len(v) + i] = w[i]
        /\ \A i \in 1..Len(x) : a[Len(u) + Len(v) + Len(w) + i] = x[i]
        /\ SubSeq(a, Len(u) + Len(v) + Len(w) + 1, Len(a)) = x \o y
    <2>1. u \in Seq(S) /\ v \in Seq(S) /\ w \in Seq(S) /\ x \in Seq(S) /\ y \in Seq(S)
      BY <1>4, <1>5, <1>6, <1>7
    <2>2. QED
      BY <2>1, <1>8, FiveLists, SMTT(60)
  <1>10. Len(y) \in Nat
    BY <1>6, <1>7, LenProperties
  <1>11. /\ Len(a) = n + 6 + Len(y)
         /\ \A i \in 1..4 : a[i] = u[i] /\ a[n + i] = w[i]
         /\ \A i \in 1..(2 * m) : a[4 + i] = v[i]
         /\ a[n + 5] = x[1] /\ SubSeq(a, n + 5, Len(a)) = x \o y
    <2>1. /\ Len(u) = 4 /\ Len(v) = 2 * m /\ Len(w) = 4 /\ Len(x) = 2
          /\ Len(u) + Len(v) = n /\ Len(u) + Len(v) + Len(w) + 1 = n + 5
          /\ Len(u) + Len(v) + Len(w) = n + 4 /\ n + 4 + 1 = n + 5
      BY <1>4, <1>5
    <2>2. Len(a) = n + 6 + Len(y)
      BY <2>1, <1>9, <1>10
    <2>3. \A i \in 1..4 : a[i] = u[i] /\ a[n + i] = w[i]
      BY <2>1, <1>9
    <2>4. \A i \in 1..(2 * m) : a[4 + i] = v[i]
      BY <2>1, <1>9
    <2>5. a[n + 4 + 1] = x[1]
      BY <2>1, <1>9
    <2>6. SubSeq(a, n + 5, Len(a)) = x \o y
      BY <2>1, <1>9
    <2>7. QED
      BY <2>1, <2>2, <2>3, <2>4, <2>5, <2>6
  <1>12. \A k \in 1..m : a[3 + 2 * k] = "--env" /\ a[4 + 2 * k] = EnvOf(policy, InOrder(policy)[k])
    <2> SUFFICES ASSUME NEW k \in 1..m
                 PROVE  a[3 + 2 * k] = "--env" /\ a[4 + 2 * k] = EnvOf(policy, InOrder(policy)[k])
      OBVIOUS
    <2>1. 2 * k - 1 \in 1..(2 * m) /\ 2 * k \in 1..(2 * m) /\ 4 + (2 * k - 1) = 3 + 2 * k
      OBVIOUS
    <2>2. a[4 + (2 * k - 1)] = v[2 * k - 1] /\ a[4 + 2 * k] = v[2 * k]
      BY <2>1, <1>11
    <2>3. QED
      BY <2>1, <2>2, <1>3
  <1>13. /\ u[1] = context.runtime /\ u[3] = "--interactive" /\ u[4] = "--tty"
         /\ w[1] = "--user" /\ w[2] = context.user /\ w[3] = "--workdir" /\ w[4] = context.workdir
         /\ x[1] = context.container
    BY <1>1
  <1>14. Len(a) \in Nat /\ Len(a) >= n + 6
    BY <1>10, <1>11
  <1>15. /\ a[1] = context.runtime /\ a[3] = "--interactive" /\ a[4] = "--tty"
         /\ a[n + 1] = "--user" /\ a[n + 2] = context.user
         /\ a[n + 3] = "--workdir" /\ a[n + 4] = context.workdir
         /\ a[n + 5] = context.container
    BY <1>11, <1>13
  <1>16. SubSeq(a, n + 5, Len(a)) = <<context.container, policy.id>> \o request.args
    BY <1>1, <1>7, <1>11
  <1>17. QED
    BY <1>12, <1>14, <1>15, <1>16 DEF LaidOut, a

-----------------------------------------------------------------------------
(* The reader on the arguments.                                            *)

Reading(env, settings, rest) == [env |-> env, settings |-> settings, rest |-> rest]

\* An option with a value is read with what stands after it.
LEMMA EnvIsRead ==
    ASSUME NEW args, Len(args) \in Nat, NEW i \in Nat, i < Len(args), args[i] = "--env",
           NEW f, NEW env, NEW settings, NEW rest, f[i + 2] = Reading(env, settings, rest)
    PROVE  ReadStep(args, f, i) = Reading(env \cup {args[i + 1]}, settings, rest)
  <1>1. ~(i > Len(args)) /\ "--env" \in Dashed /\ "--env" \notin {"--interactive", "--tty"}
    BY OptionsAssumption
  <1> DEFINE r == f[i + 2]
             X == {args[i + 1]}
  <1>2. ReadStep(args, f, i) = [r EXCEPT !.env = @ \cup X]
    BY <1>1, Zenon DEF ReadStep
  <1>3. r = Reading(env, settings, rest)
    OBVIOUS
  <1> HIDE DEF r, X
  <1>4. ReadStep(args, f, i) = Reading(env \cup X, settings, rest)
    BY <1>2, <1>3 DEF Reading
  <1>5. QED
    BY <1>4 DEF X

LEMMA SettingIsRead ==
    ASSUME NEW args, Len(args) \in Nat, NEW i \in Nat, i < Len(args),
           args[i] \in {"--user", "--workdir"},
           NEW f, NEW env, NEW settings, NEW rest, f[i + 2] = Reading(env, settings, rest)
    PROVE  ReadStep(args, f, i) = Reading(env, settings \cup {<<args[i], args[i + 1]>>}, rest)
  <1>1. /\ ~(i > Len(args)) /\ args[i] \in Dashed /\ args[i] \notin {"--interactive", "--tty"}
        /\ args[i] # "--env" /\ args[i] \in {"--user", "--workdir"}
    BY OptionsAssumption
  <1> DEFINE r == f[i + 2]
             X == {<<args[i], args[i + 1]>>}
  <1>2. ReadStep(args, f, i) = [r EXCEPT !.settings = @ \cup X]
    BY <1>1, Zenon DEF ReadStep
  <1>3. r = Reading(env, settings, rest)
    OBVIOUS
  <1> HIDE DEF r, X
  <1>4. ReadStep(args, f, i) = Reading(env, settings \cup X, rest)
    BY <1>2, <1>3 DEF Reading
  <1>5. QED
    BY <1>4 DEF X

\* The environment options are read from the last to the first.
LEMMA OptionsAreRead ==
    ASSUME NEW args, NEW m \in Nat, LaidOut(args, m), context.container \notin Dashed,
           NEW e, \A k \in 1..m : e[k] = EnvOf(policy, InOrder(policy)[k])
    PROVE  Reads(args) =
             [env      |-> {e[k] : k \in 1..m},
              settings |-> {<<"--user", context.user>>, <<"--workdir", context.workdir>>},
              rest     |-> <<context.container, policy.id>> \o request.args]
  <1>1. PICK n \in Nat : n = 4 + 2 * m
    OBVIOUS
  <1>2. /\ Len(args) \in Nat /\ Len(args) >= n + 6
        /\ args[3] = "--interactive" /\ args[4] = "--tty"
        /\ \A k \in 1..m : args[3 + 2 * k] = "--env" /\ args[4 + 2 * k] = e[k]
        /\ args[n + 1] = "--user" /\ args[n + 2] = context.user
        /\ args[n + 3] = "--workdir" /\ args[n + 4] = context.workdir
        /\ args[n + 5] \notin Dashed
        /\ SubSeq(args, n + 5, Len(args)) = <<context.container, policy.id>> \o request.args
    BY <1>1 DEF LaidOut
  <1>3. PICK f : /\ Reads(args) = f[3]
                 /\ \A i \in 3..(Len(args) + 1) : f[i] = ReadStep(args, f, i)
    <2>1. Len(args) \in Nat /\ Len(args) >= 3
      BY <1>2
    <2>2. QED
      BY <2>1, ReadsIs, Zenon
  <1>4. PICK user, workdir, rest : /\ user = <<"--user", args[n + 2]>>
                                   /\ workdir = <<"--workdir", args[n + 4]>>
                                   /\ rest = SubSeq(args, n + 5, Len(args))
    OBVIOUS
  <1> DEFINE Last(j) == {e[k] : k \in (m - j + 1)..m}
             S       == {j \in 0..m : f[n + 1 - 2 * j] = Reading(Last(j), {user, workdir}, rest)}
  <1>5. f[n + 5] = Reading({}, {}, rest)
    <2>1. f[n + 5] = ReadStep(args, f, n + 5)
      BY <1>2, <1>3
    <2>2. QED
      BY <1>2, <1>4, <2>1, Zenon DEF ReadStep, NoMore, Reading
  <1>6. f[n + 3] = Reading({}, {workdir}, rest)
    <2>1. f[n + 3] = ReadStep(args, f, n + 3)
      <3>1. n + 3 \in 3..(Len(args) + 1)
        BY <1>1, <1>2
      <3>2. QED
        BY <1>3, <3>1
    <2>2. PICK i \in Nat : i = n + 3 /\ i < Len(args) /\ i + 2 = n + 5 /\ i + 1 = n + 4
      BY <1>2
    <2>3. f[i + 2] = Reading({}, {}, rest) /\ args[i] = "--workdir"
      BY <2>2, <1>2, <1>5
    <2>4. ReadStep(args, f, i) = Reading({}, {} \cup {<<args[i], args[i + 1]>>}, rest)
      <3>1. i \in Nat /\ i < Len(args) /\ args[i] \in {"--user", "--workdir"}
        BY <2>2, <2>3
      <3>2. Len(args) \in Nat
        BY <1>2
      <3>3. QED
        BY <3>1, <3>2, <2>3, SettingIsRead
    <2>5. {} \cup {<<args[i], args[i + 1]>>} = {workdir}
      BY <1>4, <2>2, <2>3
    <2>6. QED
      BY <2>1, <2>2, <2>4, <2>5
  <1>7. f[n + 1] = Reading({}, {user, workdir}, rest)
    <2>1. f[n + 1] = ReadStep(args, f, n + 1)
      <3>1. n + 1 \in 3..(Len(args) + 1)
        BY <1>1, <1>2
      <3>2. QED
        BY <1>3, <3>1
    <2>2. PICK i \in Nat : i = n + 1 /\ i < Len(args) /\ i + 2 = n + 3 /\ i + 1 = n + 2
      BY <1>2
    <2>3. f[i + 2] = Reading({}, {workdir}, rest) /\ args[i] = "--user"
      BY <2>2, <1>2, <1>6
    <2>4. ReadStep(args, f, i) = Reading({}, {workdir} \cup {<<args[i], args[i + 1]>>}, rest)
      <3>1. i \in Nat /\ i < Len(args) /\ args[i] \in {"--user", "--workdir"}
        BY <2>2, <2>3
      <3>2. Len(args) \in Nat
        BY <1>2
      <3>3. QED
        BY <3>1, <3>2, <2>3, SettingIsRead
    <2>5. {workdir} \cup {<<args[i], args[i + 1]>>} = {user, workdir}
      BY <1>4, <2>2, <2>3
    <2>6. QED
      BY <2>1, <2>2, <2>4, <2>5
  <1>8. 0 \in S
    <2>1. Last(0) = {} /\ n + 1 - 2 * 0 = n + 1 /\ 0 \in 0..m
      OBVIOUS
    <2> HIDE DEF Last
    <2>2. f[n + 1 - 2 * 0] = Reading(Last(0), {user, workdir}, rest)
      BY <1>7, <2>1, Zenon
    <2>3. QED
      BY <2>1, <2>2, Zenon
  <1>9. ASSUME NEW j \in 0..m, j \in S, j < m PROVE j + 1 \in S
    <2>1. PICK i, k : i = n + 1 - 2 * (j + 1) /\ k = m - j
      OBVIOUS
    <2>2. i \in Int /\ k \in Int /\ k \in 1..m /\ j + 1 \in 0..m
      BY <1>9, <2>1
    <2>3. i = 3 + 2 * k /\ i + 2 = n + 1 - 2 * j /\ i + 1 = 4 + 2 * k
      BY <1>1, <2>1
    <2>4. i \in Nat /\ i \in 3..(Len(args) + 1) /\ i < Len(args)
      BY <1>1, <1>2, <2>2, <2>3
    <2>5. f[i + 2] = Reading(Last(j), {user, workdir}, rest)
      BY <1>9, <2>3
    <2>6. args[i] = "--env" /\ args[i + 1] = e[k]
      BY <1>2, <2>2, <2>3
    <2>7. f[i] = ReadStep(args, f, i)
      BY <1>3, <2>4
    <2>8. Last(j + 1) = Last(j) \cup {e[k]}
      <3>1. m - (j + 1) + 1 = k /\ m - j + 1 = k + 1
        BY <2>1
      <3>2. k..m = ((k + 1)..m) \cup {k}
        BY <2>2
      <3>3. QED
        BY <3>1, <3>2
    <2> HIDE DEF Last
    <2>9. ReadStep(args, f, i) = Reading(Last(j) \cup {args[i + 1]}, {user, workdir}, rest)
      <3>1. Len(args) \in Nat /\ i \in Nat /\ i < Len(args) /\ args[i] = "--env"
        BY <1>2, <2>4, <2>6
      <3> HIDE DEF S
      <3>2. QED
        BY <3>1, <2>5, EnvIsRead
    <2>10. f[i] = Reading(Last(j + 1), {user, workdir}, rest)
      BY <2>6, <2>7, <2>8, <2>9
    <2>11. QED
      BY <2>1, <2>2, <2>10
  <1>10. m \in S
    <2> HIDE DEF S
    <2>1. 0..m \subseteq S
      BY <1>8, <1>9, Climb
    <2>2. QED
      BY <2>1
  <1>11. n + 1 - 2 * m = 5 /\ (m - m + 1)..m = 1..m
    BY <1>1
  <1>12. f[5] = Reading({e[k] : k \in 1..m}, {user, workdir}, rest)
    BY <1>10, <1>11
  <1>13. f[3] = f[4] /\ f[4] = f[5]
    <2>1. /\ f[3] = ReadStep(args, f, 3) /\ f[4] = ReadStep(args, f, 4)
          /\ ~(3 > Len(args)) /\ ~(4 > Len(args)) /\ 3 + 1 = 4 /\ 4 + 1 = 5
      BY <1>2, <1>3
    <2>2. /\ args[3] \in Dashed \cap {"--interactive", "--tty"}
          /\ args[4] \in Dashed \cap {"--interactive", "--tty"}
      BY <1>2, OptionsAssumption
    <2>3. ReadStep(args, f, 3) = f[3 + 1] /\ ReadStep(args, f, 4) = f[4 + 1]
      BY <2>1, <2>2, Zenon DEF ReadStep
    <2>4. QED
      BY <2>1, <2>3
  <1>14. QED
    BY <1>2, <1>3, <1>4, <1>12, <1>13 DEF Reading

\* The runtime reads back from its arguments just what the document declares
\* under the names that were typed, whatever names, users, containers and
\* arguments there are (validate.rs:19-28, 51-63; run.rs:29-32).
THEOREM RuntimeReadsItsPolicy == RunSpec => []RuntimeReadsThePolicy
  <1>1. RInv => RuntimeReadsThePolicy
    <2> SUFFICES ASSUME RInv, stage = "running" PROVE RuntimeReadsThePolicy
      BY DEF RuntimeReadsThePolicy
    <2>1. Selected /\ IInv /\ SelectionInv /\ argv = Argv
      BY DEF Selected, Done, RInv, RuntimeInv
    <2>2. IsSequence(policy.secrets) /\ IsSequence(policy.proxied)
      BY <2>1, DeclaredOf
    <2>3. PICK m : m = Len(InOrder(policy)) /\ m \in Nat /\ DOMAIN InOrder(policy) = 1..m
      BY <2>2, InOrderIs DEF IsSequence
    <2>4. PICK R : request.args \in Seq(R) /\ policy.id = request.command
      BY <2>1, RequestsAssumption DEF SelectionInv
    <2>5. context.container \notin Dashed
      <3>1. PICK i \in DOMAIN config["contexts"] :
              context = config["contexts"][i] /\ phase = "accepted"
        BY <2>1 DEF SelectionInv
      <3>2. EntryIsValid("contexts", i)
        BY <2>1, <3>1 DEF IInv, CheckedInv, Checked, Lists
      <3>3. QED
        BY <3>1, <3>2 DEF EntryIsValid, IsSound, ContextIsSound
    <2>6. PICK e : e = [k \in 1..m |-> EnvOf(policy, InOrder(policy)[k])]
      OBVIOUS
    <2>7. LaidOut(argv, m)
      BY <2>1, <2>3, <2>4, ArgvIs
    <2>8. argv[1] = context.runtime
      BY <2>7 DEF LaidOut
    <2>9. Reads(argv) =
             [env      |-> {e[k] : k \in 1..m},
              settings |-> {<<"--user", context.user>>, <<"--workdir", context.workdir>>},
              rest     |-> <<context.container, policy.id>> \o request.args]
      <3>1. \A k \in 1..m : e[k] = EnvOf(policy, InOrder(policy)[k])
        BY <2>6
      <3>2. QED
        BY <3>1, <2>3, <2>5, <2>7, OptionsAreRead
    <2>10. {e[k] : k \in 1..m} = {EnvOf(policy, d) : d \in Declarations(policy)}
      BY <2>2, <2>3, <2>6, InOrderIs
    <2>11. /\ \E p \in Positions("contexts") : context = EntryAt("contexts", p)
           /\ \E p \in Positions("policies") : policy = EntryAt("policies", p)
      BY <2>1 DEF SelectionInv, IInv, ImageInv, Lists
    <2>12. context.id = request.context /\ policy.id = request.command
      BY <2>1 DEF SelectionInv
    <2>13. QED
      BY <2>8, <2>9, <2>10, <2>11, <2>12 DEF RuntimeReadsThePolicy
  <1>2. QED
    BY <1>1, RunInvariant, PTL

=============================================================================
