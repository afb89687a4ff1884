--------------------------- MODULE CommandProofs ----------------------------
(***************************************************************************)
(* Proofs about the commands that share something with others of their kin *)
(* the doctor and its companion (HostAccess), the launches (Launch), the   *)
(* containers of one Pi home (RuntimeInstaller) and the assembly that remo *)
(* its container (ContainerRemoval), for any number of each.               *)
(***************************************************************************)
EXTENDS UserCommands, FiniteSetTheorems, WellFoundedInduction, TLAPS

-----------------------------------------------------------------------------
(* The doctor and the override companion.                                  *)

\* Induction over the numbers up to N: a set that holds 0 and goes on holds all.
LEMMA HoldsAll ==
  ASSUME NEW N \in Nat, NEW P, 0 \in P, \A n \in 1..N : n - 1 \in P => n \in P
  PROVE  0..N \subseteq P
<1> DEFINE Missed == {n \in 0..N : n \notin P}
<1> SUFFICES ASSUME Missed # {} PROVE FALSE
  OBVIOUS
<1>1. Missed \subseteq Nat
  OBVIOUS
<1>2. PICK n \in Missed : \A m \in Missed : ~ (<<m, n>> \in OpToRel(<, Nat))
  <2> HIDE DEF Missed
  <2>1. PICK x : x \in Missed
    OBVIOUS
  <2> QED
    BY <1>1, <2>1, WFMin, NatLessThanWellFounded, Zenon
<1>3. \A m \in Missed : ~ (m < n)
  <2> HIDE DEF Missed
  <2> QED
    BY <1>1, <1>2, Zenon DEF OpToRel
<1>4. n \in 1..N /\ n - 1 \in 0..N /\ n - 1 < n
  OBVIOUS
<1>5. n - 1 \notin Missed
  BY <1>3, <1>4
<1> QED
  BY <1>4, <1>5

\* g is what the steps up to m compute, one after another.
Computes(m, S, start, step, g) == g \in [0..m -> S] /\ g[0] = start /\ \A n \in 1..m : g[n] = step[n][g[n - 1]]

\* What a recursion over the numbers up to N computes, when each step is a function.
LEMMA RecursionExists ==
  ASSUME NEW N \in Nat, NEW S, NEW start \in S, NEW step \in [1..N -> [S -> S]]
  PROVE  \E g : Computes(N, S, start, step, g)
<1> DEFINE Up(m, g) == g \in [0..m -> S] /\ g[0] = start /\ \A n \in 1..m : g[n] = step[n][g[n - 1]]
           P == {m \in 0..N : \E g : Up(m, g)}
<1>1. 0 \in P
  <2>1. Up(0, [n \in 0..0 |-> start])
    OBVIOUS
  <2>2. 0 \in 0..N
    OBVIOUS
  <2> HIDE DEF Up
  <2> QED
    BY <2>1, <2>2
<1>2. ASSUME NEW m \in 1..N, m - 1 \in P
      PROVE  m \in P
  <2>1. PICK g : Up(m - 1, g)
    BY <1>2
  <2> DEFINE h == [n \in 0..m |-> IF n = m THEN step[m][g[m - 1]] ELSE g[n]]
  <2>2. g[m - 1] \in S /\ step[m][g[m - 1]] \in S
    BY <2>1
  <2>3. \A n \in 0..(m - 1) : g[n] \in S
    BY <2>1
  <2>4. h \in [0..m -> S]
    BY <2>2, <2>3
  <2>5. h[0] = start
    BY <2>1
  <2>6. ASSUME NEW n \in 1..m
        PROVE  h[n] = step[n][h[n - 1]]
    <3>1. CASE n = m
      <4>1. m - 1 \in 0..m /\ m - 1 # m
        OBVIOUS
      <4>2. h[m - 1] = g[m - 1] /\ h[m] = step[m][g[m - 1]]
        BY <4>1
      <4> HIDE DEF h
      <4> QED
        BY <3>1, <4>2
    <3>2. CASE n # m
      <4>1. n \in 1..(m - 1) /\ n - 1 # m /\ n - 1 \in 0..m
        BY <3>2
      <4> QED
        BY <2>1, <4>1
    <3> QED
      BY <3>1, <3>2
  <2>7. Up(m, h)
    BY <2>4, <2>5, <2>6
  <2> HIDE DEF Up
  <2> QED
    BY <2>7
<1> HIDE DEF P
<1>3. N \in P
  <2>1. \A m \in 1..N : m - 1 \in P => m \in P
    BY <1>2
  <2>2. 0..N \subseteq P
    BY <1>1, <2>1, HoldsAll
  <2> QED
    BY <2>2
<1> USE DEF P
<1>4. PICK g : Up(N, g)
  BY <1>3
<1> QED
  BY <1>4 DEF Computes

PassStates == [out : Seq(Line), inside : BOOLEAN, written : BOOLEAN]
PassStart == [out |-> <<>>, inside |-> FALSE, written |-> FALSE]

\* A step of the pass over the lines keeps the state of the pass in its type.
LEMMA PassTyped ==
  ASSUME NEW state \in PassStates, NEW line \in Line, NEW address \in Texts
  PROVE  PassLine(state, line, address) \in PassStates
<1>1. /\ state.out \in Seq(Line) /\ state.inside \in BOOLEAN /\ state.written \in BOOLEAN
      /\ Address(address) \in Line
  BY DEF PassStates, Address, Line
<1>2. /\ Append(state.out, line) \in Seq(Line) /\ Append(state.out, Address(address)) \in Seq(Line)
      /\ Append(Append(state.out, line), Address(address)) \in Seq(Line)
  BY <1>1
<1>3. CASE line.kind = "header" /\ line = HostTable /\ ~ state.written
  BY <1>1, <1>2, <1>3 DEF PassLine, PassStates, Inserted
<1>4. CASE line.kind = "header" /\ ~ (line = HostTable /\ ~ state.written)
  BY <1>1, <1>2, <1>4 DEF PassLine, PassStates
<1>5. CASE line.kind = "address" /\ state.inside
  BY <1>1, <1>2, <1>5 DEF PassLine, PassStates
<1>6. CASE line.kind # "header" /\ ~ (line.kind = "address" /\ state.inside)
  <2>1. PassLine(state, line, address) = [state EXCEPT !.out = Append(@, line)]
    BY <1>6 DEF PassLine
  <2> QED
    BY <1>1, <1>2, <2>1 DEF PassStates
<1> QED
  BY <1>3, <1>4, <1>5, <1>6

\* The pass over a companion exists and goes line by line (_rewrite_gateway,
\* build_orchestration.py:1626).
LEMMA PassUnfolds ==
  ASSUME NEW lines \in Seq(Line), NEW address \in Texts
  PROVE  LET pass == Pass(lines, address) IN
         /\ pass \in [0..Len(lines) -> PassStates] /\ pass[0] = PassStart
         /\ \A n \in 1..Len(lines) : pass[n] = PassLine(pass[n - 1], lines[n], address)
<1> DEFINE N == Len(lines)
           step == [n \in 1..N |-> [state \in PassStates |-> PassLine(state, lines[n], address)]]
<1>1. N \in Nat /\ \A n \in 1..N : lines[n] \in Line
  OBVIOUS
<1>2. PassStart \in PassStates
  BY DEF PassStart, PassStates
<1>3. step \in [1..N -> [PassStates -> PassStates]]
  BY <1>1, PassTyped
<1> HIDE DEF step, N
<1>4. PICK g : Computes(N, PassStates, PassStart, step, g)
  BY <1>1, <1>2, <1>3, RecursionExists
<1>5. /\ g \in [0..N -> PassStates] /\ g[0] = PassStart
      /\ \A n \in 1..N : n - 1 \in 0..N /\ g[n] = PassLine(g[n - 1], lines[n], address)
  <2>1. g \in [0..N -> PassStates] /\ g[0] = PassStart /\ \A n \in 1..N : g[n] = step[n][g[n - 1]]
    BY <1>4 DEF Computes
  <2>2. \A n \in 1..N : n - 1 \in 0..N
    BY <1>1
  <2>3. \A n \in 1..N, state \in PassStates : step[n][state] = PassLine(state, lines[n], address)
    BY DEF step
  <2> QED
    BY <2>1, <2>2, <2>3
<1>6. g = [n \in 0..N |-> IF n = 0 THEN PassStart ELSE PassLine(g[n - 1], lines[n], address)]
  <2>1. \A n \in 0..N : g[n] = IF n = 0 THEN PassStart ELSE PassLine(g[n - 1], lines[n], address)
    <3> TAKE n \in 0..N
    <3>1. n = 0 \/ n \in 1..N
      BY <1>1
    <3>2. n \in 1..N => n # 0
      BY <1>1
    <3> QED
      BY <1>5, <3>1, <3>2
  <2>2. g = [n \in 0..N |-> g[n]]
    BY <1>5
  <2> QED
    BY <2>1, <2>2, Zenon
<1>7. Pass(lines, address) = [n \in 0..N |-> IF n = 0 THEN PassStart ELSE PassLine(Pass(lines, address)[n - 1], lines[n], address)]
  BY <1>6, Zenon DEF Pass, PassStart, N
<1> DEFINE pass == Pass(lines, address)
<1> HIDE DEF pass, N
<1>8. pass = [n \in 0..N |-> IF n = 0 THEN PassStart ELSE PassLine(pass[n - 1], lines[n], address)]
  BY <1>7 DEF pass
<1>9. /\ DOMAIN pass = 0..N /\ pass[0] = PassStart
      /\ \A n \in 1..N : pass[n] = PassLine(pass[n - 1], lines[n], address)
  <2>1. DOMAIN pass = 0..N /\ \A n \in 0..N : pass[n] = IF n = 0 THEN PassStart ELSE PassLine(pass[n - 1], lines[n], address)
    BY <1>8, Zenon
  <2>2. 0 \in 0..N /\ \A n \in 1..N : n # 0 /\ n \in 0..N
    BY <1>1
  <2> QED
    BY <2>1, <2>2, Zenon
<1>10. \A n \in 0..N : pass[n] \in PassStates
  <2> DEFINE P == {n \in 0..N : pass[n] \in PassStates}
  <2>1. 0 \in P
    BY <1>1, <1>2, <1>9
  <2>2. ASSUME NEW n \in 1..N, n - 1 \in P
        PROVE  n \in P
    <3>1. pass[n - 1] \in PassStates /\ lines[n] \in Line /\ n \in 0..N
      BY <1>1, <2>2
    <3>2. PassLine(pass[n - 1], lines[n], address) \in PassStates
      BY <3>1, PassTyped
    <3> QED
      BY <1>9, <3>1, <3>2
  <2> HIDE DEF P
  <2>3. 0..N \subseteq P
    BY <1>1, <2>1, <2>2, HoldsAll
  <2> QED
    BY <2>3 DEF P
<1> QED
  BY <1>8, <1>9, <1>10 DEF pass, N

\* What a companion holds beside addresses exists, line by line.
LEMMA RestUnfolds ==
  ASSUME NEW lines \in Seq(Line)
  PROVE  LET rest == RestTo(lines) IN
         /\ rest \in [0..Len(lines) -> Seq(Line)] /\ rest[0] = <<>>
         /\ \A n \in 1..Len(lines) : rest[n] = IF Kept(lines[n]) THEN Append(rest[n - 1], lines[n]) ELSE rest[n - 1]
<1> DEFINE N == Len(lines)
           step == [n \in 1..N |-> [kept \in Seq(Line) |-> IF Kept(lines[n]) THEN Append(kept, lines[n]) ELSE kept]]
<1>1. N \in Nat /\ \A n \in 1..N : lines[n] \in Line
  OBVIOUS
<1>2. <<>> \in Seq(Line)
  OBVIOUS
<1>3. step \in [1..N -> [Seq(Line) -> Seq(Line)]]
  BY <1>1
<1> HIDE DEF step, N
<1>4. PICK g : Computes(N, Seq(Line), <<>>, step, g)
  BY <1>1, <1>2, <1>3, RecursionExists
<1>5. /\ g \in [0..N -> Seq(Line)] /\ g[0] = <<>>
      /\ \A n \in 1..N : n - 1 \in 0..N /\ g[n] = IF Kept(lines[n]) THEN Append(g[n - 1], lines[n]) ELSE g[n - 1]
  <2>1. g \in [0..N -> Seq(Line)] /\ g[0] = <<>> /\ \A n \in 1..N : g[n] = step[n][g[n - 1]]
    BY <1>4 DEF Computes
  <2>2. \A n \in 1..N : n - 1 \in 0..N
    BY <1>1
  <2>3. \A n \in 1..N, kept \in Seq(Line) : step[n][kept] = IF Kept(lines[n]) THEN Append(kept, lines[n]) ELSE kept
    BY DEF step
  <2> QED
    BY <2>1, <2>2, <2>3
<1>6. g = [n \in 0..N |-> IF n = 0 THEN <<>> ELSE IF Kept(lines[n]) THEN Append(g[n - 1], lines[n]) ELSE g[n - 1]]
  <2>1. \A n \in 0..N : g[n] = IF n = 0 THEN <<>> ELSE IF Kept(lines[n]) THEN Append(g[n - 1], lines[n]) ELSE g[n - 1]
    <3> TAKE n \in 0..N
    <3>1. n = 0 \/ n \in 1..N
      BY <1>1
    <3>2. n \in 1..N => n # 0
      BY <1>1
    <3> QED
      BY <1>5, <3>1, <3>2
  <2>2. g = [n \in 0..N |-> g[n]]
    BY <1>5
  <2> QED
    BY <2>1, <2>2, Zenon
<1>7. RestTo(lines) = [n \in 0..N |-> IF n = 0 THEN <<>> ELSE IF Kept(lines[n]) THEN Append(RestTo(lines)[n - 1], lines[n]) ELSE RestTo(lines)[n - 1]]
  BY <1>6, Zenon DEF RestTo, N
<1> DEFINE rest == RestTo(lines)
<1> HIDE DEF rest
<1>8. rest = [n \in 0..N |-> IF n = 0 THEN <<>> ELSE IF Kept(lines[n]) THEN Append(rest[n - 1], lines[n]) ELSE rest[n - 1]]
  BY <1>7 DEF rest
<1>9. /\ DOMAIN rest = 0..N /\ rest[0] = <<>>
      /\ \A n \in 1..N : rest[n] = IF Kept(lines[n]) THEN Append(rest[n - 1], lines[n]) ELSE rest[n - 1]
  <2>1. /\ DOMAIN rest = 0..N
        /\ \A n \in 0..N : rest[n] = IF n = 0 THEN <<>> ELSE IF Kept(lines[n]) THEN Append(rest[n - 1], lines[n]) ELSE rest[n - 1]
    BY <1>8, Zenon
  <2>2. 0 \in 0..N /\ \A n \in 1..N : n # 0 /\ n \in 0..N
    BY <1>1
  <2> QED
    BY <2>1, <2>2, Zenon
<1>10. \A n \in 0..N : rest[n] \in Seq(Line)
  <2> DEFINE P == {n \in 0..N : rest[n] \in Seq(Line)}
  <2>0. 0 \in 0..N /\ rest[0] \in Seq(Line)
    <3>1. 0 \in 0..N
      BY <1>1
    <3>2. rest[0] \in Seq(Line)
      BY <1>2, <1>9, Zenon
    <3> QED
      BY <3>1, <3>2
  <2>1. 0 \in P
    BY <2>0
  <2>2. ASSUME NEW n \in 1..N, n - 1 \in P
        PROVE  n \in P
    <3>1. rest[n - 1] \in Seq(Line) /\ lines[n] \in Line /\ n \in 0..N
      BY <1>1, <2>2
    <3>2. Append(rest[n - 1], lines[n]) \in Seq(Line)
      BY <3>1
    <3> QED
      BY <1>9, <3>1, <3>2
  <2> HIDE DEF P
  <2>3. 0..N \subseteq P
    BY <1>1, <2>1, <2>2, HoldsAll
  <2> QED
    BY <2>3 DEF P
<1>11. rest \in [0..N -> Seq(Line)]
  BY <1>8, <1>10
<1> QED
  BY <1>9, <1>11 DEF rest, N

\* An empty companion holds nothing.
LEMMA RestEmpty == Rest(<<>>) = <<>>
<1>1. <<>> \in Seq(Line) /\ Len(<<>>) = 0
  OBVIOUS
<1>2. RestTo(<<>>)[0] = <<>>
  BY <1>1, RestUnfolds
<1> QED
  BY <1>1, <1>2 DEF Rest

\* One more line is kept or not, whatever stands before it.
LEMMA RestAppend ==
  ASSUME NEW s \in Seq(Line), NEW line \in Line
  PROVE  Rest(Append(s, line)) = IF Kept(line) THEN Append(Rest(s), line) ELSE Rest(s)
<1> DEFINE t == Append(s, line)
           N == Len(s)
           old == RestTo(s)
           new == RestTo(t)
<1>1. t \in Seq(Line) /\ N \in Nat /\ Len(t) = N + 1 /\ t[N + 1] = line /\ \A n \in 1..N : t[n] = s[n]
  OBVIOUS
<1>2. /\ old[0] = <<>>
      /\ \A n \in 1..N : old[n] = IF Kept(s[n]) THEN Append(old[n - 1], s[n]) ELSE old[n - 1]
  BY RestUnfolds
<1> HIDE DEF t
<1>3. /\ new[0] = <<>>
      /\ \A n \in 1..(N + 1) : new[n] = IF Kept(t[n]) THEN Append(new[n - 1], t[n]) ELSE new[n - 1]
  <2>1. /\ new[0] = <<>>
        /\ \A n \in 1..Len(t) : new[n] = IF Kept(t[n]) THEN Append(new[n - 1], t[n]) ELSE new[n - 1]
    BY <1>1, RestUnfolds
  <2> QED
    BY <1>1, <2>1
<1> HIDE DEF old, new, N
<1> DEFINE P == {n \in 0..N : new[n] = old[n]}
<1>4. 0 \in P
  BY <1>1, <1>2, <1>3
<1>5. ASSUME NEW n \in 1..N, n - 1 \in P
      PROVE  n \in P
  <2>1. n \in 0..N /\ n \in 1..(N + 1)
    BY <1>1
  <2> QED
    BY <1>1, <1>2, <1>3, <1>5, <2>1
<1> HIDE DEF P
<1>6. 0..N \subseteq P
  BY <1>1, <1>4, <1>5, HoldsAll
<1>7. new[N] = old[N]
  BY <1>1, <1>6 DEF P
<1>8. new[N + 1] = IF Kept(line) THEN Append(old[N], line) ELSE old[N]
  <2>1. N + 1 \in 1..(N + 1) /\ (N + 1) - 1 = N
    BY <1>1
  <2> QED
    BY <1>1, <1>3, <1>7, <2>1
<1> QED
  BY <1>1, <1>8 DEF Rest, old, new, N, t

\* A set of numbers that holds one and has a bound has a greatest.
LEMMA GreatestExists ==
  ASSUME NEW S, IsFiniteSet(S), S \subseteq Int, S # {} PROVE \E x \in S : \A y \in S : x >= y
<1> DEFINE Without(T) == IsFiniteSet(T) /\ T \subseteq Int /\ T # {} /\ ~ \E x \in T : \A y \in T : x >= y
           Sizes == {n \in Nat : \E T \in SUBSET S : Without(T) /\ Cardinality(T) = n}
<1> SUFFICES ASSUME Without(S) PROVE FALSE
  OBVIOUS
<1>1. Cardinality(S) \in Sizes
  BY FS_CardinalityType
<1>2. PICK n \in Sizes : \A m \in Sizes : ~ (<<m, n>> \in OpToRel(<, Nat))
  <2> HIDE DEF Sizes
  <2>1. Sizes \subseteq Nat
    BY DEF Sizes
  <2> QED
    BY <1>1, <2>1, WFMin, NatLessThanWellFounded, Zenon
<1>3. \A m \in Sizes : ~ (m < n)
  <2> HIDE DEF Sizes
  <2>1. Sizes \subseteq Nat
    BY DEF Sizes
  <2> QED
    BY <1>2, <2>1, Zenon DEF OpToRel
<1>4. PICK T \in SUBSET S : Without(T) /\ Cardinality(T) = n
  OBVIOUS
<1>5. PICK x \in T : TRUE
  BY <1>4
<1>6. IsFiniteSet(T \ {x}) /\ Cardinality(T \ {x}) = n - 1 /\ n - 1 \in Nat
  <2>1. IsFiniteSet(T \ {x}) /\ Cardinality(T \ {x}) = n - 1
    BY <1>4, <1>5, FS_RemoveElement
  <2> QED
    BY <2>1, FS_CardinalityType
<1>7. ~ Without(T \ {x})
  <2> SUFFICES ASSUME Without(T \ {x}) PROVE FALSE
    OBVIOUS
  <2>1. n - 1 \in Sizes
    BY <1>4, <1>6
  <2> QED
    BY <1>3, <1>6, <2>1
<1>8. CASE T \ {x} = {}
  BY <1>4, <1>5, <1>8
<1>9. CASE T \ {x} # {}
  <2>1. PICK m \in T \ {x} : \A y \in T \ {x} : m >= y
    BY <1>4, <1>6, <1>7, <1>9
  <2>2. m \in Int /\ x \in Int /\ T \subseteq Int
    BY <1>4, <1>5
  <2>3. \E z \in T : \A y \in T : z >= y
    <3>1. CASE m >= x
      BY <2>1, <2>2, <3>1
    <3>2. CASE x >= m
      BY <1>5, <2>1, <2>2, <3>2
    <3> QED
      BY <2>2, <3>1, <3>2
  <2> QED
    BY <1>4, <2>3
<1> QED
  BY <1>8, <1>9

\* The greatest of a set is found wherever it is chosen.
LEMMA GreatestIs ==
  ASSUME NEW S, IsFiniteSet(S), S \subseteq Int, S # {}
  PROVE  Max(S) \in S /\ \A y \in S : Max(S) >= y
BY GreatestExists DEF Max

\* The table of a line: the one above, unless it is a header.
LEMMA TableStep ==
  ASSUME NEW s \in Seq(Line), NEW i \in 0..Len(s)
  PROVE  /\ i = 0 => TableOf(s, i) = "none"
         /\ i # 0 => TableOf(s, i) = IF s[i].kind = "header" THEN s[i].text ELSE TableOf(s, i - 1)
<1> DEFINE Above(n) == {k \in 1..n : s[k].kind = "header"}
<1>0. i \in Nat
  OBVIOUS
<1>1. \A n : TableOf(s, n) = IF Above(n) = {} THEN "none" ELSE s[Max(Above(n))].text
  BY DEF TableOf
<1>2. CASE i = 0
  <2>1. Above(i) = {}
    BY <1>2
  <2> QED
    BY <1>1, <1>2, <2>1
<1>3. CASE i # 0 /\ s[i].kind = "header"
  <2>1. i \in Above(i) /\ Above(i) \subseteq 1..i /\ Above(i) \subseteq Int
    BY <1>0, <1>3
  <2>2. IsFiniteSet(Above(i))
    <3>1. IsFiniteSet(1..i)
      BY <1>0, FS_Interval
    <3> HIDE DEF Above
    <3> QED
      BY <2>1, <3>1, FS_Subset
  <2> HIDE DEF Above
  <2>3. Max(Above(i)) \in Above(i) /\ \A y \in Above(i) : Max(Above(i)) >= y
    BY <2>1, <2>2, GreatestIs
  <2>4. Max(Above(i)) = i
    <3>1. Max(Above(i)) \in 1..i /\ Max(Above(i)) >= i
      BY <2>1, <2>3
    <3> QED
      BY <1>0, <3>1
  <2> QED
    BY <1>1, <1>3, <2>1, <2>4
<1>4. CASE i # 0 /\ s[i].kind # "header"
  <2>1. Above(i) = Above(i - 1)
    BY <1>0, <1>4
  <2> HIDE DEF Above
  <2> QED
    BY <1>1, <1>4, <2>1
<1> QED
  BY <1>2, <1>3, <1>4

\* A line at the end changes no table above it.
LEMMA TableAppend ==
  ASSUME NEW s \in Seq(Line), NEW line \in Line
  PROVE  LET t == Append(s, line) IN
         /\ \A i \in 0..Len(s) : TableOf(t, i) = TableOf(s, i)
         /\ TableOf(t, Len(t)) = IF line.kind = "header" THEN line.text ELSE TableOf(s, Len(s))
<1> DEFINE t == Append(s, line)
           N == Len(s)
<1>1. t \in Seq(Line) /\ N \in Nat /\ Len(t) = N + 1 /\ t[N + 1] = line /\ \A n \in 1..N : t[n] = s[n]
  OBVIOUS
<1> HIDE DEF t
<1> DEFINE P == {n \in 0..N : TableOf(t, n) = TableOf(s, n)}
<1>2. \A n \in 0..N : n \in 0..Len(s) /\ n \in 0..Len(t)
  BY <1>1
<1>3. 0 \in P
  <2>1. 0 \in 0..N
    BY <1>1
  <2>2. TableOf(t, 0) = "none" /\ TableOf(s, 0) = "none"
    BY <1>1, <1>2, <2>1, TableStep
  <2> QED
    BY <2>1, <2>2
<1>4. ASSUME NEW n \in 1..N, n - 1 \in P
      PROVE  n \in P
  <2>1. n \in 0..N /\ n # 0 /\ s[n] = t[n] /\ TableOf(t, n - 1) = TableOf(s, n - 1)
    BY <1>1, <1>4
  <2>2. TableOf(t, n) = IF t[n].kind = "header" THEN t[n].text ELSE TableOf(t, n - 1)
    BY <1>1, <1>2, <2>1, TableStep
  <2>3. TableOf(s, n) = IF s[n].kind = "header" THEN s[n].text ELSE TableOf(s, n - 1)
    BY <1>1, <1>2, <2>1, TableStep
  <2> QED
    BY <2>1, <2>2, <2>3
<1> HIDE DEF P
<1>5. 0..N \subseteq P
  BY <1>1, <1>3, <1>4, HoldsAll
<1>6. \A i \in 0..N : TableOf(t, i) = TableOf(s, i)
  BY <1>5 DEF P
<1>7. N + 1 \in 0..Len(t) /\ N + 1 # 0 /\ (N + 1) - 1 = N /\ N \in 0..N
  BY <1>1
<1>8. TableOf(t, N + 1) = IF t[N + 1].kind = "header" THEN t[N + 1].text ELSE TableOf(t, (N + 1) - 1)
  BY <1>1, <1>7, TableStep
<1>9. TableOf(t, Len(t)) = IF line.kind = "header" THEN line.text ELSE TableOf(s, N)
  BY <1>1, <1>6, <1>7, <1>8
<1> QED
  BY <1>6, <1>9 DEF t

\* A line that may stand below a companion keeps it one that loads.
MayFollow(s, line) ==
  /\ line.kind = "header" => \A i \in DOMAIN s : s[i] # line
  /\ line.kind = "address" => TableOf(s, Len(s)) = "host-access" /\ AddressesOf(s) = {}
  /\ line.kind = "setting" => TableOf(s, Len(s)) = "cache"

\* The addresses after one more line.
LEMMA AddressesAppend ==
  ASSUME NEW s \in Seq(Line), NEW line \in Line, line.kind = "address" => TableOf(s, Len(s)) = "host-access"
  PROVE  AddressesOf(Append(s, line)) = AddressesOf(s) \cup (IF line.kind = "address" THEN {Len(s) + 1} ELSE {})
<1> DEFINE t == Append(s, line)
           N == Len(s)
<1>1. /\ t \in Seq(Line) /\ N \in Nat /\ Len(t) = N + 1 /\ t[N + 1] = line /\ \A n \in 1..N : t[n] = s[n]
      /\ DOMAIN s = 1..N /\ DOMAIN t = 1..(N + 1)
  OBVIOUS
<1>2. /\ \A i \in 0..N : TableOf(t, i) = TableOf(s, i)
      /\ TableOf(t, N + 1) = IF line.kind = "header" THEN line.text ELSE TableOf(s, N)
  BY <1>1, TableAppend
<1> HIDE DEF t, N
<1>3. ASSUME NEW i \in 1..N
      PROVE  i \in AddressesOf(t) <=> i \in AddressesOf(s)
  <2>1. i \in 0..N /\ i \in 1..(N + 1)
    BY <1>1
  <2> QED
    BY <1>1, <1>2, <2>1 DEF AddressesOf
<1>4. N + 1 \in AddressesOf(t) <=> line.kind = "address"
  BY <1>1, <1>2 DEF AddressesOf, N
<1>5. AddressesOf(t) \subseteq 1..(N + 1) /\ AddressesOf(s) \subseteq 1..N
  BY <1>1 DEF AddressesOf
<1>6. \A i \in 1..(N + 1) : i \in 1..N \/ i = N + 1
  BY <1>1
<1>7. N + 1 \notin 1..N /\ 1..N \subseteq 1..(N + 1)
  BY <1>1
<1>8. AddressesOf(t) = AddressesOf(s) \cup (IF line.kind = "address" THEN {N + 1} ELSE {})
  BY <1>3, <1>4, <1>5, <1>6, <1>7
<1> QED
  BY <1>8 DEF t, N

\* A companion stays loadable when what follows may follow.
LEMMA LoadableAppend ==
  ASSUME NEW s \in Seq(Line), Loadable(s), NEW line \in Line, MayFollow(s, line)
  PROVE  Loadable(Append(s, line))
<1> DEFINE t == Append(s, line)
           N == Len(s)
<1>1. /\ t \in Seq(Line) /\ N \in Nat /\ Len(t) = N + 1 /\ t[N + 1] = line /\ \A n \in 1..N : t[n] = s[n]
      /\ DOMAIN s = 1..N /\ DOMAIN t = 1..(N + 1)
  OBVIOUS
<1>2. /\ \A i \in 0..N : TableOf(t, i) = TableOf(s, i)
      /\ TableOf(t, N + 1) = IF line.kind = "header" THEN line.text ELSE TableOf(s, N)
  BY <1>1, TableAppend
<1>3. AddressesOf(t) = AddressesOf(s) \cup (IF line.kind = "address" THEN {N + 1} ELSE {})
  BY AddressesAppend DEF MayFollow
<1> HIDE DEF t
<1>4. \A i \in 1..(N + 1) : (i \in 1..N /\ i \in 0..N) \/ i = N + 1
  BY <1>1
<1>5. ASSUME NEW i \in DOMAIN t, NEW k \in DOMAIN t, t[i].kind = "header", t[i] = t[k]
      PROVE  i = k
  <2>1. CASE i \in 1..N /\ k \in 1..N
    BY <1>1, <1>5, <2>1 DEF Loadable
  <2>2. CASE i = N + 1 /\ k \in 1..N
    BY <1>1, <1>5, <2>2 DEF MayFollow
  <2>3. CASE i \in 1..N /\ k = N + 1
    BY <1>1, <1>5, <2>3 DEF MayFollow
  <2> QED
    BY <1>1, <1>4, <1>5, <2>1, <2>2, <2>3
<1>6. ASSUME NEW i \in DOMAIN t
      PROVE  /\ t[i].kind = "address" => TableOf(t, i) = "host-access"
             /\ t[i].kind = "setting" => TableOf(t, i) = "cache"
  <2>1. CASE i \in 1..N /\ i \in 0..N
    BY <1>1, <1>2, <2>1 DEF Loadable
  <2>2. CASE i = N + 1
    BY <1>1, <1>2, <2>2 DEF MayFollow
  <2> QED
    BY <1>1, <1>4, <2>1, <2>2
<1>7. Cardinality(AddressesOf(t)) <= 1
  <2>1. CASE line.kind = "address"
    <3>1. AddressesOf(t) = {N + 1}
      BY <1>3, <2>1 DEF MayFollow
    <3>2. Cardinality({N + 1}) = 1
      BY FS_Singleton
    <3> QED
      BY <3>1, <3>2
  <2>2. CASE line.kind # "address"
    <3>1. AddressesOf(t) = AddressesOf(s)
      BY <1>3, <2>2
    <3> QED
      BY <3>1 DEF Loadable
  <2> QED
    BY <2>1, <2>2
<1> QED
  BY <1>5, <1>6, <1>7 DEF Loadable, t

AddressTexts(s) == {s[i].text : i \in AddressesOf(s)}
\* The texts of the addresses after one more line.
LEMMA TextsAppend ==
  ASSUME NEW s \in Seq(Line), NEW line \in Line, line.kind = "address" => TableOf(s, Len(s)) = "host-access"
  PROVE  AddressTexts(Append(s, line)) = AddressTexts(s) \cup (IF line.kind = "address" THEN {line.text} ELSE {})
<1> DEFINE t == Append(s, line)
           N == Len(s)
<1>1. AddressesOf(t) = AddressesOf(s) \cup (IF line.kind = "address" THEN {N + 1} ELSE {})
  BY AddressesAppend
<1>2. /\ N \in Nat /\ t[N + 1] = line /\ \A n \in 1..N : t[n] = s[n]
      /\ AddressesOf(s) \subseteq 1..N
  BY DEF AddressesOf
<1> HIDE DEF t, N
<1>3. AddressTexts(t) = AddressTexts(s) \cup (IF line.kind = "address" THEN {line.text} ELSE {})
  <2>1. AddressTexts(t) = {t[i].text : i \in AddressesOf(s)} \cup (IF line.kind = "address" THEN {t[N + 1].text} ELSE {})
    BY <1>1 DEF AddressTexts
  <2>2. {t[i].text : i \in AddressesOf(s)} = AddressTexts(s)
    BY <1>2 DEF AddressTexts
  <2> QED
    BY <1>2, <2>1, <2>2
<1> QED
  BY <1>3 DEF t

\* After n lines: what has been written is what those lines held, with the address.
Tracks(lines, address, n, state) ==
  /\ state \in PassStates /\ Loadable(state.out)
  /\ TableOf(state.out, Len(state.out)) = TableOf(lines, n)
  /\ state.inside <=> TableOf(lines, n) = "host-access"
  /\ \A i \in DOMAIN state.out : state.out[i].kind = "header" => \E j \in 1..n : lines[j] = state.out[i]
  /\ state.inside => state.written
  /\ \A i \in DOMAIN state.out : state.out[i] = HostTable => state.written
  /\ AddressTexts(state.out) = IF state.written THEN {address} ELSE {}
  /\ Rest(state.out) = RestTo(lines)[n]

\* Without texts there is no address.
LEMMA NoTexts ==
  ASSUME NEW s, AddressTexts(s) = {}
  PROVE  AddressesOf(s) = {}
BY DEF AddressTexts

\* The header of the host table is the one of its name.
LEMMA HeaderLines ==
  ASSUME NEW line \in Line, line.kind = "header"
  PROVE  line = HostTable <=> line.text = "host-access"
<1>1. line = [kind |-> line.kind, text |-> line.text]
  BY DEF Line
<1> QED
  BY <1>1 DEF HostTable, Header

\* The pass begins with nothing read and nothing written.
LEMMA TracksAtFirst ==
  ASSUME NEW lines \in Seq(Line), NEW address \in Texts
  PROVE  Tracks(lines, address, 0, PassStart)
<1>1. PassStart \in PassStates /\ PassStart.out = <<>> /\ ~ PassStart.inside /\ ~ PassStart.written
  BY DEF PassStart, PassStates
<1>2. <<>> \in Seq(Line) /\ Len(<<>>) = 0 /\ DOMAIN <<>> = {}
  OBVIOUS
<1>3. AddressesOf(<<>>) = {}
  BY <1>2 DEF AddressesOf
<1>4. Loadable(<<>>)
  <2>1. Cardinality({}) = 0
    BY FS_EmptySet
  <2>2. Cardinality(AddressesOf(<<>>)) = 0
    BY <1>3, <2>1, Zenon
  <2> QED
    BY <1>2, <2>2 DEF Loadable
<1>5. TableOf(<<>>, 0) = "none" /\ TableOf(lines, 0) = "none"
  <2>1. 0 \in 0..Len(lines) /\ 0 \in 0..Len(<<>>)
    OBVIOUS
  <2> QED
    BY <1>2, <2>1, TableStep
<1>6. Rest(<<>>) = <<>> /\ RestTo(lines)[0] = <<>>
  BY RestEmpty, RestUnfolds
<1>7. AddressTexts(<<>>) = {}
  BY <1>3 DEF AddressTexts
<1> QED
  BY <1>1, <1>2, <1>4, <1>5, <1>6, <1>7 DEF Tracks

\* One more line is passed as it should be: what is kept is kept in its order,
\* the table is written once, and the result stays loadable.
LEMMA TracksOn ==
  ASSUME NEW lines \in Seq(Line), Loadable(lines), NEW address \in Texts, NEW n \in 1..Len(lines), NEW state,
         Tracks(lines, address, n - 1, state)
  PROVE  Tracks(lines, address, n, PassLine(state, lines[n], address))
<1> DEFINE line == lines[n]
           s == state.out
           next == PassLine(state, line, address)
           t == Append(s, line)
           row == Address(address)
<1>1. n \in Nat /\ line \in Line /\ n \in 0..Len(lines) /\ n # 0 /\ n \in DOMAIN lines
  OBVIOUS
<1>2. /\ state \in PassStates /\ s \in Seq(Line) /\ state.inside \in BOOLEAN /\ state.written \in BOOLEAN
      /\ Loadable(s) /\ TableOf(s, Len(s)) = TableOf(lines, n - 1)
      /\ state.inside <=> TableOf(lines, n - 1) = "host-access"
      /\ state.inside => state.written
      /\ \A i \in DOMAIN s : s[i] = HostTable => state.written
      /\ AddressTexts(s) = IF state.written THEN {address} ELSE {}
      /\ Rest(s) = RestTo(lines)[n - 1]
  BY DEF Tracks, PassStates
<1>3. \A i \in DOMAIN s : s[i].kind = "header" => \E j \in 1..(n - 1) : lines[j] = s[i]
  BY DEF Tracks
<1>4. next \in PassStates
  BY <1>1, <1>2, PassTyped
<1>5. TableOf(lines, n) = IF line.kind = "header" THEN line.text ELSE TableOf(lines, n - 1)
  BY <1>1, TableStep
<1>6. RestTo(lines)[n] = IF Kept(line) THEN Append(RestTo(lines)[n - 1], line) ELSE RestTo(lines)[n - 1]
  BY RestUnfolds
<1>7. /\ line.kind = "address" => TableOf(lines, n) = "host-access"
      /\ line.kind = "setting" => TableOf(lines, n) = "cache"
  BY <1>1 DEF Loadable
<1>8. line.kind = "header" => \A i \in DOMAIN s : s[i] # line
  <2> SUFFICES ASSUME line.kind = "header", NEW i \in DOMAIN s, s[i] = line PROVE FALSE
    OBVIOUS
  <2>1. PICK j \in 1..(n - 1) : lines[j] = line
    BY <1>3
  <2>2. j \in DOMAIN lines /\ j # n
    BY <1>1, <2>1
  <2> QED
    BY <1>1, <2>1, <2>2 DEF Loadable
<1> SUFFICES Tracks(lines, address, n, next)
  OBVIOUS
<1> HIDE DEF line, next, t, row, s
<1>9. row \in Line /\ row.kind = "address" /\ row.text = address /\ ~ Kept(row)
  BY DEF row, Address, Line, Kept
<1>10. ASSUME line.kind # "address"
       PROVE  /\ t \in Seq(Line) /\ Loadable(t) /\ TableOf(t, Len(t)) = TableOf(lines, n)
              /\ AddressTexts(t) = AddressTexts(s) /\ Rest(t) = RestTo(lines)[n]
              /\ \A i \in DOMAIN t : t[i] = line \/ \E k \in DOMAIN s : t[i] = s[k]
  <2>1. t \in Seq(Line) /\ \A i \in DOMAIN t : t[i] = line \/ \E k \in DOMAIN s : t[i] = s[k]
    BY <1>1, <1>2 DEF t
  <2>2. MayFollow(s, line)
    BY <1>2, <1>5, <1>7, <1>8, <1>10 DEF MayFollow
  <2>3. Loadable(t)
    BY <1>1, <1>2, <2>2, LoadableAppend DEF t
  <2>4. TableOf(t, Len(t)) = TableOf(lines, n)
    BY <1>1, <1>2, <1>5, TableAppend DEF t
  <2>5. AddressTexts(t) = AddressTexts(s)
    BY <1>1, <1>2, <1>10, TextsAppend DEF t
  <2>6. Rest(t) = RestTo(lines)[n]
    BY <1>1, <1>2, <1>6, RestAppend DEF t
  <2> QED
    BY <2>1, <2>3, <2>4, <2>5, <2>6
<1>11. CASE line.kind = "header" /\ line = HostTable /\ ~ state.written
  <2> DEFINE u == Append(t, row)
  <2>1. next.out = u /\ next.inside = TRUE /\ next.written = TRUE
    BY <1>11 DEF next, PassLine, Inserted, u, t, row, s
  <2>2. /\ t \in Seq(Line) /\ Loadable(t) /\ TableOf(t, Len(t)) = TableOf(lines, n)
        /\ AddressTexts(t) = {} /\ Rest(t) = RestTo(lines)[n]
        /\ \A i \in DOMAIN t : t[i] = line \/ \E k \in DOMAIN s : t[i] = s[k]
    BY <1>2, <1>10, <1>11
  <2>3. TableOf(lines, n) = "host-access"
    BY <1>1, <1>5, <1>11, HeaderLines
  <2>4. AddressesOf(t) = {}
    BY <2>2, NoTexts
  <2>5. MayFollow(t, row)
    BY <1>9, <2>2, <2>3, <2>4 DEF MayFollow
  <2>6. Loadable(u)
    BY <1>9, <2>2, <2>5, LoadableAppend
  <2>7. TableOf(u, Len(u)) = TableOf(lines, n)
    BY <1>9, <2>2, TableAppend
  <2>8. AddressTexts(u) = {address}
    BY <1>9, <2>2, <2>3, TextsAppend
  <2>9. Rest(u) = RestTo(lines)[n]
    BY <1>9, <2>2, RestAppend
  <2>10. \A i \in DOMAIN u : u[i] = row \/ u[i] = line \/ \E k \in DOMAIN s : u[i] = s[k]
    BY <1>9, <2>2
  <2>11. \A i \in DOMAIN u : u[i].kind = "header" => \E j \in 1..n : lines[j] = u[i]
    <3> SUFFICES ASSUME NEW i \in DOMAIN u, u[i].kind = "header" PROVE \E j \in 1..n : lines[j] = u[i]
      OBVIOUS
    <3>1. u[i] = line \/ \E k \in DOMAIN s : u[i] = s[k]
      BY <1>9, <2>10
    <3> QED
      BY <1>1, <1>3, <3>1 DEF line
  <2> HIDE DEF u
  <2> QED
    BY <1>4, <2>1, <2>3, <2>6, <2>7, <2>8, <2>9, <2>11 DEF Tracks
\* A line that is taken over as it is.
<1>12. ASSUME line.kind # "address", next.out = t, next.written = state.written,
              next.inside <=> TableOf(lines, n) = "host-access", next.inside => next.written,
              line = HostTable => state.written
       PROVE  Tracks(lines, address, n, next)
  <2>1. /\ t \in Seq(Line) /\ Loadable(t) /\ TableOf(t, Len(t)) = TableOf(lines, n)
        /\ AddressTexts(t) = AddressTexts(s) /\ Rest(t) = RestTo(lines)[n]
        /\ \A i \in DOMAIN t : t[i] = line \/ \E k \in DOMAIN s : t[i] = s[k]
    BY <1>10, <1>12
  <2>2. \A i \in DOMAIN t : t[i].kind = "header" => \E j \in 1..n : lines[j] = t[i]
    <3> SUFFICES ASSUME NEW i \in DOMAIN t, t[i].kind = "header" PROVE \E j \in 1..n : lines[j] = t[i]
      OBVIOUS
    <3> QED
      BY <1>1, <1>3, <2>1 DEF line
  <2>3. \A i \in DOMAIN t : t[i] = HostTable => next.written
    BY <1>2, <1>12, <2>1
  <2> QED
    BY <1>2, <1>4, <1>12, <2>1, <2>2, <2>3 DEF Tracks
<1>13. CASE line.kind = "header" /\ ~ (line = HostTable /\ ~ state.written)
  <2>1. next = [state EXCEPT !.out = t, !.inside = (line = HostTable)]
    BY <1>13 DEF next, PassLine, t, s
  <2>2. next.out = t /\ next.written = state.written /\ next.inside = (line = HostTable)
    BY <1>2, <2>1 DEF PassStates
  <2>3. line = HostTable <=> TableOf(lines, n) = "host-access"
    BY <1>1, <1>5, <1>13, HeaderLines
  <2> QED
    BY <1>12, <1>13, <2>2, <2>3
<1>14. CASE line.kind = "address"
  <2>1. TableOf(lines, n) = TableOf(lines, n - 1) /\ TableOf(lines, n) = "host-access"
    BY <1>5, <1>7, <1>14
  <2>2. state.inside /\ state.written
    BY <1>2, <2>1
  <2>3. next = [state EXCEPT !.out = s, !.written = TRUE]
    BY <1>14, <2>2 DEF next, PassLine, s
  <2>4. next = state
    BY <1>2, <2>2, <2>3 DEF PassStates, s
  <2>5. RestTo(lines)[n] = RestTo(lines)[n - 1]
    BY <1>6, <1>14 DEF Kept
  <2>6. \A i \in DOMAIN s : s[i].kind = "header" => \E j \in 1..n : lines[j] = s[i]
    BY <1>1, <1>3
  <2> QED
    BY <1>2, <2>1, <2>4, <2>5, <2>6 DEF Tracks, s
<1>15. CASE line.kind \notin {"header", "address"}
  <2>1. next = [state EXCEPT !.out = t]
    BY <1>15 DEF next, PassLine, t, s
  <2>2. next.out = t /\ next.written = state.written /\ next.inside = state.inside
    BY <1>2, <2>1 DEF PassStates
  <2>3. line # HostTable
    BY <1>15 DEF HostTable, Header
  <2> QED
    BY <1>2, <1>5, <1>12, <1>15, <2>2, <2>3
<1> QED
  BY <1>1, <1>11, <1>13, <1>14, <1>15

\* What the companion becomes: it loads, holds what it held, and has the address.
LEMMA RewriteSound ==
  ASSUME NEW lines \in Seq(Line), Loadable(lines), NEW address \in Texts
  PROVE  LET new == Rewrite(lines, address) IN
         new \in Seq(Line) /\ Loadable(new) /\ Rest(new) = Rest(lines) /\ AddressTexts(new) = {address}
<1> DEFINE pass == Pass(lines, address)
           N == Len(lines)
           P == {n \in 0..N : Tracks(lines, address, n, pass[n])}
<1>1. N \in Nat /\ \A n \in 1..N : n \in 0..N
  OBVIOUS
<1>2. pass[0] = PassStart /\ \A n \in 1..N : pass[n] = PassLine(pass[n - 1], lines[n], address)
  BY PassUnfolds
<1> HIDE DEF pass
<1>3. 0 \in P
  <2>1. 0 \in 0..N
    BY <1>1
  <2> QED
    BY <1>2, <2>1, TracksAtFirst
<1>4. ASSUME NEW n \in 1..N, n - 1 \in P
      PROVE  n \in P
  <2>1. Tracks(lines, address, n - 1, pass[n - 1])
    BY <1>4
  <2>2. Tracks(lines, address, n, PassLine(pass[n - 1], lines[n], address))
    BY <2>1, TracksOn
  <2> QED
    BY <1>1, <1>2, <2>2
<1>5. Tracks(lines, address, N, pass[N])
  <2> HIDE DEF P
  <2>1. 0..N \subseteq P
    BY <1>1, <1>3, <1>4, HoldsAll
  <2>2. N \in 0..N
    BY <1>1
  <2>3. N \in P
    BY <2>1, <2>2
  <2> QED
    BY <2>3 DEF P
<1> DEFINE done == pass[N]
           s == done.out
<1>6. /\ s \in Seq(Line) /\ Loadable(s) /\ done.written \in BOOLEAN
      /\ \A i \in DOMAIN s : s[i] = HostTable => done.written
      /\ AddressTexts(s) = (IF done.written THEN {address} ELSE {}) /\ Rest(s) = Rest(lines)
  BY <1>5 DEF Tracks, PassStates, Rest
<1>7. Rewrite(lines, address) =
        IF done.written THEN s ELSE Append(Append(Append(s, Blank), HostTable), Address(address))
  BY DEF Rewrite, pass
<1> HIDE DEF done, s
<1>8. CASE done.written
  BY <1>6, <1>7, <1>8
<1>9. CASE ~ done.written
  <2> DEFINE a == Append(s, Blank)
             b == Append(a, HostTable)
             c == Append(b, Address(address))
  <2>1. /\ Blank \in Line /\ HostTable \in Line /\ Address(address) \in Line
        /\ Blank.kind = "blank" /\ HostTable.kind = "header" /\ HostTable.text = "host-access"
        /\ Address(address).kind = "address" /\ Address(address).text = address
        /\ ~ Kept(Blank) /\ ~ Kept(HostTable) /\ ~ Kept(Address(address)) /\ Blank # HostTable
    <3>0. "none" \in Texts /\ "host-access" \in Texts
      BY DoctorAssumption
    <3>1. Blank \in Line /\ Blank.kind = "blank" /\ ~ Kept(Blank)
      BY <3>0 DEF Blank, Line, Kept
    <3>2. HostTable \in Line /\ HostTable.kind = "header" /\ HostTable.text = "host-access" /\ ~ Kept(HostTable)
      BY <3>0 DEF HostTable, Header, Line, Kept
    <3>3. /\ Address(address) \in Line /\ Address(address).kind = "address" /\ Address(address).text = address
          /\ ~ Kept(Address(address))
      BY DEF Address, Line, Kept
    <3> QED
      BY <3>1, <3>2, <3>3
  <2>2. a \in Seq(Line) /\ Loadable(a) /\ AddressTexts(a) = {} /\ Rest(a) = Rest(lines)
    <3>1. MayFollow(s, Blank)
      BY <2>1 DEF MayFollow
    <3> QED
      BY <1>6, <1>9, <2>1, <3>1, LoadableAppend, TextsAppend, RestAppend
  <2>3. \A i \in DOMAIN a : a[i] # HostTable
    <3>1. \A i \in DOMAIN a : a[i] = Blank \/ \E k \in DOMAIN s : a[i] = s[k]
      BY <1>6, <2>1
    <3> QED
      BY <1>6, <1>9, <2>1, <3>1
  <2> HIDE DEF a
  <2>4. b \in Seq(Line) /\ Loadable(b) /\ AddressTexts(b) = {} /\ Rest(b) = Rest(lines)
    <3>1. MayFollow(a, HostTable)
      BY <2>1, <2>3 DEF MayFollow
    <3> QED
      BY <2>1, <2>2, <3>1, LoadableAppend, TextsAppend, RestAppend
  <2>5. TableOf(b, Len(b)) = "host-access"
    BY <2>1, <2>2, TableAppend
  <2> HIDE DEF b
  <2>6. c \in Seq(Line) /\ Loadable(c) /\ AddressTexts(c) = {address} /\ Rest(c) = Rest(lines)
    <3>1. MayFollow(b, Address(address))
      BY <2>1, <2>4, <2>5, NoTexts DEF MayFollow
    <3> QED
      BY <2>1, <2>4, <2>5, <3>1, LoadableAppend, TextsAppend, RestAppend
  <2> QED
    BY <1>7, <1>9, <2>6 DEF a, b
<1> QED
  BY <1>8, <1>9

----------------------------------------------------------------------------
DoctorPlaces == {"resolve", "diagnose", "read", "publish", "choose", "copy", "reload", "restart", "ended"}
MaybeGateway == {"none"} \cup Gateways
DoctorRecords ==
  [pc : DoctorPlaces, repair : BOOLEAN, denied : BOOLEAN, round : {"initial", "repaired"}, gateway : MaybeGateway,
   snapshot : Seq(Line), plan : {"none", "absent", "matching", "different"}, saved : MaybeGateway, applied : BOOLEAN,
   exit : {"success", "config", "operational", "policy"}]

FirstLinesOf(first) == IF first = Missing THEN <<>> ELSE first
Holds(lines, first) == lines \in Seq(Line) /\ Loadable(lines) /\ Rest(lines) = Rest(FirstLinesOf(first))

\* The companion is as it was, or holds what it held with the address last chosen.
CompanionInv ==
  /\ chosen \in MaybeGateway /\ (firstCompanion # Missing => firstCompanion \in Seq(Line) /\ Loadable(firstCompanion))
  /\ IF chosen = "none" THEN companion = firstCompanion
     ELSE Holds(companion, firstCompanion) /\ AddressTexts(companion) = {chosen}

\* What a running command has found and done.
CommandOf(this) ==
  /\ this.pc = "publish" => Holds(this.snapshot, firstCompanion)
  /\ this.pc \in {"read", "publish"} => this.gateway # "none"
  /\ this.pc = "choose" => this.gateway = "none" \/ this.saved = this.gateway
  /\ this.round = "repaired" \/ this.pc \in {"copy", "reload", "restart"} => this.repair /\ daemon = "rootless"
  /\ this.round = "initial" => ~ this.applied
  /\ this.pc = "resolve" => this.gateway = "none"
  /\ this.pc = "ended" =>
       /\ this.exit = "success" /\ policy = "docker-gateway" => this.denied \/ (this.gateway # "none" /\ this.saved = this.gateway)
       /\ this.exit = "policy" => daemon = "rootful" /\ ~ this.applied
       /\ this.exit = "config" => this.gateway = "none"
Command(d) == CommandOf(doctor[d])
DoctorInv ==
  /\ doctor \in [Doctors -> {Gone} \cup DoctorRecords] /\ override \in {"absent", "matching", "different"}
  /\ daemon \in {"rootless", "rootful"}
  /\ CompanionInv
  /\ \A d \in Doctors : doctor[d].pc # "idle" => Command(d)

\* That there is no companion is not a companion.
LEMMA MissingIsNone == Missing \notin Seq(Line)
<1> SUFFICES ASSUME Missing \in Seq(Line) PROVE FALSE
  OBVIOUS
<1>1. Missing[1] = [kind |-> "missing", text |-> "none"] /\ Missing[1] \in Line
  BY DEF Missing
<1> QED
  BY <1>1 DEF Line

\* An empty companion loads.
LEMMA EmptyLoads == <<>> \in Seq(Line) /\ Loadable(<<>>)
<1>1. <<>> \in Seq(Line) /\ DOMAIN <<>> = {}
  OBVIOUS
<1>2. AddressesOf(<<>>) = {}
  BY <1>1 DEF AddressesOf
<1>3. Cardinality({}) = 0
  BY FS_EmptySet
<1>4. Cardinality(AddressesOf(<<>>)) = 0
  BY <1>2, <1>3, Zenon
<1> QED
  BY <1>1, <1>4 DEF Loadable

\* The invariant holds before any command.
LEMMA DoctorInitially == HostInit => DoctorInv
<1> SUFFICES ASSUME HostInit PROVE DoctorInv
  OBVIOUS
<1>1. doctor = [d \in Doctors |-> Gone] /\ chosen = "none" /\ firstCompanion = companion
  BY DEF HostInit
<1>2. companion = Missing \/ (companion \in Seq(Line) /\ Loadable(companion))
  BY DoctorAssumption DEF HostInit
<1>3. CompanionInv
  BY <1>1, <1>2 DEF CompanionInv, MaybeGateway
<1>4. override \in {"absent", "matching", "different"} /\ daemon \in {"rootless", "rootful"}
  BY DEF HostInit
<1>5. \A d \in Doctors : doctor[d].pc = "idle"
  BY <1>1 DEF Gone
<1> QED
  BY <1>1, <1>3, <1>4, <1>5 DEF DoctorInv

\* A step of one command: it is enough to look at the command and at the files.
LEMMA OneDoctor ==
  ASSUME DoctorInv, NEW d \in Doctors, NEW r \in {Gone} \cup DoctorRecords, DoctorBecomes(d, r),
         UNCHANGED host, override' \in {"absent", "matching", "different"}, CompanionInv',
         r.pc # "idle" => CommandOf(r)
  PROVE  DoctorInv'
<1>1. doctor \in [Doctors -> {Gone} \cup DoctorRecords]
  BY DEF DoctorInv
<1>2. /\ doctor' \in [Doctors -> {Gone} \cup DoctorRecords] /\ doctor'[d] = r
      /\ \A e \in Doctors : e # d => doctor'[e] = doctor[e]
  BY <1>1 DEF DoctorBecomes
<1>3. policy' = policy /\ daemon' = daemon /\ firstCompanion' = firstCompanion
  BY DEF host
<1>4. ASSUME NEW e \in Doctors, (doctor[e].pc # "idle")'
      PROVE  Command(e)'
  <2>1. CommandOf(doctor'[e])
    BY <1>2, <1>4 DEF DoctorInv, Command
  <2> QED
    BY <1>3, <2>1 DEF Command, CommandOf
<1> QED
  BY <1>2, <1>3, <1>4 DEF DoctorInv

\* A command that only goes from one place to another, or ends.
LEMMA CompanionStays ==
  ASSUME DoctorInv, UNCHANGED <<host, companion, chosen>>
  PROVE  CompanionInv'
BY DEF DoctorInv, CompanionInv, host, Holds

\* What the invariant says of one command.
LEMMA CommandHere ==
  ASSUME DoctorInv, NEW d \in Doctors, doctor[d].pc # "idle"
  PROVE  /\ doctor[d] \in DoctorRecords /\ CommandOf(doctor[d]) /\ CompanionInv
         /\ override \in {"absent", "matching", "different"} /\ daemon \in {"rootless", "rootful"}
BY DEF DoctorInv, Command, Gone

\* A command begins.
LEMMA StartDoctorKeeps ==
  ASSUME DoctorInv, NEW d \in Doctors, NEW repair \in BOOLEAN, NEW approved \in BOOLEAN, StartDoctor(d, repair, approved)
  PROVE  DoctorInv'
<1> DEFINE r == [pc |-> IF repair /\ ~ approved THEN "ended" ELSE "resolve", repair |-> repair,
                 denied |-> repair /\ ~ approved, round |-> "initial", gateway |-> "none", snapshot |-> <<>>,
                 plan |-> "none", saved |-> "none", applied |-> FALSE, exit |-> "success"]
<1>1. DoctorBecomes(d, r) /\ UNCHANGED <<host, companion, override, chosen>>
  BY DEF StartDoctor
<1>2. r \in DoctorRecords
  BY DEF DoctorRecords, DoctorPlaces, MaybeGateway
<1>3. CommandOf(r)
  BY DEF CommandOf
<1>4. CompanionInv'
  BY <1>1, CompanionStays
<1>5. override' \in {"absent", "matching", "different"}
  BY <1>1 DEF DoctorInv
<1> HIDE DEF r
<1> QED
  BY <1>1, <1>2, <1>3, <1>4, <1>5, OneDoctor

\* A command that only changes what it remembers.
LEMMA Remembers ==
  ASSUME DoctorInv, NEW d \in Doctors, NEW r \in {Gone} \cup DoctorRecords, DoctorBecomes(d, r),
         UNCHANGED <<host, companion, override, chosen>>, r.pc # "idle" => CommandOf(r)
  PROVE  DoctorInv'
<1>1. CompanionInv'
  BY CompanionStays
<1>2. override' \in {"absent", "matching", "different"}
  BY DEF DoctorInv
<1> QED
  BY <1>1, <1>2, OneDoctor

\* A command ends with an exit that agrees with what it has done.
LEMMA EndsKeeps ==
  ASSUME DoctorInv, NEW d \in Doctors, doctor[d].pc # "idle", NEW ending \in {"success", "config", "operational", "policy"},
         Ends(d, ending), UNCHANGED <<host, companion, override, chosen>>,
         ending = "success" /\ policy = "docker-gateway" =>
           doctor[d].denied \/ (doctor[d].gateway # "none" /\ doctor[d].saved = doctor[d].gateway),
         ending = "policy" => daemon = "rootful" /\ doctor[d].round = "initial",
         ending = "config" => doctor[d].gateway = "none"
  PROVE  DoctorInv'
<1> DEFINE this == doctor[d]
           r == [this EXCEPT !.pc = "ended", !.exit = ending]
<1>1. this \in DoctorRecords /\ CommandOf(this)
  BY CommandHere
<1>2. DoctorBecomes(d, r)
  BY DEF Ends
<1>3. /\ r \in DoctorRecords /\ r.pc = "ended" /\ r.exit = ending /\ r.repair = this.repair /\ r.denied = this.denied
      /\ r.round = this.round /\ r.gateway = this.gateway /\ r.saved = this.saved /\ r.applied = this.applied
  BY <1>1 DEF DoctorRecords, DoctorPlaces
<1> HIDE DEF r
<1>4. CommandOf(r)
  BY <1>1, <1>3 DEF CommandOf
<1> QED
  BY <1>2, <1>3, <1>4, Remembers

\* The policy is resolved (_resolve_host_access).
LEMMA ResolvePolicyKeeps ==
  ASSUME DoctorInv, NEW d \in Doctors, ResolvePolicy(d)
  PROVE  DoctorInv'
<1> DEFINE this == doctor[d]
<1>1. this.pc = "resolve" /\ UNCHANGED <<host, companion, override, chosen>>
  BY DEF ResolvePolicy, DoctorAt
<1>2. this \in DoctorRecords /\ CommandOf(this)
  BY <1>1, CommandHere
<1>3. this.gateway = "none"
  BY <1>1, <1>2 DEF CommandOf
<1>4. CASE Ends(d, "config")
  BY <1>1, <1>3, <1>4, EndsKeeps
<1>5. CASE policy # "docker-gateway" /\ Ends(d, "success")
  BY <1>1, <1>5, EndsKeeps
<1>6. CASE Goes(d, "diagnose")
  <2> DEFINE r == [this EXCEPT !.pc = "diagnose"]
  <2>1. /\ r \in DoctorRecords /\ r.pc = "diagnose" /\ r.repair = this.repair /\ r.round = this.round /\ r.applied = this.applied
        /\ DoctorBecomes(d, r)
    BY <1>2, <1>6 DEF DoctorRecords, DoctorPlaces, Goes
  <2> HIDE DEF r
  <2>2. CommandOf(r)
    BY <1>2, <2>1 DEF CommandOf
  <2> QED
    BY <1>1, <2>1, <2>2, Remembers
<1> QED
  BY <1>4, <1>5, <1>6 DEF ResolvePolicy

\* A gateway that answers is chosen, or none is.
LEMMA DiagnoseKeeps ==
  ASSUME DoctorInv, NEW d \in Doctors, Diagnose(d)
  PROVE  DoctorInv'
<1> DEFINE this == doctor[d]
<1>1. this.pc = "diagnose" /\ UNCHANGED <<host, companion, override, chosen>>
  BY DEF Diagnose, DoctorAt
<1>2. this \in DoctorRecords /\ CommandOf(this)
  BY <1>1, CommandHere
<1>3. CASE DoctorBecomes(d, [this EXCEPT !.pc = "choose", !.gateway = "none"])
  <2> DEFINE r == [this EXCEPT !.pc = "choose", !.gateway = "none"]
  <2>1. /\ r \in DoctorRecords /\ r.pc = "choose" /\ r.gateway = "none" /\ r.repair = this.repair /\ r.round = this.round
        /\ r.applied = this.applied
    BY <1>2 DEF DoctorRecords, DoctorPlaces, MaybeGateway
  <2> HIDE DEF r
  <2>2. CommandOf(r)
    BY <1>2, <2>1 DEF CommandOf
  <2> QED
    BY <1>1, <1>3, <2>1, <2>2, Remembers DEF r
<1>4. ASSUME NEW a \in Gateways, DoctorBecomes(d, [this EXCEPT !.pc = "read", !.gateway = a])
      PROVE  DoctorInv'
  <2> DEFINE r == [this EXCEPT !.pc = "read", !.gateway = a]
  <2>1. /\ r \in DoctorRecords /\ r.pc = "read" /\ r.gateway = a /\ r.repair = this.repair /\ r.round = this.round
        /\ r.applied = this.applied /\ a # "none"
    BY <1>2 DEF DoctorRecords, DoctorPlaces, MaybeGateway, Gateways
  <2> HIDE DEF r
  <2>2. CommandOf(r)
    BY <1>2, <2>1 DEF CommandOf
  <2> QED
    BY <1>1, <1>4, <2>1, <2>2, Remembers DEF r
<1>5. ASSUME NEW tried \in GatewayCandidates, NEW i \in DOMAIN tried
      PROVE  Resolved(tried[i]) \subseteq Gateways
  <2>1. tried[i] \in {"slirp", "lan", "host-gateway"}
    BY <1>5 DEF GatewayCandidates
  <2> QED
    BY <2>1 DEF Resolved, Gateways
<1> QED
  BY <1>3, <1>4, <1>5 DEF Diagnose

\* The diagnosis fails.
LEMMA DiagnosisFailsKeeps ==
  ASSUME DoctorInv, NEW d \in Doctors, DiagnosisFails(d)
  PROVE  DoctorInv'
BY EndsKeeps DEF DiagnosisFails, DoctorAt

\* The companion cannot be read or written.
LEMMA CompanionFailsKeeps ==
  ASSUME DoctorInv, NEW d \in Doctors, CompanionFails(d)
  PROVE  DoctorInv'
BY EndsKeeps DEF CompanionFails, DoctorAt

\* The companion is read and its new text made.
LEMMA ReadCompanionKeeps ==
  ASSUME DoctorInv, NEW d \in Doctors, ReadCompanion(d)
  PROVE  DoctorInv'
<1> DEFINE this == doctor[d]
           read == IF companion = Missing THEN <<>> ELSE companion
<1>1. this.pc = "read" /\ UNCHANGED <<host, companion, override, chosen>>
  BY DEF ReadCompanion, DoctorAt
<1>2. this \in DoctorRecords /\ CommandOf(this) /\ CompanionInv
  BY <1>1, CommandHere
<1>3. CASE Ends(d, "operational")
  BY <1>1, <1>3, EndsKeeps
<1>4. Holds(read, firstCompanion)
  <2>1. CASE companion = Missing
    <3>1. firstCompanion = Missing
      BY <1>2, <2>1, MissingIsNone DEF CompanionInv, Holds
    <3> QED
      BY <2>1, <3>1, EmptyLoads DEF Holds, FirstLinesOf
  <2>2. CASE companion # Missing
    BY <1>2, <2>2 DEF CompanionInv, Holds, FirstLinesOf
  <2> QED
    BY <2>1, <2>2
<1>5. CASE DoctorBecomes(d, [this EXCEPT !.pc = "publish", !.snapshot = read])
  <2> DEFINE r == [this EXCEPT !.pc = "publish", !.snapshot = read]
  <2>0. read \in Seq(Line)
    BY <1>4 DEF Holds
  <2> HIDE DEF read
  <2>1. /\ r \in DoctorRecords /\ r.pc = "publish" /\ r.snapshot = read /\ r.gateway = this.gateway /\ r.repair = this.repair
        /\ r.round = this.round /\ r.applied = this.applied
    BY <1>2, <2>0 DEF DoctorRecords, DoctorPlaces
  <2>3. DoctorBecomes(d, r)
    BY <1>5
  <2> HIDE DEF r
  <2>2. CommandOf(r)
    BY <1>1, <1>2, <1>4, <2>1 DEF CommandOf
  <2> QED
    BY <1>1, <2>1, <2>2, <2>3, Remembers
<1> QED
  BY <1>3, <1>5 DEF ReadCompanion

\* The new text replaces the companion (RewriteSound).
LEMMA PublishCompanionKeeps ==
  ASSUME DoctorInv, NEW d \in Doctors, PublishCompanion(d)
  PROVE  DoctorInv'
<1> DEFINE this == doctor[d]
           r == [this EXCEPT !.pc = "choose", !.saved = this.gateway, !.snapshot = <<>>]
<1>1. this.pc = "publish" /\ UNCHANGED <<host, override>> /\ DoctorBecomes(d, r)
      /\ companion' = Rewrite(this.snapshot, this.gateway) /\ chosen' = this.gateway
  BY DEF PublishCompanion, DoctorAt
<1>2. this \in DoctorRecords /\ CommandOf(this) /\ CompanionInv /\ override \in {"absent", "matching", "different"}
  BY <1>1, CommandHere
<1>3. /\ this.snapshot \in Seq(Line) /\ Loadable(this.snapshot) /\ Rest(this.snapshot) = Rest(FirstLinesOf(firstCompanion))
      /\ this.gateway # "none" /\ this.gateway \in MaybeGateway
  BY <1>1, <1>2 DEF CommandOf, Holds, DoctorRecords
<1>4. this.gateway \in Texts
  BY <1>3, DoctorAssumption DEF MaybeGateway
<1>5. Holds(companion', firstCompanion) /\ AddressTexts(companion') = {this.gateway}
  BY <1>1, <1>3, <1>4, RewriteSound DEF Holds
<1>6. CompanionInv'
  <2>1. firstCompanion' = firstCompanion
    BY <1>1 DEF host
  <2>2. firstCompanion # Missing => firstCompanion \in Seq(Line) /\ Loadable(firstCompanion)
    BY <1>2 DEF CompanionInv
  <2> QED
    BY <1>1, <1>3, <1>5, <2>1, <2>2 DEF CompanionInv, Holds
<1>7. /\ r \in DoctorRecords /\ r.pc = "choose" /\ r.gateway = this.gateway /\ r.saved = this.gateway /\ r.repair = this.repair
      /\ r.round = this.round /\ r.applied = this.applied
  BY <1>2, EmptyLoads DEF DoctorRecords, DoctorPlaces
<1> HIDE DEF r
<1>8. CommandOf(r)
  BY <1>1, <1>2, <1>7 DEF CommandOf
<1> QED
  BY <1>1, <1>2, <1>6, <1>7, <1>8, OneDoctor

\* What to do after the companion is settled: nothing, a repair, a refusal.
LEMMA ChooseKeeps ==
  ASSUME DoctorInv, NEW d \in Doctors, Choose(d)
  PROVE  DoctorInv'
<1> DEFINE this == doctor[d]
<1>1. this.pc = "choose" /\ UNCHANGED <<host, companion, override, chosen>>
  BY DEF Choose, DoctorAt
<1>2. this \in DoctorRecords /\ CommandOf(this) /\ override \in {"absent", "matching", "different"}
      /\ daemon \in {"rootless", "rootful"}
  BY <1>1, CommandHere
<1>3. this.gateway = "none" \/ this.saved = this.gateway
  BY <1>1, <1>2 DEF CommandOf
<1>4. this.round \in {"initial", "repaired"} /\ this.repair \in BOOLEAN
  BY <1>2 DEF DoctorRecords
<1>5. CASE Ends(d, Repaired(this.gateway))
  <2>1. Repaired(this.gateway) \in {"success", "operational"} /\ (Repaired(this.gateway) = "success" => this.gateway # "none")
    BY DEF Repaired
  <2> QED
    BY <1>1, <1>3, <1>5, <2>1, EndsKeeps
<1>6. CASE Ends(d, "operational")
  BY <1>1, <1>6, EndsKeeps
<1>7. CASE this.gateway # "none" /\ Ends(d, "success")
  BY <1>1, <1>3, <1>7, EndsKeeps
<1>8. CASE this.round = "initial" /\ daemon = "rootful" /\ Ends(d, "policy")
  BY <1>1, <1>8, EndsKeeps
<1>9. CASE this.repair /\ daemon = "rootless" /\ DoctorBecomes(d, [this EXCEPT !.pc = "copy", !.plan = OverridePlan])
  <2> DEFINE r == [this EXCEPT !.pc = "copy", !.plan = OverridePlan]
  <2>1. OverridePlan \in {"none", "absent", "matching", "different"}
    BY <1>2 DEF OverridePlan
  <2>2. /\ r \in DoctorRecords /\ r.pc = "copy" /\ r.repair = this.repair /\ r.round = this.round /\ r.applied = this.applied
    BY <1>2, <2>1 DEF DoctorRecords, DoctorPlaces
  <2>3. DoctorBecomes(d, r)
    BY <1>9
  <2> HIDE DEF r
  <2>4. CommandOf(r)
    BY <1>2, <1>9, <2>2 DEF CommandOf
  <2> QED
    BY <1>1, <2>2, <2>3, <2>4, Remembers
<1>10. \/ this.round = "repaired" /\ Ends(d, Repaired(this.gateway))
       \/ this.round = "initial" /\ this.gateway = "none" /\ (~ this.repair \/ daemon = "rootful") /\ Ends(d, "operational")
       \/ this.round = "initial" /\ this.gateway # "none" /\ ~ this.repair /\ Ends(d, "success")
       \/ this.round = "initial" /\ this.gateway # "none" /\ this.repair /\ daemon = "rootful" /\ Ends(d, "policy")
       \/ this.round = "initial" /\ this.repair /\ daemon = "rootless" /\
            \/ Ends(d, Repaired(this.gateway))
            \/ DoctorBecomes(d, [this EXCEPT !.pc = "copy", !.plan = OverridePlan])
  BY <1>2, <1>4 DEF Choose
<1> QED
  BY <1>5, <1>6, <1>7, <1>8, <1>9, <1>10

\* The override of the service is copied.
LEMMA CopyOverrideKeeps ==
  ASSUME DoctorInv, NEW d \in Doctors, CopyOverride(d)
  PROVE  DoctorInv'
<1> DEFINE this == doctor[d]
           r == [this EXCEPT !.pc = "reload"]
<1>1. this.pc = "copy" /\ override' = "matching" /\ DoctorBecomes(d, r) /\ UNCHANGED <<host, companion, chosen>>
  BY DEF CopyOverride, DoctorAt, Goes
<1>2. this \in DoctorRecords /\ CommandOf(this)
  BY <1>1, CommandHere
<1>3. /\ r \in DoctorRecords /\ r.pc = "reload" /\ r.repair = this.repair /\ r.round = this.round /\ r.applied = this.applied
  BY <1>2 DEF DoctorRecords, DoctorPlaces
<1> HIDE DEF r
<1>4. CommandOf(r)
  BY <1>1, <1>2, <1>3 DEF CommandOf
<1>5. CompanionInv'
  BY <1>1, CompanionStays
<1> QED
  BY <1>1, <1>3, <1>4, <1>5, OneDoctor

\* The service is asked to reload, to restart or for its state.
LEMMA ServiceCallKeeps ==
  ASSUME DoctorInv, NEW d \in Doctors, ServiceCall(d)
  PROVE  DoctorInv'
<1> DEFINE this == doctor[d]
<1>1. this.pc \in {"reload", "restart"} /\ UNCHANGED <<host, companion, override, chosen>>
  BY DEF ServiceCall, DoctorAt
<1>2. this \in DoctorRecords /\ CommandOf(this)
  BY <1>1, CommandHere
<1>3. this.repair /\ daemon = "rootless"
  BY <1>1, <1>2 DEF CommandOf
<1>4. CASE DoctorBecomes(d, [this EXCEPT !.pc = "restart"])
  <2> DEFINE r == [this EXCEPT !.pc = "restart"]
  <2>1. /\ r \in DoctorRecords /\ r.pc = "restart" /\ r.repair = this.repair /\ r.round = this.round /\ r.applied = this.applied
    BY <1>2 DEF DoctorRecords, DoctorPlaces
  <2>3. DoctorBecomes(d, r)
    BY <1>4
  <2> HIDE DEF r
  <2>2. CommandOf(r)
    BY <1>2, <1>3, <2>1 DEF CommandOf
  <2> QED
    BY <1>1, <2>1, <2>2, <2>3, Remembers
<1>5. CASE DoctorBecomes(d, [this EXCEPT !.pc = "diagnose", !.round = "repaired", !.applied = TRUE])
  <2> DEFINE r == [this EXCEPT !.pc = "diagnose", !.round = "repaired", !.applied = TRUE]
  <2>1. /\ r \in DoctorRecords /\ r.pc = "diagnose" /\ r.repair = this.repair /\ r.round = "repaired"
    BY <1>2 DEF DoctorRecords, DoctorPlaces
  <2>3. DoctorBecomes(d, r)
    BY <1>5
  <2> HIDE DEF r
  <2>2. CommandOf(r)
    BY <1>3, <2>1 DEF CommandOf
  <2> QED
    BY <1>1, <2>1, <2>2, <2>3, Remembers
<1> QED
  BY <1>4, <1>5 DEF ServiceCall, Goes

\* The repair fails.
LEMMA ApplicationFailsKeeps ==
  ASSUME DoctorInv, NEW d \in Doctors, ApplicationFails(d)
  PROVE  DoctorInv'
<1> DEFINE this == doctor[d]
           r == [this EXCEPT !.pc = "ended", !.exit = "operational"]
<1>1. this.pc \in {"copy", "reload", "restart"} /\ DoctorBecomes(d, r) /\ UNCHANGED <<host, companion, chosen>>
  BY DEF ApplicationFails, DoctorAt, Ends
<1>2. this \in DoctorRecords /\ CommandOf(this) /\ override \in {"absent", "matching", "different"}
  BY <1>1, CommandHere
<1>3. override' \in {"absent", "matching", "different"}
  BY <1>2 DEF ApplicationFails
<1>4. /\ r \in DoctorRecords /\ r.pc = "ended" /\ r.exit = "operational" /\ r.repair = this.repair /\ r.round = this.round
      /\ r.applied = this.applied
  BY <1>2 DEF DoctorRecords, DoctorPlaces
<1> HIDE DEF r
<1>5. CommandOf(r)
  BY <1>1, <1>2, <1>4 DEF CommandOf
<1>6. CompanionInv'
  BY <1>1, CompanionStays
<1> QED
  BY <1>1, <1>3, <1>4, <1>5, <1>6, OneDoctor

\* A command returns, or is killed.
LEMMA GoneKeeps ==
  ASSUME DoctorInv, NEW d \in Doctors, DoctorReturns(d) \/ DoctorKilled(d)
  PROVE  DoctorInv'
<1>1. DoctorBecomes(d, Gone) /\ UNCHANGED <<host, companion, chosen>>
  BY DEF DoctorReturns, DoctorKilled
<1>2. override' \in {"absent", "matching", "different"}
  BY DEF DoctorReturns, DoctorKilled, DoctorInv
<1>3. CompanionInv'
  BY <1>1, CompanionStays
<1> QED
  BY <1>1, <1>2, <1>3, OneDoctor DEF Gone

\* Every step keeps the invariant.
LEMMA DoctorKeeps == DoctorInv /\ [HostNext]_hostVars => DoctorInv'
<1> SUFFICES ASSUME DoctorInv, [HostNext]_hostVars PROVE DoctorInv'
  OBVIOUS
<1>1. ASSUME NEW d \in Doctors, DoctorStep(d)
      PROVE  DoctorInv'
  BY <1>1, StartDoctorKeeps, ResolvePolicyKeeps, DiagnoseKeeps, DiagnosisFailsKeeps,
     ReadCompanionKeeps, PublishCompanionKeeps,
     CompanionFailsKeeps, ChooseKeeps, CopyOverrideKeeps, ServiceCallKeeps, ApplicationFailsKeeps, GoneKeeps DEF DoctorStep
<1>2. CASE UNCHANGED hostVars
  <2>1. UNCHANGED <<host, companion, override, chosen, doctor>> /\ policy' = policy /\ daemon' = daemon /\ firstCompanion' = firstCompanion
    BY <1>2 DEF hostVars, host
  <2>2. CompanionInv'
    BY <2>1, CompanionStays
  <2>3. ASSUME NEW e \in Doctors, (doctor[e].pc # "idle")'
        PROVE  Command(e)'
    BY <2>1, <2>3 DEF DoctorInv, Command, CommandOf
  <2> QED
    BY <2>1, <2>2, <2>3 DEF DoctorInv
<1> QED
  BY <1>1, <1>2 DEF HostNext

\* The invariant always holds.
LEMMA DoctorKept == HostSpec => []DoctorInv
<1> QED
  BY DoctorInitially, DoctorKeeps, PTL DEF HostSpec

\* The invariant is enough for what is promised of the companion.
LEMMA DoctorMeans == DoctorInv => CompanionSound
<1> SUFFICES ASSUME DoctorInv PROVE CompanionSound
  OBVIOUS
<1>1. CompanionInv
  BY DEF DoctorInv
<1>2. ASSUME companion # Missing
      PROVE  LET first == IF firstCompanion = Missing THEN <<>> ELSE firstCompanion IN
             /\ Loadable(companion) /\ Rest(companion) = Rest(first)
             /\ chosen # "none" => {companion[i].text : i \in AddressesOf(companion)} = {chosen}
             /\ chosen = "none" => companion = first
  <2>1. CASE chosen = "none"
    BY <1>1, <1>2, <2>1 DEF CompanionInv
  <2>2. CASE chosen # "none"
    BY <1>1, <2>2 DEF CompanionInv, Holds, FirstLinesOf, AddressTexts
  <2> QED
    BY <2>1, <2>2
<1>3. ASSUME NEW d \in Doctors, doctor[d].pc = "ended", policy = "docker-gateway"
      PROVE  LET this == doctor[d] IN
             /\ this.exit = "success" => this.denied \/ (this.gateway # "none" /\ this.saved = this.gateway)
             /\ this.exit = "policy" => daemon = "rootful" /\ ~ this.applied
             /\ this.applied => this.repair /\ daemon = "rootless"
             /\ this.exit = "config" => this.gateway = "none"
  <2>1. doctor[d] \in DoctorRecords /\ CommandOf(doctor[d])
    BY <1>3, CommandHere
  <2>2. doctor[d].round \in {"initial", "repaired"}
    BY <2>1 DEF DoctorRecords
  <2> QED
    BY <1>3, <2>1, <2>2 DEF CommandOf
<1> QED
  BY <1>2, <1>3 DEF CompanionSound

\* However many commands overlap, fail or are killed, the companion stays one the
\* constructor loads, with all that it held, and its address is the one last found
\* to work; a command that says success has published the gateway it names
\* (build_orchestration.py: doctor_host_access and _rewrite_gateway).
THEOREM CompanionsSound == HostSpec => []CompanionSound
<1> QED
  BY DoctorKept, DoctorMeans, PTL

-----------------------------------------------------------------------------
(* The launches.                                                           *)

\* Places of a launch: before its projection is published, and while it is needed.
Opening == {"load", "plan", "state", "materialize", "project"}
Open == {"list", "render", "run", "wait", "finish"}
LaunchPlaces == Opening \cup Open \cup {"ended"}

NamesThere == {Name(n) : n \in Nat} \cup {o.name : o \in UNION OtherNames}
Listable == [name : NamesThere, number : Nat, of : Nat]
LaunchRecords ==
  [pc : LaunchPlaces, dry : BOOLEAN, paths : WorkspaceSelections, serial : Nat, listed : SUBSET Listable,
   number : Nat, ran : {"no", "refused", "zero", "other"},
   exit : {"none", "config", "operational", "success", "interrupted"}]

LaunchTypeOK ==
  /\ launch \in [Launchers -> {NoLaunch} \cup LaunchRecords] /\ launches \in Nat
  /\ projections \subseteq Nat /\ abandoned \subseteq Nat /\ cached \in BOOLEAN
  /\ IsFiniteSet(containers) /\ containers \subseteq Listable

Launching(t) == launch[t].pc # "idle"
\* A launch has a number of its own, of those given so far, and so has a projection.
SerialsOwn ==
  /\ projections \subseteq 1..launches
  /\ \A t \in Launchers : Launching(t) => launch[t] \in LaunchRecords /\ launch[t].serial \in 1..launches
  /\ \A t, u \in Launchers : Launching(t) /\ Launching(u) /\ launch[t].serial = launch[u].serial => t = u

\* Who a projection belongs to.
ProjectionsOwned ==
  \A serial \in projections : serial \in abandoned \/
    \E t \in Launchers : launch[t].pc \in Open /\ launch[t].serial = serial

NamesDiffer == \A c, d \in containers : c.name = d.name => c = d

\* The number is the lowest the listing leaves free.
LowestFree(number, listed) ==
  /\ \A c \in listed : c.number # number
  /\ \A k \in 1..(number - 1) : \E c \in listed : c.number = k

\* How far a launch is, by its place.
LaunchOf(t) == LET this == launch[t] IN
  /\ this.pc \in Opening => this.serial \notin projections
  /\ this.pc \in Open => this.serial \in projections
  /\ this.pc \in {"render", "run", "wait", "finish"} => LowestFree(this.number, this.listed)
  /\ this.pc \in Opening \cup {"list", "render", "run", "wait"} => this.ran = "no"
  /\ this.pc = "finish" => this.ran \in {"zero", "other"}
  /\ this.pc \in Open \cup {"state", "materialize", "project"} => ~ this.dry
  /\ this.pc = "plan" => this.dry
  /\ this.pc = "wait" => \E c \in containers : c.of = this.serial
  /\ this.pc = "ended" =>
       /\ this.exit = "success" => (IF this.dry THEN this.ran = "no" ELSE this.ran = "zero")
       /\ this.exit = "config" /\ this.ran # "no" => this.serial \in abandoned

LaunchInv ==
  LaunchTypeOK /\ SerialsOwn /\ ProjectionsOwned /\ NamesDiffer /\ \A t \in Launchers : LaunchOf(t)

\* The invariant holds before any launch.
LEMMA LaunchInitially == LaunchInit => LaunchInv
<1> SUFFICES ASSUME LaunchInit PROVE LaunchInv
  OBVIOUS
<1>1. PICK others \in OtherNames : containers = {[name |-> o.name, number |-> o.number, of |-> 0] : o \in others}
  BY DEF LaunchInit
<1>2. IsFiniteSet(containers)
  <2> DEFINE f == [o \in others |-> [name |-> o.name, number |-> o.number, of |-> 0]]
  <2>1. f \in Surjection(others, containers)
    BY <1>1 DEF Surjection
  <2>2. IsFiniteSet(others)
    BY LaunchAssumption
  <2> QED
    BY <2>1, <2>2, FS_Surjection
<1>3. containers \subseteq Listable
  BY <1>1, LaunchAssumption DEF Listable, NamesThere
<1>4. LaunchTypeOK
  BY <1>2, <1>3 DEF LaunchInit, LaunchTypeOK
<1>5. SerialsOwn /\ ProjectionsOwned
  BY DEF LaunchInit, SerialsOwn, ProjectionsOwned, Launching, NoLaunch
<1>6. NamesDiffer
  BY <1>1, LaunchAssumption DEF NamesDiffer
<1>7. \A t \in Launchers : LaunchOf(t)
  BY DEF LaunchInit, LaunchOf, NoLaunch, Open, Opening
<1> QED
  BY <1>4, <1>5, <1>6, <1>7 DEF LaunchInv

\* What the steps of a launch have in common.
Continues(t, after) ==
  /\ Launching(t) /\ (after = NoLaunch \/ (after \in LaunchRecords /\ after.serial = launch[t].serial))
  /\ launch' = [launch EXCEPT ![t] = after] /\ launches' = launches
  /\ abandoned \subseteq abandoned' /\ abandoned' \subseteq abandoned \cup {launch[t].serial}
  /\ projections \ {launch[t].serial} \subseteq projections'
  /\ projections' \subseteq projections \cup (IF after.pc \in Open THEN {launch[t].serial} ELSE {})
  /\ launch[t].pc \in Open =>
       after.pc \in Open \/ launch[t].serial \in abandoned' \/ launch[t].serial \notin projections'
  /\ containers \subseteq containers' /\ cached' \in BOOLEAN

\* What one launch does with its own projection leaves the others as they are.
LEMMA ContinuesKeeps ==
  ASSUME LaunchInv, NEW t \in Launchers, NEW after, Continues(t, after)
  PROVE  /\ launch' \in [Launchers -> {NoLaunch} \cup LaunchRecords] /\ launches' \in Nat
         /\ projections' \subseteq Nat /\ abandoned' \subseteq Nat
         /\ SerialsOwn' /\ ProjectionsOwned' /\ \A u \in Launchers : u # t => LaunchOf(u)'
<1> USE DEF Launching
<1>1. launch[t] \in LaunchRecords /\ launch[t].serial \in 1..launches /\ launches \in Nat
  BY DEF LaunchInv, SerialsOwn, Continues, LaunchTypeOK
<1>2. launch' \in [Launchers -> {NoLaunch} \cup LaunchRecords] /\ launches' \in Nat
  BY DEF LaunchInv, LaunchTypeOK, Continues
<1>3. projections' \subseteq Nat /\ abandoned' \subseteq Nat
  BY <1>1 DEF LaunchInv, LaunchTypeOK, Continues
<1>4. launch'[t] = after /\ \A u \in Launchers : u # t => launch'[u] = launch[u]
  BY DEF LaunchInv, LaunchTypeOK, Continues
<1>5. SerialsOwn'
  <2>1. after = NoLaunch \/ (after \in LaunchRecords /\ after.serial = launch[t].serial)
    BY DEF Continues
  <2>2. launches' = launches
    BY DEF Continues
  <2>3. \A u \in Launchers : launch'[u].pc # "idle" =>
          /\ launch[u].pc # "idle" /\ launch'[u] \in LaunchRecords /\ launch'[u].serial = launch[u].serial
    <3> TAKE u \in Launchers
    <3>1. CASE u = t
      BY <3>1, <1>1, <1>4, <2>1 DEF NoLaunch, LaunchRecords, LaunchPlaces, Opening, Open, Continues
    <3>2. CASE u # t
      BY <3>2, <1>4 DEF LaunchInv, SerialsOwn
    <3> QED
      BY <3>1, <3>2
  <2>4. projections' \subseteq 1..launches'
    BY <1>1, <2>2 DEF LaunchInv, SerialsOwn, Continues
  <2> QED
    BY <2>2, <2>3, <2>4 DEF LaunchInv, SerialsOwn
<1>6. ProjectionsOwned'
  <2> SUFFICES ASSUME NEW s \in projections', s \notin abandoned'
               PROVE  \E u \in Launchers : launch'[u].pc \in Open /\ launch'[u].serial = s
    BY DEF ProjectionsOwned
  <2>1. CASE s \notin projections
    <3>1. after.pc \in Open /\ s = launch[t].serial
      BY <2>1 DEF Continues
    <3>2. after # NoLaunch
      BY <3>1 DEF NoLaunch, Open
    <3> QED
      BY <3>1, <3>2, <1>4 DEF Continues
  <2>2. CASE s \in projections
    <3>1. PICK u \in Launchers : launch[u].pc \in Open /\ launch[u].serial = s
      BY <2>2 DEF LaunchInv, ProjectionsOwned, Continues
    <3>2. CASE u # t
      BY <3>1, <3>2, <1>4
    <3>3. CASE u = t
      <4>1. after.pc \in Open
        BY <3>1, <3>3 DEF Continues
      <4>2. after # NoLaunch
        BY <4>1 DEF NoLaunch, Open
      <4> QED
        BY <3>1, <3>3, <4>1, <4>2, <1>4 DEF Continues
    <3> QED
      BY <3>2, <3>3
  <2> QED
    BY <2>1, <2>2
<1>7. ASSUME NEW u \in Launchers, u # t PROVE LaunchOf(u)'
  <2>1. launch'[u] = launch[u] /\ LaunchOf(u)
    BY <1>4, <1>7 DEF LaunchInv
  <2>2. launch[u].pc \in Open \cup Opening => launch[u].serial # launch[t].serial
    BY <1>1, <1>7 DEF LaunchInv, SerialsOwn, Open, LaunchRecords, LaunchPlaces, Opening, Continues
  <2>3. /\ launch[u].pc \in Open => launch[u].serial \in projections'
        /\ launch[u].pc \in Opening => launch[u].serial \notin projections'
    BY <2>1, <2>2 DEF LaunchOf, Continues
  <2>4. abandoned \subseteq abandoned' /\ containers \subseteq containers'
    BY DEF Continues
  <2> QED
    BY <2>1, <2>3, <2>4 DEF LaunchOf, LowestFree
<1> QED
  BY <1>2, <1>3, <1>5, <1>6, <1>7

\* A step that leaves the containers alone: it is enough to look at the launch itself.
LEMMA ContinuesAlone ==
  ASSUME LaunchInv, NEW t \in Launchers, NEW after, Continues(t, after), containers' = containers,
         LaunchOf(t)'
  PROVE  LaunchInv'
<1>1. LaunchTypeOK'
  BY ContinuesKeeps DEF LaunchInv, LaunchTypeOK, Continues
<1>2. NamesDiffer'
  BY DEF LaunchInv, NamesDiffer
<1>3. \A u \in Launchers : LaunchOf(u)'
  BY ContinuesKeeps
<1> QED
  BY <1>1, <1>2, <1>3, ContinuesKeeps DEF LaunchInv

\* What the invariant says of one launch.
LEMMA RecordsHere ==
  ASSUME LaunchInv, NEW t \in Launchers, Launching(t)
  PROVE  /\ launch[t] \in LaunchRecords /\ launch[t].serial \in Nat /\ LaunchOf(t)
         /\ launch \in [Launchers -> {NoLaunch} \cup LaunchRecords]
BY DEF LaunchInv, SerialsOwn, LaunchTypeOK

\* A launch ends with an answer that agrees with how far it came.
LEMMA AnswerKeeps ==
  ASSUME LaunchInv, NEW t \in Launchers, Launching(t), launch[t].serial \notin projections \/ launch[t].pc \in Opening,
         NEW ending \in {"config", "operational", "success", "interrupted"}, Answer(t, ending),
         ending = "success" => launch[t].pc = "plan", ending = "config" => launch[t].pc \in Opening,
         UNCHANGED <<launches, projections, containers, abandoned>>, cached' \in BOOLEAN
  PROVE  LaunchInv'
<1> DEFINE after == [launch[t] EXCEPT !.pc = "ended", !.exit = ending]
<1>1. /\ launch[t] \in LaunchRecords /\ LaunchOf(t)
      /\ launch \in [Launchers -> {NoLaunch} \cup LaunchRecords]
  BY RecordsHere
<1>2. /\ after \in LaunchRecords /\ after.serial = launch[t].serial /\ after.pc = "ended"
      /\ after.exit = ending /\ after.ran = launch[t].ran /\ after.dry = launch[t].dry
  BY <1>1 DEF LaunchRecords, LaunchPlaces
<1>3. launch'[t] = after
  BY <1>1 DEF Answer, Put
<1>4. Continues(t, after)
  BY <1>1, <1>2 DEF Continues, Answer, Put, LaunchOf, Open, Opening
<1>5. LaunchOf(t)'
  BY <1>1, <1>2, <1>3 DEF LaunchOf, Open, Opening
<1> QED
  BY <1>4, <1>5, ContinuesAlone

\* A launch goes on with its projection.
LEMMA MoveKeeps ==
  ASSUME LaunchInv, NEW t \in Launchers, Launching(t), NEW there \in LaunchPlaces, Move(t, there),
         \/ launch[t].pc = "load" /\ there \in {"plan", "state"} /\ launch[t].dry = (there = "plan")
         \/ launch[t].pc = "state" /\ there = "materialize"
         \/ launch[t].pc = "materialize" /\ there = "project"
         \/ launch[t].pc = "render" /\ there = "run",
         UNCHANGED <<launches, projections, containers, abandoned>>, cached' \in BOOLEAN
  PROVE  LaunchInv'
<1> DEFINE after == [launch[t] EXCEPT !.pc = there]
<1>1. /\ launch[t] \in LaunchRecords /\ LaunchOf(t)
      /\ launch \in [Launchers -> {NoLaunch} \cup LaunchRecords]
  BY RecordsHere
<1>2. /\ after \in LaunchRecords /\ after.serial = launch[t].serial /\ after.pc = there
      /\ after.number = launch[t].number /\ after.listed = launch[t].listed
      /\ after.ran = launch[t].ran /\ after.dry = launch[t].dry
  BY <1>1 DEF LaunchRecords, LaunchPlaces
<1>3. launch'[t] = after
  BY <1>1 DEF Move, Put
<1>4. Continues(t, after)
  BY <1>1, <1>2 DEF Continues, Move, Put, LaunchOf, Open, Opening
<1>5. LaunchOf(t)'
  BY <1>1, <1>2, <1>3 DEF LaunchOf, Open, Opening, LaunchRecords
<1> QED
  BY <1>4, <1>5, ContinuesAlone

\* The end of the block, for a record that knows how the container ran.
LEMMA LeaveBlockKeeps ==
  ASSUME LaunchInv, NEW t \in Launchers, launch[t].pc \in Open,
         NEW ran \in {"no", "refused", "zero", "other"},
         NEW ending \in {"config", "operational", "success", "interrupted"},
         LeaveBlock(t, [launch[t] EXCEPT !.ran = ran], ending),
         ending = "success" => ran = "zero", ending = "config" => ran = "no",
         UNCHANGED <<launches, containers, cached>>
  PROVE  LaunchInv'
<1> DEFINE record == [launch[t] EXCEPT !.ran = ran]
           after(e) == [record EXCEPT !.pc = "ended", !.exit = e]
<1>0. Launching(t)
  BY DEF Launching, Open
<1>1. /\ launch[t] \in LaunchRecords /\ LaunchOf(t) /\ launch[t].serial \in projections
      /\ launch \in [Launchers -> {NoLaunch} \cup LaunchRecords]
  BY <1>0, RecordsHere DEF LaunchOf
<1>2. record.serial = launch[t].serial /\ record \in LaunchRecords
  BY <1>1 DEF LaunchRecords
<1>3. ASSUME NEW e \in {"config", "operational", "success", "interrupted"}
      PROVE  /\ after(e) \in LaunchRecords /\ after(e).serial = launch[t].serial /\ after(e).pc = "ended"
             /\ after(e).exit = e /\ after(e).ran = ran /\ after(e).dry = launch[t].dry
  BY <1>1 DEF LaunchRecords, LaunchPlaces
<1>4. ~ launch[t].dry
  BY <1>1 DEF LaunchOf
<1>5. cached' \in BOOLEAN
  BY DEF LaunchInv, LaunchTypeOK
<1>6. CASE projections' = Leave(record.serial, ending) /\ launch' = [launch EXCEPT ![t] = after(ending)] /\ UNCHANGED abandoned
  <2>1. launch'[t] = after(ending)
    BY <1>1, <1>6
  <2>2. Continues(t, after(ending))
    BY <1>0, <1>2, <1>3, <1>5, <1>6 DEF Continues, Leave, Open
  <2>3. LaunchOf(t)'
    BY <1>3, <1>4, <2>1 DEF LaunchOf, Open, Opening
  <2> QED
    BY <2>2, <2>3, ContinuesAlone
<1>7. CASE abandoned' = abandoned \cup {record.serial} /\ launch' = [launch EXCEPT ![t] = after("config")] /\ UNCHANGED projections
  <2>1. launch'[t] = after("config")
    BY <1>1, <1>7
  <2>2. Continues(t, after("config"))
    BY <1>0, <1>2, <1>3, <1>5, <1>7 DEF Continues, Open
  <2>3. launch[t].serial \in abandoned'
    BY <1>2, <1>7
  <2>4. after("config").pc = "ended" /\ after("config").exit = "config" /\ after("config").serial = launch[t].serial
    BY <1>3
  <2>5. LaunchOf(t)'
    <3> HIDE DEF after
    <3> QED
      BY <2>1, <2>3, <2>4 DEF LaunchOf, Open, Opening
  <2> QED
    BY <2>2, <2>5, ContinuesAlone
<1> QED
  BY <1>6, <1>7 DEF LeaveBlock, Put

-----------------------------------------------------------------------------
(* The number of a name *)

\* A set of numbers that is not empty has a least.
LEMMA LeastNumber ==
  ASSUME NEW S, S \subseteq Nat, S # {} PROVE \E x \in S : \A y \in S : x =< y
<1>1. PICK x \in S : \A y \in S : ~ (<<y, x>> \in OpToRel(<, Nat))
  BY WFMin, NatLessThanWellFounded, Zenon
<1>2. \A y \in S : ~ (y < x)
  BY <1>1, Zenon DEF OpToRel
<1> QED
  BY <1>2

\* allocate_pi_name: the lowest number no listed name has.
LEMMA AllocatesLowest ==
  ASSUME NEW listed, IsFiniteSet(listed), listed \subseteq Listable
  PROVE  AllocatePiName(listed) \in Nat /\ LowestFree(AllocatePiName(listed), listed)
<1> DEFINE all == {c.number : c \in listed}
           taken == Taken(listed)
<1>1. \A c \in listed : c.number \in Nat
  BY DEF Listable
<1>2. IsFiniteSet(taken) /\ taken \subseteq Nat \ {0} /\ \A c \in listed : c.number # 0 => c.number \in taken
  <2> DEFINE f == [c \in listed |-> c.number]
  <2>1. f \in Surjection(listed, all)
    BY DEF Surjection
  <2>2. IsFiniteSet(all)
    BY <2>1, FS_Surjection
  <2>3. taken \in SUBSET all
    BY DEF Taken
  <2>4. IsFiniteSet(taken)
    BY <2>2, <2>3, FS_Subset
  <2> QED
    BY <1>1, <2>4 DEF Taken
<1>3. \A k \in taken : \E c \in listed : c.number = k
  BY DEF Taken
<1>4. CASE taken = {}
  <2>1. AllocatePiName(listed) = 1
    BY <1>4 DEF AllocatePiName
  <2>2. 1 \notin taken /\ 1..(1 - 1) = {}
    BY <1>4
  <2> QED
    BY <1>2, <2>1, <2>2 DEF LowestFree
<1>5. CASE taken # {}
  <2> DEFINE free == {n \in Nat \ {0} : n \notin taken}
             Fits(n) == n \notin taken /\ \A k \in 1..(n - 1) : k \in taken
  <2> HIDE DEF taken
  <2>1. Max(taken) \in taken /\ \A y \in taken : Max(taken) >= y
    <3>1. IsFiniteSet(taken) /\ taken \subseteq Int /\ taken # {}
      BY <1>2, <1>5
    <3> QED
      BY <3>1, GreatestIs
  <2>2. Max(taken) \in Nat \ {0}
    BY <1>2, <2>1
  <2>3. Max(taken) + 1 \in free
    BY <1>2, <2>1, <2>2
  <2>4. PICK n \in free : \A m \in free : n =< m
    BY <2>3, LeastNumber
  <2>5. n \in 1..(Max(taken) + 1)
    BY <2>2, <2>3, <2>4
  <2>6. Fits(n)
    BY <2>4
  <2>7. AllocatePiName(listed) = CHOOSE m \in 1..(Max(taken) + 1) : Fits(m)
    BY <1>5 DEF AllocatePiName, taken
  <2>8. AllocatePiName(listed) \in 1..(Max(taken) + 1) /\ Fits(AllocatePiName(listed))
    <3> HIDE DEF Fits
    <3> QED
      BY <2>5, <2>6, <2>7
  <2>9. AllocatePiName(listed) \in Nat \ {0}
    BY <2>2, <2>8
  <2> QED
    BY <1>1, <1>2, <1>3, <2>8, <2>9 DEF LowestFree
<1> QED
  BY <1>4, <1>5

-----------------------------------------------------------------------------
(* The steps of a launch *)

\* No two paths of a selection are the same.
LEMMA SelectionsDiffer ==
  \A paths \in WorkspaceSelections : Cardinality(Range(paths)) = Len(paths)
<1>1. Cardinality(Range(<<>>)) = Len(<<>>)
  <2>1. Range(<<>>) = {}
    BY DEF Range
  <2> QED
    BY <2>1, FS_EmptySet
<1>2. ASSUME NEW p \in Spellings, NEW extras \in {<<>>} \cup {<<e>> : e \in Spellings}
      PROVE  LET paths == ResolveWorkspaces(p, extras) IN Cardinality(Range(paths)) = Len(paths)
  BY <1>1 DEF ResolveWorkspaces, NoSelection
<1> QED
  BY <1>2 DEF WorkspaceSelections

\* Every step keeps the invariant.
LEMMA LaunchStep == LaunchInv /\ [LaunchNext]_launchVars => LaunchInv'
<1> SUFFICES ASSUME LaunchInv, [LaunchNext]_launchVars PROVE LaunchInv'
  OBVIOUS
<1> USE DEF LaunchAt
<1>0. cached \in BOOLEAN /\ launch \in [Launchers -> {NoLaunch} \cup LaunchRecords]
  BY DEF LaunchInv, LaunchTypeOK
<1>1. ASSUME NEW t \in Launchers, NEW dry \in BOOLEAN, NEW paths \in WorkspaceSelections, StartRun(t, dry, paths)
      PROVE  LaunchInv'
  <2> DEFINE after == [pc |-> IF paths = NoSelection THEN "ended" ELSE "load", dry |-> dry, paths |-> paths,
             serial |-> launches + 1, listed |-> {}, number |-> 0, ran |-> "no",
             exit |-> IF paths = NoSelection THEN "config" ELSE "none"]
  <2>1. launches \in Nat /\ launches' = launches + 1
    BY <1>1 DEF LaunchInv, LaunchTypeOK, StartRun
  <2>2. after \in LaunchRecords
    BY <2>1 DEF LaunchRecords, LaunchPlaces, Opening
  <2>3. launch'[t] = after /\ \A u \in Launchers : u # t => launch'[u] = launch[u]
    BY <1>0, <1>1 DEF StartRun, Put
  <2>4. /\ launch' \in [Launchers -> {NoLaunch} \cup LaunchRecords]
        /\ UNCHANGED <<projections, containers, cached, abandoned>>
    BY <1>0, <1>1, <2>2 DEF StartRun, Put, daemonVars
  <2>5. after.serial = launches + 1 /\ after.pc \in {"load", "ended"} /\ after.ran = "no" /\ after.exit # "success"
    OBVIOUS
  <2> HIDE DEF after
  <2>6. LaunchTypeOK' /\ NamesDiffer'
    BY <2>1, <2>4 DEF LaunchInv, LaunchTypeOK, NamesDiffer
  <2>7. SerialsOwn'
    <3>1. \A u \in Launchers : u # t /\ Launching(u)' => Launching(u) /\ launch'[u] = launch[u] /\ launch[u].serial # after.serial
      BY <2>1, <2>3, <2>5 DEF LaunchInv, SerialsOwn, Launching
    <3>2. \A u \in Launchers : Launching(u)' => launch'[u] \in LaunchRecords /\ launch'[u].serial \in 1..launches'
      BY <2>1, <2>2, <2>3, <2>5, <3>1 DEF LaunchInv, SerialsOwn
    <3>3. \A u, v \in Launchers : Launching(u)' /\ Launching(v)' /\ launch'[u].serial = launch'[v].serial => u = v
      BY <2>3, <3>1 DEF LaunchInv, SerialsOwn
    <3>4. projections' \subseteq 1..launches'
      BY <2>1, <2>4 DEF LaunchInv, SerialsOwn
    <3> QED
      BY <3>2, <3>3, <3>4 DEF SerialsOwn
  <2>8. ProjectionsOwned'
    <3>1. launch[t].pc = "idle"
      BY <1>1 DEF StartRun
    <3> QED
      BY <2>3, <2>4, <3>1 DEF LaunchInv, ProjectionsOwned, Open
  <2>9. ASSUME NEW u \in Launchers PROVE LaunchOf(u)'
    <3>1. CASE u = t
      <4>1. after.serial \notin projections'
        BY <2>1, <2>4, <2>5 DEF LaunchInv, SerialsOwn
      <4> QED
        BY <2>3, <2>5, <3>1, <4>1 DEF LaunchOf, Open, Opening
    <3>2. CASE u # t
      <4>1. launch'[u] = launch[u] /\ LaunchOf(u)
        BY <2>3, <3>2 DEF LaunchInv
      <4> QED
        BY <2>4, <4>1 DEF LaunchOf, LowestFree
    <3> QED
      BY <3>1, <3>2
  <2> QED
    BY <2>6, <2>7, <2>8, <2>9 DEF LaunchInv
<1>2. ASSUME NEW t \in Launchers, LoadConfiguration(t) PROVE LaunchInv'
  <2>1. Launching(t) /\ launch[t].pc = "load" /\ launch[t].pc \in Opening /\ UNCHANGED <<launches, projections, containers, abandoned>>
    BY <1>2 DEF LoadConfiguration, Launching, Opening, daemonVars
  <2>2. cached' \in BOOLEAN /\ launch[t].dry \in BOOLEAN
    BY <1>0, <1>2, <2>1, RecordsHere DEF LoadConfiguration, daemonVars, LaunchRecords
  <2>3. CASE Answer(t, "config")
    BY <2>1, <2>2, <2>3, AnswerKeeps
  <2>4. CASE Move(t, IF launch[t].dry THEN "plan" ELSE "state")
    <3>1. PICK there \in {"plan", "state"} : Move(t, there) /\ launch[t].dry = (there = "plan")
      BY <2>2, <2>4
    <3>2. there \in LaunchPlaces
      BY DEF LaunchPlaces, Opening
    <3> QED
      BY <2>1, <2>2, <3>1, <3>2, MoveKeeps
  <2> QED
    BY <1>2, <2>3, <2>4 DEF LoadConfiguration
<1>3. ASSUME NEW t \in Launchers, DryRun(t) PROVE LaunchInv'
  <2>1. Launching(t) /\ launch[t].pc = "plan" /\ launch[t].pc \in Opening /\ UNCHANGED <<launches, projections, containers, abandoned>>
    BY <1>3 DEF DryRun, Launching, Opening, daemonVars
  <2>2. cached' \in BOOLEAN
    BY <1>0, <1>3 DEF DryRun, daemonVars
  <2>3. PICK ending \in {"success", "config"} : Answer(t, ending)
    BY <1>3 DEF DryRun
  <2> QED
    BY <2>1, <2>2, <2>3, AnswerKeeps
<1>4. ASSUME NEW t \in Launchers, PrepareState(t) PROVE LaunchInv'
  <2>1. Launching(t) /\ launch[t].pc = "state" /\ launch[t].pc \in Opening /\ UNCHANGED <<launches, projections, containers, abandoned>>
    BY <1>4 DEF PrepareState, Launching, Opening, daemonVars
  <2>2. cached' \in BOOLEAN /\ "materialize" \in LaunchPlaces
    BY <1>0, <1>4 DEF PrepareState, daemonVars, LaunchPlaces, Opening
  <2> QED
    BY <1>4, <2>1, <2>2, AnswerKeeps, MoveKeeps DEF PrepareState
<1>5. ASSUME NEW t \in Launchers, MaterializeArtifacts(t) PROVE LaunchInv'
  <2>1. Launching(t) /\ launch[t].pc = "materialize" /\ launch[t].pc \in Opening /\ UNCHANGED <<launches, projections, containers, abandoned>>
    BY <1>5 DEF MaterializeArtifacts, Launching, Opening
  <2>2. cached' \in BOOLEAN /\ "project" \in LaunchPlaces
    BY <1>0, <1>5 DEF MaterializeArtifacts, LaunchPlaces, Opening
  <2> QED
    BY <1>5, <2>1, <2>2, AnswerKeeps, MoveKeeps DEF MaterializeArtifacts
<1>6. ASSUME NEW t \in Launchers, CreateProjection(t) PROVE LaunchInv'
  <2>1. /\ Launching(t) /\ launch[t].pc = "project" /\ launch[t].pc \in Opening
        /\ UNCHANGED <<launches, containers, cached, abandoned>>
    BY <1>6 DEF CreateProjection, Launching, Opening, daemonVars
  <2>2. CASE Answer(t, "config") /\ UNCHANGED projections
    BY <1>0, <2>1, <2>2, AnswerKeeps
  <2>3. CASE Move(t, "list") /\ projections' = projections \cup {launch[t].serial}
    <3> DEFINE after == [launch[t] EXCEPT !.pc = "list"]
    <3>1. launch[t] \in LaunchRecords /\ LaunchOf(t)
      BY <2>1, RecordsHere
    <3>2. /\ after \in LaunchRecords /\ after.serial = launch[t].serial /\ after.pc = "list"
          /\ after.ran = launch[t].ran /\ after.dry = launch[t].dry
      BY <3>1 DEF LaunchRecords, LaunchPlaces, Open
    <3>3. launch'[t] = after
      BY <1>0, <2>3 DEF Move, Put
    <3>4. Continues(t, after)
      BY <1>0, <2>1, <2>3, <3>2 DEF Continues, Move, Put, Open
    <3>5. LaunchOf(t)'
      <4> HIDE DEF after
      <4> QED
        BY <2>1, <2>3, <3>1, <3>2, <3>3 DEF LaunchOf, Open, Opening
    <3> QED
      BY <2>1, <3>4, <3>5, ContinuesAlone
  <2> QED
    BY <1>6, <2>2, <2>3 DEF CreateProjection
<1>7. ASSUME NEW t \in Launchers, ListNames(t) PROVE LaunchInv'
  <2>1. Launching(t) /\ launch[t].pc = "list" /\ launch[t].pc \in Open /\ UNCHANGED <<launches, containers, cached>>
    BY <1>7 DEF ListNames, Launching, Open, daemonVars
  <2>2. launch[t] \in LaunchRecords /\ LaunchOf(t)
    BY <2>1, RecordsHere
  <2>3. CASE LeaveBlock(t, launch[t], "operational")
    <3>1. launch[t].ran = "no"
      BY <2>1, <2>2 DEF LaunchOf
    <3>2. launch[t] = [launch[t] EXCEPT !.ran = "no"]
      BY <2>2, <3>1 DEF LaunchRecords
    <3> QED
      BY <2>1, <2>3, <3>2, LeaveBlockKeeps
  <2>4. CASE /\ Put(t, [launch[t] EXCEPT !.pc = "render", !.listed = containers, !.number = AllocatePiName(containers)])
             /\ UNCHANGED <<projections, abandoned>>
    <3> DEFINE after == [launch[t] EXCEPT !.pc = "render", !.listed = containers, !.number = AllocatePiName(containers)]
    <3>1. /\ IsFiniteSet(containers) /\ containers \subseteq Listable
          /\ AllocatePiName(containers) \in Nat /\ LowestFree(AllocatePiName(containers), containers)
      BY AllocatesLowest DEF LaunchInv, LaunchTypeOK
    <3>2. /\ after \in LaunchRecords /\ after.serial = launch[t].serial /\ after.pc = "render"
          /\ after.ran = launch[t].ran /\ after.dry = launch[t].dry /\ after.listed = containers
          /\ after.number = AllocatePiName(containers)
      BY <2>2, <3>1 DEF LaunchRecords, LaunchPlaces, Open
    <3>3. launch'[t] = after
      BY <1>0, <2>4 DEF Put
    <3>4. Continues(t, after)
      BY <1>0, <2>1, <2>4, <3>2 DEF Continues, Put, Open
    <3>5. LaunchOf(t)'
      <4> HIDE DEF after
      <4> QED
        BY <2>1, <2>2, <2>4, <3>1, <3>2, <3>3 DEF LaunchOf, Open, Opening
    <3> QED
      BY <2>1, <3>4, <3>5, ContinuesAlone
  <2> QED
    BY <1>7, <2>3, <2>4 DEF ListNames
<1>8. ASSUME NEW t \in Launchers, RenderVector(t) PROVE LaunchInv'
  <2>1. Launching(t) /\ launch[t].pc = "render" /\ launch[t].pc \in Open /\ UNCHANGED <<launches, containers, cached>>
    BY <1>8 DEF RenderVector, Launching, Open, daemonVars
  <2>2. launch[t] \in LaunchRecords /\ LaunchOf(t)
    BY <2>1, RecordsHere
  <2>3. CASE LeaveBlock(t, launch[t], "config")
    <3>1. launch[t].ran = "no"
      BY <2>1, <2>2 DEF LaunchOf
    <3>2. launch[t] = [launch[t] EXCEPT !.ran = "no"]
      BY <2>2, <3>1 DEF LaunchRecords
    <3> QED
      BY <2>1, <2>3, <3>2, LeaveBlockKeeps
  <2>4. CASE Move(t, "run") /\ UNCHANGED <<projections, abandoned>>
    <3>1. "run" \in LaunchPlaces
      BY DEF LaunchPlaces, Open
    <3> QED
      BY <1>0, <2>1, <2>4, <3>1, MoveKeeps
  <2> QED
    BY <1>8, <2>3, <2>4 DEF RenderVector
<1>9. ASSUME NEW t \in Launchers, DockerRun(t) PROVE LaunchInv'
  <2>1. Launching(t) /\ launch[t].pc = "run" /\ launch[t].pc \in Open /\ UNCHANGED <<launches, cached>>
    BY <1>9 DEF DockerRun, Launching, Open
  <2>2. launch[t] \in LaunchRecords /\ LaunchOf(t)
    BY <2>1, RecordsHere
  <2>3. CASE LeaveBlock(t, [launch[t] EXCEPT !.ran = "refused"], "operational") /\ UNCHANGED containers
    BY <2>1, <2>3, LeaveBlockKeeps
  <2>4. CASE /\ \A c \in containers : c.name # Name(launch[t].number)
             /\ containers' = containers \cup
                  {[name |-> Name(launch[t].number), number |-> launch[t].number, of |-> launch[t].serial]}
             /\ Move(t, "wait") /\ UNCHANGED <<projections, abandoned>>
    <3> DEFINE after == [launch[t] EXCEPT !.pc = "wait"]
               new == [name |-> Name(launch[t].number), number |-> launch[t].number, of |-> launch[t].serial]
    <3>1. /\ after \in LaunchRecords /\ after.serial = launch[t].serial /\ after.pc = "wait"
          /\ after.ran = launch[t].ran /\ after.dry = launch[t].dry /\ after.listed = launch[t].listed
          /\ after.number = launch[t].number
      BY <2>2 DEF LaunchRecords, LaunchPlaces, Open
    <3>2. launch'[t] = after
      BY <1>0, <2>4 DEF Move, Put
    <3>3. new \in Listable /\ new.of = launch[t].serial /\ new.name = Name(launch[t].number)
      BY <2>2 DEF Listable, NamesThere, LaunchRecords
    <3>4. containers' = containers \cup {new}
      BY <2>4
    <3> HIDE DEF new
    <3>5. Continues(t, after)
      BY <1>0, <2>1, <2>4, <3>1, <3>4 DEF Continues, Move, Put, Open
    <3>6. LaunchOf(t)'
      <4> HIDE DEF after
      <4>1. \E c \in containers' : c.of = launch'[t].serial
        BY <3>1, <3>2, <3>3, <3>4
      <4> QED
        BY <2>1, <2>2, <2>4, <3>1, <3>2, <4>1 DEF LaunchOf, Open, Opening, LowestFree
    <3>7. LaunchTypeOK'
      <4>1. IsFiniteSet(containers')
        BY <3>4, FS_AddElement DEF LaunchInv, LaunchTypeOK
      <4> QED
        BY <2>1, <3>3, <3>4, <3>5, <4>1, ContinuesKeeps DEF LaunchInv, LaunchTypeOK
    <3>8. NamesDiffer'
      BY <2>4, <3>3, <3>4 DEF LaunchInv, NamesDiffer
    <3> HIDE DEF after
    <3> QED
      BY <3>5, <3>6, <3>7, <3>8, ContinuesKeeps DEF LaunchInv
  <2> QED
    BY <1>9, <2>3, <2>4 DEF DockerRun
<1>10. ASSUME NEW t \in Launchers, Finish(t) PROVE LaunchInv'
  <2>1. Launching(t) /\ launch[t].pc = "finish" /\ launch[t].pc \in Open /\ UNCHANGED <<launches, containers, cached>>
    BY <1>10 DEF Finish, Launching, Open, daemonVars
  <2>2. launch[t] \in LaunchRecords /\ LaunchOf(t)
    BY <2>1, RecordsHere
  <2>3. launch[t].ran \in {"zero", "other"} /\ launch[t] = [launch[t] EXCEPT !.ran = launch[t].ran]
    BY <2>1, <2>2 DEF LaunchOf, LaunchRecords
  <2>4. PICK ran \in {"zero", "other"} : ran = launch[t].ran
    BY <2>3
  <2>5. PICK ending \in {"success", "operational"} :
          /\ LeaveBlock(t, [launch[t] EXCEPT !.ran = ran], ending) /\ (ending = "success" => ran = "zero")
    BY <1>10, <2>3, <2>4 DEF Finish
  <2> QED
    BY <2>1, <2>5, LeaveBlockKeeps
<1>11. ASSUME NEW t \in Launchers, InterruptLaunch(t) PROVE LaunchInv'
  <2>1. Launching(t) /\ launch[t].pc # "ended" /\ UNCHANGED <<launches, containers, cached>>
    BY <1>11 DEF InterruptLaunch, Launching, daemonVars
  <2>2. launch[t] \in LaunchRecords /\ LaunchOf(t) /\ launch[t].pc \in Opening \cup Open
    BY <2>1, RecordsHere DEF LaunchRecords, LaunchPlaces
  <2>3. CASE launch[t].serial \in projections /\ LeaveBlock(t, launch[t], "interrupted")
    <3>1. PICK ran \in {"no", "refused", "zero", "other"} : ran = launch[t].ran
      BY <2>2 DEF LaunchRecords
    <3>2. launch[t] = [launch[t] EXCEPT !.ran = ran]
      BY <2>2, <3>1 DEF LaunchRecords
    <3>3. CASE launch[t].pc \in Open
      BY <2>1, <2>3, <3>2, <3>3, LeaveBlockKeeps
    <3>4. CASE launch[t].pc \in Opening
      BY <2>2, <2>3, <3>4 DEF LaunchOf
    <3> QED
      BY <2>2, <3>3, <3>4
  <2>4. CASE launch[t].serial \notin projections /\ Answer(t, "interrupted") /\ UNCHANGED <<projections, abandoned>>
    BY <1>0, <2>1, <2>4, AnswerKeeps
  <2> QED
    BY <1>11, <2>3, <2>4 DEF InterruptLaunch
<1>12. ASSUME NEW t \in Launchers, KillLaunch(t) \/ LaunchReturns(t) PROVE LaunchInv'
  <2>1. Launching(t) /\ Put(t, NoLaunch) /\ UNCHANGED <<launches, projections, containers, cached>>
    BY <1>12 DEF KillLaunch, LaunchReturns, Launching, daemonVars
  <2>2. launch[t] \in LaunchRecords
    BY <2>1, RecordsHere
  <2>3. Continues(t, NoLaunch)
    <3>1. NoLaunch.pc = "idle" /\ "idle" \notin Open
      BY DEF NoLaunch, Open
    <3>2. CASE KillLaunch(t)
      BY <1>0, <2>1, <2>2, <3>1, <3>2 DEF Continues, Put, KillLaunch
    <3>3. CASE LaunchReturns(t)
      BY <1>0, <2>1, <2>2, <3>1, <3>3 DEF Continues, Put, LaunchReturns, Open
    <3> QED
      BY <1>12, <3>2, <3>3
  <2>4. LaunchOf(t)'
    <3>1. launch'[t] = NoLaunch
      BY <1>0, <2>1 DEF Put
    <3> QED
      BY <3>1 DEF LaunchOf, NoLaunch, Open, Opening
  <2> QED
    BY <2>1, <2>3, <2>4, ContinuesAlone
<1>13. ASSUME NEW c \in containers, NEW code \in {"zero", "other"}, LaunchedContainerEnds(c, code) PROVE LaunchInv'
  <2> DEFINE Waits(t) == LaunchAt(t, "wait") /\ launch[t].serial = c.of
  <2>1. containers' = containers \ {c} /\ UNCHANGED <<launches, projections, cached, abandoned>>
    BY <1>13 DEF LaunchedContainerEnds
  <2>0. launch' = [t \in Launchers |->
             IF Waits(t) THEN [launch[t] EXCEPT !.pc = "finish", !.ran = code] ELSE launch[t]]
    BY <1>13 DEF LaunchedContainerEnds
  <2>2. ASSUME NEW t \in Launchers, Waits(t)
        PROVE  /\ launch'[t] \in LaunchRecords /\ launch'[t].serial = launch[t].serial
               /\ launch'[t].pc = "finish" /\ launch'[t].ran = code /\ launch'[t].dry = launch[t].dry
               /\ launch'[t].number = launch[t].number /\ launch'[t].listed = launch[t].listed
               /\ launch[t].pc = "wait" /\ LaunchOf(t)
    <3>1. launch[t] \in LaunchRecords /\ LaunchOf(t)
      BY <2>2, RecordsHere DEF Launching
    <3>2. launch'[t] = [launch[t] EXCEPT !.pc = "finish", !.ran = code]
      BY <2>0, <2>2
    <3> QED
      BY <2>2, <3>1, <3>2 DEF LaunchRecords, LaunchPlaces, Open
  <2>3. ASSUME NEW t \in Launchers, ~ Waits(t) PROVE launch'[t] = launch[t] /\ LaunchOf(t)
    BY <2>0, <2>3 DEF LaunchInv
  <2> HIDE DEF Waits
  <2>4. LaunchTypeOK'
    <3>1. IsFiniteSet(containers') /\ containers' \subseteq Listable
      BY <2>1, FS_RemoveElement DEF LaunchInv, LaunchTypeOK
    <3>2. launch' \in [Launchers -> {NoLaunch} \cup LaunchRecords]
      <4>1. \A t \in Launchers : launch'[t] \in {NoLaunch} \cup LaunchRecords
        BY <1>0, <2>2, <2>3
      <4>2. launch' = [t \in Launchers |-> launch'[t]]
        BY <2>0
      <4> QED
        BY <4>1, <4>2
    <3> QED
      BY <2>1, <3>1, <3>2 DEF LaunchInv, LaunchTypeOK
  <2>5. ASSUME NEW t \in Launchers
        PROVE  /\ launch'[t].pc # "idle" <=> launch[t].pc # "idle"
               /\ launch'[t].pc # "idle" => launch'[t].serial = launch[t].serial /\ launch'[t] \in LaunchRecords
               /\ launch'[t].pc \in Open <=> launch[t].pc \in Open
               /\ launch'[t].pc \in Open => launch'[t].serial = launch[t].serial
    <3>1. CASE Waits(t)
      BY <2>2, <3>1 DEF Open
    <3>2. CASE ~ Waits(t)
      BY <2>3, <3>2, RecordsHere DEF Launching, Open
    <3> QED
      BY <3>1, <3>2
  <2>6. SerialsOwn'
    BY <2>1, <2>5 DEF LaunchInv, SerialsOwn, Launching
  <2>7. ProjectionsOwned'
    BY <2>1, <2>5 DEF LaunchInv, ProjectionsOwned
  <2>8. NamesDiffer'
    BY <2>1 DEF LaunchInv, NamesDiffer
  <2>9. ASSUME NEW t \in Launchers PROVE LaunchOf(t)'
    <3>1. CASE Waits(t)
      BY <2>1, <2>2, <3>1 DEF LaunchOf, Open, Opening, LowestFree
    <3>2. CASE ~ Waits(t)
      <4>1. launch'[t] = launch[t] /\ LaunchOf(t)
        BY <2>3, <3>2
      <4>2. launch[t].pc = "wait" => \E d \in containers' : d.of = launch[t].serial
        BY <2>1, <3>2, <4>1 DEF LaunchOf, Waits
      <4> QED
        BY <2>1, <4>1, <4>2 DEF LaunchOf, LowestFree
    <3> QED
      BY <3>1, <3>2
  <2> QED
    BY <2>4, <2>6, <2>7, <2>8, <2>9 DEF LaunchInv
<1>14. CASE BlobVanishes \/ UNCHANGED launchVars
  <2>1. UNCHANGED <<launch, launches, projections, containers, abandoned>> /\ cached' \in BOOLEAN
    BY <1>0, <1>14 DEF BlobVanishes, launchVars
  <2> QED
    BY <2>1 DEF LaunchInv, LaunchTypeOK, SerialsOwn, Launching, ProjectionsOwned, NamesDiffer, LaunchOf, LowestFree
<1> QED
  BY <1>1, <1>2, <1>3, <1>4, <1>5, <1>6, <1>7, <1>8, <1>9, <1>10, <1>11, <1>12, <1>13, <1>14 DEF LaunchNext

\* The invariant always holds.
LEMMA LaunchKept == LaunchSpec => []LaunchInv
<1>1. LaunchInit => LaunchInv
  BY LaunchInitially
<1>2. LaunchInv /\ [LaunchNext]_launchVars => LaunchInv'
  BY LaunchStep
<1> QED
  BY <1>1, <1>2, PTL DEF LaunchSpec

\* The invariant is enough for what is promised of launches.
LEMMA LaunchInvSound == LaunchInv => LaunchSound
<1> SUFFICES ASSUME LaunchInv PROVE LaunchSound
  OBVIOUS
<1>1. ASSUME NEW t \in Launchers, launch[t].pc = "ended"
      PROVE  Cardinality(Range(launch[t].paths)) = Len(launch[t].paths)
  <2>1. launch[t] \in LaunchRecords
    BY <1>1, RecordsHere DEF Launching
  <2> QED
    BY <2>1, SelectionsDiffer DEF LaunchRecords
<1>2. \A t \in Launchers : LaunchOf(t)
  BY DEF LaunchInv
<1> QED
  BY <1>1, <1>2 DEF LaunchInv, LaunchSound, NamesDiffer, ProjectionsOwned, LaunchOf, LowestFree, Open

\* However many launches overlap, fail or die, a projection exists exactly while its
\* launch needs it, no two containers have one name, a name is the lowest that is
\* free, and success is only for a container that exited with zero (launcher.py).
THEOREM LaunchesSound == LaunchSpec => []LaunchSound
BY LaunchKept, LaunchInvSound, PTL

-----------------------------------------------------------------------------
(* The containers that install into one Pi home.                           *)

StartPlaces == {"checks", "metadata", "mountedBlob", "extract", "verify", "report", "configure", "command", "aborted"}
AtEntry == {"metadata", "mountedBlob", "extract", "verify"}
StartRecords ==
  [pc : StartPlaces, entries : Projections, at : Nat \ {0}, results : Seq({"already", "installed", "failed"}),
   done : Nat, alone : BOOLEAN]

HomeTyped ==
  /\ names \in [Archives -> Versions]
  /\ order \in [Archives -> {<<"metadata", "code">>, <<"code", "metadata">>}]
  /\ mountedBlob \in [Range(Packages) -> {"right", "wrong"}]
InstallerTypeOK ==
  /\ HomeTyped
  /\ files \in [Range(Packages) -> [Files -> Versions \cup {Absent}]]
  /\ starting \in [Containers -> {NoContainer} \cup StartRecords] /\ containersStarted \in Nat
  /\ extracted \in [Range(Packages) -> Containers \cup {Absent}]

Starting(c) == starting[c].pc # "idle"

\* What a container has found and tried so far.
PlaceOf(this) ==
  /\ this.pc \in AtEntry => /\ this.at <= Len(this.entries) /\ Len(this.results) = this.at - 1
                            /\ piHome = "mount" /\ ~ Ambiguous(this.entries)
  /\ this.pc = "extract" => this.done \in {0, 1} /\ mountedBlob[this.entries[this.at].package] = "right"
  /\ this.pc \in {"checks", "metadata", "mountedBlob"} => this.done = 0
  /\ this.pc = "checks" => this.results = <<>> /\ this.at = 1 /\ this.entries # <<>> /\ ~ Ambiguous(this.entries)
  /\ Len(this.results) <= Len(this.entries)
  /\ this.pc = "report" => \/ Len(this.results) = Len(this.entries)
                           \/ \E i \in DOMAIN this.results : this.results[i] = "failed"
  /\ this.pc \in {"configure", "command"} => Len(this.results) = Len(this.entries)
  /\ this.results # <<>> => piHome = "mount" /\ ~ Ambiguous(this.entries)

\* Only the last result is a failure, and then nothing more is tried.
ResultsOf(this) ==
  \A i \in DOMAIN this.results :
    /\ this.results[i] = "failed" => i = Len(this.results) /\ this.pc \in {"report", "aborted"}
    /\ this.results[i] # "failed" => owner = "dev"
ProgressOf(this) == PlaceOf(this) /\ ResultsOf(this)

\* What the Pi home holds of an entry that was found or installed.
Settled(c, entry, status) ==
  /\ Named(entry.package) = entry.version
  /\ status = "installed" =>
       /\ files[entry.package] = [f \in Files |-> entry.version]
       /\ extracted[entry.package] = c

\* What a container that nobody disturbed finds in the Pi home.
UndisturbedOf(c, this) ==
  this.alone =>
    /\ \A i \in DOMAIN this.results : this.results[i] # "failed" => Settled(c, this.entries[i], this.results[i])
    /\ this.pc = "extract" /\ this.done = 1 => LET entry == this.entries[this.at] IN
         files[entry.package][order[<<entry.package, entry.version>>][1]] = entry.version
    /\ this.pc = "verify" => LET entry == this.entries[this.at] IN
         files[entry.package] = [f \in Files |-> entry.version] /\ extracted[entry.package] = c

\* Only the right mountedBlob, and only a mount, is written from and to.
WrittenSafely == \A p \in Range(Packages) : extracted[p] # Absent => piHome = "mount" /\ mountedBlob[p] = "right"

Progress(c) == ProgressOf(starting[c])
Undisturbed(c) == UndisturbedOf(c, starting[c])
InstallerInv ==
  /\ InstallerTypeOK /\ WrittenSafely
  /\ \A c \in Containers : Starting(c) => starting[c] \in StartRecords /\ Progress(c) /\ Undisturbed(c)

\* In a projection without duplicates a package has one place.
LEMMA PackagesDiffer ==
  ASSUME NEW s \in Projections, ~ Ambiguous(s), NEW i \in DOMAIN s, NEW j \in DOMAIN s,
         s[i].package = s[j].package
  PROVE  i = j
<1>1. PICK n \in 0..Len(Packages) : s \in [1..n -> Entries]
  BY DEF Projections
<1>2. DOMAIN s = 1..n /\ Len(s) = n /\ n \in Nat
  <2>1. n \in Nat
    BY InstallerAssumption
  <2> QED
    BY <1>1, <2>1
<1>3. \A a, b \in 1..n : a < b => ~ Before(s[b].package, s[a].package)
  BY <1>2 DEF Projections
<1>4. \A a \in 1..n : s[a].package \in Range(Packages)
  BY <1>1 DEF Entries
<1>5. \A p, q \in Range(Packages) : Before(p, q) \/ Before(q, p) \/ p = q
  <2> TAKE p, q \in Range(Packages)
  <2>1. PICK a, b \in DOMAIN Packages : Packages[a] = p /\ Packages[b] = q
    BY DEF Range
  <2>2. a \in Int /\ b \in Int
    BY InstallerAssumption, <2>1
  <2>3. a < b \/ b < a \/ a = b
    BY <2>2
  <2> QED
    BY <2>1, <2>3 DEF Before
<1>6. \A a, b \in 1..n : a < b => s[a].package # s[b].package
  <2> SUFFICES ASSUME NEW a \in 1..n, NEW b \in 1..n, a < b, s[a].package = s[b].package PROVE FALSE
    OBVIOUS
  <2>1. a \in 1..(Len(s) - 1) /\ a + 1 \in 1..n
    BY <1>2
  <2>2. s[a].package # s[a + 1].package
    BY <2>1 DEF Ambiguous
  <2>3. ~ Before(s[a + 1].package, s[a].package)
    BY <1>3, <2>1
  <2>4. ~ Before(s[b].package, s[a + 1].package)
    <3>1. CASE a + 1 = b
      BY <2>2, <3>1
    <3>2. CASE a + 1 # b
      <4>1. a + 1 < b
        BY <1>2, <3>2
      <4> QED
        BY <1>3, <2>1, <4>1
    <3> QED
      BY <3>1, <3>2
  <2> QED
    BY <1>4, <1>5, <2>1, <2>2, <2>3, <2>4
<1> QED
  BY <1>2, <1>6

\* A projection is a sequence of entries.
LEMMA ProjectionSeq ==
  ASSUME NEW s \in Projections
  PROVE  /\ Len(s) \in Nat /\ DOMAIN s = 1..Len(s) /\ \A i \in 1..Len(s) : s[i] \in Entries
         /\ s = <<>> <=> Len(s) = 0
<1>1. PICK n \in 0..Len(Packages) : s \in [1..n -> Entries]
  BY DEF Projections
<1>2. n \in Nat
  BY InstallerAssumption
<1> QED
  BY <1>1, <1>2

\* The invariant holds before any container.
LEMMA InstallerInitially == InstallerInit => InstallerInv
<1> SUFFICES ASSUME InstallerInit PROVE InstallerInv
  OBVIOUS
<1>1. (CHOOSE v \in Versions : TRUE) \in Versions
  BY InstallerAssumption
<1>2. HomeTyped
  <2>1. names \in [Archives -> Versions]
    BY <1>1 DEF InstallerInit, Archives
  <2>2. order \in [Archives -> {<<"metadata", "code">>, <<"code", "metadata">>}]
    BY DEF InstallerInit
  <2>3. mountedBlob \in [Range(Packages) -> {"right", "wrong"}]
    BY DEF InstallerInit
  <2> QED
    BY <2>1, <2>2, <2>3 DEF HomeTyped
<1>3. files \in [Range(Packages) -> [Files -> Versions \cup {Absent}]]
  BY <1>1 DEF InstallerInit
<1>4. starting = [c \in Containers |-> NoContainer] /\ containersStarted = 0 /\ extracted = [p \in Range(Packages) |-> Absent]
  BY DEF InstallerInit
<1>5. InstallerTypeOK
  BY <1>2, <1>3, <1>4 DEF InstallerTypeOK
<1>6. WrittenSafely
  BY <1>4 DEF WrittenSafely
<1>7. \A c \in Containers : ~ Starting(c)
  BY <1>4 DEF Starting, NoContainer
<1> QED
  BY <1>5, <1>6, <1>7 DEF InstallerInv

\* A step of one container that writes nothing: it is enough to look at the container.
LEMMA OneStarts ==
  ASSUME InstallerInv, NEW c \in Containers, NEW r \in {NoContainer} \cup StartRecords, Set(c, r),
         UNCHANGED <<homeConsts, files, extracted>>, containersStarted' \in Nat,
         r.pc # "idle" => ProgressOf(r) /\ UndisturbedOf(c, r)
  PROVE  InstallerInv'
<1> USE DEF homeConsts
<1>1. starting \in [Containers -> {NoContainer} \cup StartRecords]
  BY DEF InstallerInv, InstallerTypeOK
<1>2. starting' \in [Containers -> {NoContainer} \cup StartRecords]
  BY <1>1 DEF Set
<1>3. starting'[c] = r /\ \A d \in Containers : d # c => starting'[d] = starting[d]
  BY <1>1 DEF Set
<1>4. InstallerTypeOK' /\ WrittenSafely'
  BY <1>2 DEF InstallerInv, InstallerTypeOK, HomeTyped, WrittenSafely
<1>5. ASSUME NEW d \in Containers, Starting(d)'
      PROVE  (starting[d] \in StartRecords /\ Progress(d) /\ Undisturbed(d))'
  <2>0. starting'[d].pc # "idle"
    BY <1>5 DEF Starting
  <2>1. starting'[d] \in StartRecords
    BY <1>2, <2>0 DEF NoContainer
  <2>2. ProgressOf(starting'[d]) /\ UndisturbedOf(d, starting'[d])
    BY <1>3, <2>0 DEF InstallerInv, Starting, Progress, Undisturbed
  <2>3. Progress(d)'
    BY <2>2 DEF Progress, ProgressOf, PlaceOf, ResultsOf
  <2>4. Undisturbed(d)'
    BY <2>2 DEF Undisturbed, UndisturbedOf, Settled, Named
  <2> QED
    BY <2>1, <2>3, <2>4
<1> QED
  BY <1>4, <1>5 DEF InstallerInv

\* What the invariant says of one container.
LEMMA StartHere ==
  ASSUME InstallerInv, NEW c \in Containers, Starting(c)
  PROVE  /\ starting[c] \in StartRecords /\ ProgressOf(starting[c]) /\ UndisturbedOf(c, starting[c])
         /\ starting[c].entries \in Projections /\ starting[c].results \in Seq({"already", "installed", "failed"})
BY DEF InstallerInv, StartRecords, Progress, Undisturbed

\* One more result leaves those before it.
LEMMA AppendStatus ==
  ASSUME NEW s \in Seq({"already", "installed", "failed"}), NEW status \in {"already", "installed", "failed"}
  PROVE  LET r == Append(s, status) IN
         /\ r \in Seq({"already", "installed", "failed"}) /\ Len(r) = Len(s) + 1 /\ r # <<>>
         /\ DOMAIN r = 1..(Len(s) + 1) /\ r[Len(s) + 1] = status
         /\ DOMAIN s = 1..Len(s) /\ \A i \in 1..Len(s) : r[i] = s[i]
OBVIOUS

\* An entry gets its result, and the next one or the report follows.
LEMMA ConcludeKeeps ==
  ASSUME InstallerInv, NEW c \in Containers, Starting(c), starting[c].pc \in AtEntry,
         NEW status \in {"already", "installed", "failed"}, Conclude(c, status),
         UNCHANGED <<homeConsts, files, extracted>>, containersStarted' \in Nat,
         status # "failed" =>
           /\ owner = "dev"
           /\ starting[c].alone => Settled(c, starting[c].entries[starting[c].at], status)
  PROVE  InstallerInv'
<1> DEFINE this == starting[c]
           results == Append(this.results, status)
           stopped == [this EXCEPT !.results = results, !.pc = "report"]
           further == [this EXCEPT !.results = results, !.at = @ + 1, !.done = 0,
                         !.pc = IF this.at = Len(this.entries) THEN "report" ELSE "metadata"]
<1>1. /\ this \in StartRecords /\ ProgressOf(this) /\ UndisturbedOf(c, this)
      /\ this.entries \in Projections /\ this.results \in Seq({"already", "installed", "failed"})
  BY StartHere
<1>2. /\ this.at \in Nat \ {0} /\ Len(this.results) \in Nat /\ Len(this.entries) \in Nat
      /\ this.at <= Len(this.entries) /\ Len(this.results) = this.at - 1
      /\ piHome = "mount" /\ ~ Ambiguous(this.entries)
  BY <1>1, ProjectionSeq DEF ProgressOf, PlaceOf, ResultsOf, AtEntry, StartRecords
<1>3. /\ \A i \in 1..Len(this.results) : this.results[i] # "failed" /\ owner = "dev"
      /\ DOMAIN this.results = 1..Len(this.results)
  BY <1>1 DEF ProgressOf, PlaceOf, ResultsOf, AtEntry
<1>4. /\ results \in Seq({"already", "installed", "failed"}) /\ Len(results) = this.at /\ results # <<>>
      /\ DOMAIN results = 1..this.at /\ results[this.at] = status
      /\ \A i \in 1..(this.at - 1) : results[i] = this.results[i]
  <2>1. this.results \in Seq({"already", "installed", "failed"}) /\ this.at = Len(this.results) + 1
    BY <1>1, <1>2
  <2>2. /\ results \in Seq({"already", "installed", "failed"}) /\ Len(results) = Len(this.results) + 1
        /\ results # <<>> /\ DOMAIN results = 1..(Len(this.results) + 1) /\ results[Len(this.results) + 1] = status
        /\ \A i \in 1..Len(this.results) : results[i] = this.results[i]
    BY <2>1, AppendStatus
  <2> HIDE DEF results
  <2>3. this.at - 1 = Len(this.results)
    BY <1>2
  <2> HIDE DEF this
  <2> QED
    BY <2>1, <2>2, <2>3
<1>5. this.alone => \A i \in DOMAIN results : results[i] # "failed" => Settled(c, this.entries[i], results[i])
  <2> SUFFICES ASSUME this.alone, NEW i \in 1..this.at, results[i] # "failed" PROVE Settled(c, this.entries[i], results[i])
    BY <1>4
  <2>1. CASE i = this.at
    BY <1>4, <2>1
  <2>2. CASE i # this.at
    <3>1. i \in 1..(this.at - 1) /\ i \in DOMAIN this.results
      BY <1>2, <1>3, <2>2
    <3> QED
      BY <1>1, <1>4, <3>1 DEF UndisturbedOf
  <2> QED
    BY <2>1, <2>2
<1> HIDE DEF results
<1>6. CASE status = "failed"
  <2>1. Set(c, stopped)
    BY <1>6 DEF Conclude, results
  <2>2. stopped \in StartRecords /\ stopped.pc = "report" /\ stopped.results = results /\ stopped.entries = this.entries
        /\ stopped.alone = this.alone
    BY <1>1, <1>4 DEF StartRecords, StartPlaces
  <2> HIDE DEF stopped, this
  <2>5. \E i \in DOMAIN results : results[i] = "failed"
    BY <1>2, <1>4, <1>6
  <2>6. \A i \in DOMAIN results :
          /\ results[i] = "failed" => i = Len(results)
          /\ results[i] # "failed" => owner = "dev"
    <3> SUFFICES ASSUME NEW i \in 1..this.at
                 PROVE  /\ results[i] = "failed" => i = Len(results)
                        /\ results[i] # "failed" => owner = "dev"
      BY <1>4
    <3>1. i # this.at => i \in 1..(this.at - 1) /\ i \in 1..Len(this.results)
      BY <1>2
    <3> QED
      BY <1>3, <1>4, <1>6, <3>1
  <2>7. Len(results) <= Len(this.entries) /\ stopped.pc \notin AtEntry \cup {"checks", "configure", "command"}
    BY <1>2, <1>4, <2>2 DEF AtEntry
  <2> HIDE DEF stopped
  <2>8. PlaceOf(stopped)
    BY <1>2, <2>2, <2>5, <2>7 DEF PlaceOf, AtEntry
  <2>9. ResultsOf(stopped)
    BY <2>2, <2>6 DEF ResultsOf
  <2>3. ProgressOf(stopped)
    BY <2>8, <2>9 DEF ProgressOf
  <2>4. UndisturbedOf(c, stopped)
    BY <1>5, <2>2 DEF UndisturbedOf
  <2> HIDE DEF stopped
  <2> QED
    BY <2>1, <2>2, <2>3, <2>4, OneStarts
<1>7. CASE status # "failed"
  <2>1. Set(c, further)
    BY <1>7 DEF Conclude, results
  <2>0. this.at + 1 \in Nat \ {0} /\ 0 \in Nat
    BY <1>2
  <2>2. further \in StartRecords /\ further.results = results /\ further.entries = this.entries
        /\ further.alone = this.alone /\ further.at = this.at + 1 /\ further.done = 0
        /\ further.pc = IF this.at = Len(this.entries) THEN "report" ELSE "metadata"
    <3> DEFINE spot == IF this.at = Len(this.entries) THEN "report" ELSE "metadata"
    <3>1. spot \in StartPlaces
      BY DEF StartPlaces
    <3>2. further = [this EXCEPT !.results = results, !.at = this.at + 1, !.done = 0, !.pc = spot]
      BY <1>1
    <3> HIDE DEF spot
    <3> DEFINE next == this.at + 1
    <3>3. next \in Nat \ {0}
      BY <2>0
    <3>4. further = [this EXCEPT !.results = results, !.at = next, !.done = 0, !.pc = spot]
      BY <3>2
    <3> HIDE DEF next, this, further
    <3>5. /\ further \in StartRecords /\ further.results = results /\ further.entries = this.entries
          /\ further.alone = this.alone /\ further.at = next /\ further.done = 0 /\ further.pc = spot
      BY <1>1, <1>4, <3>1, <3>3, <3>4 DEF StartRecords
    <3> QED
      BY <3>5 DEF next, spot
  <2>3. ProgressOf(further)
    BY <1>2, <1>3, <1>4, <1>7, <2>2 DEF ProgressOf, PlaceOf, ResultsOf, AtEntry
  <2>4. UndisturbedOf(c, further)
    BY <1>5, <2>2 DEF UndisturbedOf
  <2> HIDE DEF further
  <2> QED
    BY <2>1, <2>2, <2>3, <2>4, OneStarts
<1> QED
  BY <1>6, <1>7

\* A step that only moves the container from one place to another.
LEMMA MovesOn ==
  ASSUME InstallerInv, NEW c \in Containers, Starting(c), NEW spot \in StartPlaces, To(c, spot),
         UNCHANGED <<homeConsts, files, extracted>>, containersStarted' \in Nat,
         ProgressOf([starting[c] EXCEPT !.pc = spot]), UndisturbedOf(c, [starting[c] EXCEPT !.pc = spot])
  PROVE  InstallerInv'
<1> DEFINE r == [starting[c] EXCEPT !.pc = spot]
<1>1. Set(c, r)
  BY DEF To
<1>2. r \in StartRecords
  BY StartHere DEF StartRecords
<1> HIDE DEF r
<1>3. ProgressOf(r) /\ UndisturbedOf(c, r)
  BY DEF r
<1> QED
  BY <1>1, <1>2, <1>3, OneStarts

\* The projection is read (read_projection), or refused.
LEMMA ReadProjectionKeeps ==
  ASSUME InstallerInv, NEW c \in Containers, NEW entries \in Projections, ReadProjection(c, entries)
  PROVE  InstallerInv'
<1> DEFINE r == [pc |-> IF Ambiguous(entries) THEN "aborted" ELSE IF entries = <<>> THEN "configure" ELSE "checks",
                 entries |-> entries, at |-> 1, results |-> <<>>, done |-> 0, alone |-> TRUE]
<1>1. Set(c, r) /\ UNCHANGED <<homeConsts, files, extracted>>
  BY DEF ReadProjection
<1>2. containersStarted' \in Nat
  BY DEF ReadProjection, InstallerInv, InstallerTypeOK
<1>3. r \in StartRecords
  BY DEF StartRecords, StartPlaces
<1>4. Len(entries) \in Nat /\ (entries = <<>> <=> Len(entries) = 0)
  BY ProjectionSeq
<1>5. ProgressOf(r)
  BY <1>4 DEF ProgressOf, PlaceOf, ResultsOf, AtEntry
<1>6. UndisturbedOf(c, r)
  BY DEF UndisturbedOf
<1> HIDE DEF r
<1> QED
  BY <1>1, <1>2, <1>3, <1>5, <1>6, OneStarts

\* The Pi home is checked before anything is written.
LEMMA CheckHomeKeeps ==
  ASSUME InstallerInv, NEW c \in Containers, CheckHome(c)
  PROVE  InstallerInv'
<1>1. Starting(c) /\ starting[c].pc = "checks" /\ UNCHANGED <<homeConsts, files, extracted>>
  BY DEF CheckHome, In, Starting
<1>2. containersStarted' \in Nat
  BY DEF CheckHome, InstallerInv, InstallerTypeOK
<1>3. /\ starting[c] \in StartRecords /\ ProgressOf(starting[c]) /\ UndisturbedOf(c, starting[c])
      /\ starting[c].entries \in Projections
  BY <1>1, StartHere
<1>4. /\ starting[c].results = <<>> /\ starting[c].at = 1 /\ ~ Ambiguous(starting[c].entries)
      /\ Len(starting[c].entries) \in Nat /\ Len(starting[c].entries) # 0
  BY <1>1, <1>3, ProjectionSeq DEF ProgressOf, PlaceOf, ResultsOf
<1>5. CASE AbortStart(c)
  <2> DEFINE r == [starting[c] EXCEPT !.pc = "aborted"]
  <2>1. /\ r.pc = "aborted" /\ r.results = <<>> /\ r.entries = starting[c].entries /\ To(c, "aborted")
    BY <1>3, <1>4, <1>5 DEF StartRecords, AbortStart
  <2>2. ProgressOf(r)
    BY <1>4, <2>1 DEF ProgressOf, PlaceOf, ResultsOf, AtEntry
  <2>3. UndisturbedOf(c, r)
    BY <2>1 DEF UndisturbedOf
  <2> QED
    BY <1>1, <1>2, <2>1, <2>2, <2>3, MovesOn DEF StartPlaces
<1>6. CASE piHome = "mount" /\ To(c, "metadata")
  <2> DEFINE r == [starting[c] EXCEPT !.pc = "metadata"]
  <2>1. /\ r.pc = "metadata" /\ r.results = <<>> /\ r.entries = starting[c].entries /\ r.at = 1 /\ r.done = starting[c].done
    BY <1>3, <1>4 DEF StartRecords
  <2>2. ProgressOf(r)
    BY <1>1, <1>3, <1>4, <1>6, <2>1 DEF ProgressOf, PlaceOf, ResultsOf, AtEntry
  <2>3. UndisturbedOf(c, r)
    BY <2>1 DEF UndisturbedOf
  <2> QED
    BY <1>1, <1>2, <1>6, <2>2, <2>3, MovesOn DEF StartPlaces
<1> QED
  BY <1>5, <1>6 DEF CheckHome

\* What is known of a container that is at one of its entries.
LEMMA EntryHere ==
  ASSUME InstallerInv, NEW c \in Containers, Starting(c), starting[c].pc \in AtEntry
  PROVE  /\ starting[c].at \in DOMAIN starting[c].entries /\ Len(starting[c].results) = starting[c].at - 1
         /\ starting[c].at \in Nat \ {0} /\ Entry(c) = starting[c].entries[starting[c].at]
         /\ Entry(c).package \in Range(Packages) /\ Entry(c).version \in Versions
         /\ piHome = "mount" /\ ~ Ambiguous(starting[c].entries)
<1>1. /\ starting[c] \in StartRecords /\ PlaceOf(starting[c]) /\ starting[c].entries \in Projections
  BY StartHere DEF ProgressOf
<1>2. /\ starting[c].at \in Nat \ {0} /\ starting[c].at <= Len(starting[c].entries)
      /\ Len(starting[c].results) = starting[c].at - 1 /\ piHome = "mount" /\ ~ Ambiguous(starting[c].entries)
  BY <1>1 DEF PlaceOf, StartRecords
<1>3. starting[c].at \in DOMAIN starting[c].entries /\ starting[c].entries[starting[c].at] \in Entries
  BY <1>1, <1>2, ProjectionSeq
<1> QED
  BY <1>2, <1>3 DEF Entry, Entries

\* An installed extension is looked at.
LEMMA ReadInstalledKeeps ==
  ASSUME InstallerInv, NEW c \in Containers, ReadInstalled(c)
  PROVE  InstallerInv'
<1>1. /\ Starting(c) /\ starting[c].pc \in AtEntry /\ starting[c].pc = "metadata"
      /\ UNCHANGED <<homeConsts, files, extracted>> /\ containersStarted' = containersStarted
  BY DEF ReadInstalled, In, Starting, AtEntry
<1>2. containersStarted' \in Nat
  BY <1>1 DEF InstallerInv, InstallerTypeOK
<1>3. CASE Conclude(c, "failed")
  BY <1>1, <1>2, <1>3, ConcludeKeeps
<1>4. CASE Matches(Entry(c)) /\ owner = "dev" /\ Conclude(c, "already")
  <2>1. Settled(c, starting[c].entries[starting[c].at], "already")
    BY <1>4 DEF Matches, Settled, Entry
  <2> QED
    BY <1>1, <1>2, <1>4, <2>1, ConcludeKeeps
<1>5. CASE To(c, "mountedBlob")
  <2> DEFINE r == [starting[c] EXCEPT !.pc = "mountedBlob"]
  <2>1. starting[c] \in StartRecords /\ PlaceOf(starting[c]) /\ ResultsOf(starting[c]) /\ UndisturbedOf(c, starting[c])
    BY <1>1, StartHere DEF ProgressOf
  <2>2. /\ r.pc = "mountedBlob" /\ r.results = starting[c].results /\ r.entries = starting[c].entries
        /\ r.at = starting[c].at /\ r.done = starting[c].done /\ r.alone = starting[c].alone
    BY <2>1 DEF StartRecords
  <2> HIDE DEF r
  <2>3. PlaceOf(r)
    BY <1>1, <2>1, <2>2 DEF PlaceOf, AtEntry
  <2>4. ResultsOf(r)
    BY <1>1, <2>1, <2>2 DEF ResultsOf
  <2>5. UndisturbedOf(c, r)
    BY <2>1, <2>2 DEF UndisturbedOf
  <2> USE DEF r
  <2> QED
    BY <1>1, <1>2, <1>5, <2>3, <2>4, <2>5, MovesOn DEF ProgressOf, StartPlaces
<1>6. Conclude(c, "failed") \/ (Matches(Entry(c)) /\ owner = "dev" /\ Conclude(c, "already")) \/ To(c, "mountedBlob")
  BY DEF ReadInstalled
<1> QED
  BY <1>3, <1>4, <1>5, <1>6

\* The mounted archive is opened, or found wrong.
LEMMA OpenVerifiedKeeps ==
  ASSUME InstallerInv, NEW c \in Containers, OpenVerified(c)
  PROVE  InstallerInv'
<1>1. /\ Starting(c) /\ starting[c].pc \in AtEntry /\ starting[c].pc = "mountedBlob"
      /\ UNCHANGED <<homeConsts, files, extracted>> /\ containersStarted' = containersStarted
  BY DEF OpenVerified, In, Starting, AtEntry
<1>2. containersStarted' \in Nat
  BY <1>1 DEF InstallerInv, InstallerTypeOK
<1>3. CASE Conclude(c, "failed")
  BY <1>1, <1>2, <1>3, ConcludeKeeps
<1>4. CASE mountedBlob[Entry(c).package] = "right" /\ To(c, "extract")
  <2> DEFINE r == [starting[c] EXCEPT !.pc = "extract"]
  <2>1. starting[c] \in StartRecords /\ PlaceOf(starting[c]) /\ ResultsOf(starting[c]) /\ UndisturbedOf(c, starting[c])
    BY <1>1, StartHere DEF ProgressOf
  <2>2. /\ r.pc = "extract" /\ r.results = starting[c].results /\ r.entries = starting[c].entries
        /\ r.at = starting[c].at /\ r.done = starting[c].done /\ r.alone = starting[c].alone
    BY <2>1 DEF StartRecords
  <2> HIDE DEF r
  <2>3. PlaceOf(r)
    BY <1>1, <1>4, <2>1, <2>2 DEF PlaceOf, AtEntry, Entry
  <2>4. ResultsOf(r)
    BY <1>1, <2>1, <2>2 DEF ResultsOf
  <2>6. r.done = 0
    BY <1>1, <2>1, <2>2 DEF PlaceOf
  <2>5. UndisturbedOf(c, r)
    BY <2>1, <2>2, <2>6 DEF UndisturbedOf
  <2> USE DEF r
  <2> QED
    BY <1>1, <1>2, <1>4, <2>3, <2>4, <2>5, MovesOn DEF ProgressOf, StartPlaces
<1> QED
  BY <1>3, <1>4 DEF OpenVerified

\* The extraction fails.
LEMMA ExtractionFailsKeeps ==
  ASSUME InstallerInv, NEW c \in Containers, ExtractionFails(c)
  PROVE  InstallerInv'
<1>1. /\ Starting(c) /\ starting[c].pc \in AtEntry
      /\ UNCHANGED <<homeConsts, files, extracted>> /\ containersStarted' = containersStarted /\ Conclude(c, "failed")
  BY DEF ExtractionFails, In, Starting, AtEntry
<1>2. containersStarted' \in Nat
  BY <1>1 DEF InstallerInv, InstallerTypeOK
<1> QED
  BY <1>1, <1>2, ConcludeKeeps

\* What was extracted is looked at again.
LEMMA VerifyInstalledKeeps ==
  ASSUME InstallerInv, NEW c \in Containers, VerifyInstalled(c)
  PROVE  InstallerInv'
<1>1. /\ Starting(c) /\ starting[c].pc \in AtEntry /\ starting[c].pc = "verify"
      /\ UNCHANGED <<homeConsts, files, extracted>> /\ containersStarted' = containersStarted
  BY DEF VerifyInstalled, In, Starting, AtEntry
<1>2. containersStarted' \in Nat
  BY <1>1 DEF InstallerInv, InstallerTypeOK
<1>3. CASE Conclude(c, "failed")
  BY <1>1, <1>2, <1>3, ConcludeKeeps
<1>4. CASE InstalledVersion(Entry(c)) = Entry(c).version /\ owner = "dev" /\ Conclude(c, "installed")
  <2>1. ASSUME starting[c].alone
        PROVE  Settled(c, starting[c].entries[starting[c].at], "installed")
    <3>1. UndisturbedOf(c, starting[c])
      BY <1>1, StartHere
    <3> QED
      BY <1>1, <1>4, <2>1, <3>1 DEF UndisturbedOf, Settled, InstalledVersion, Entry
  <2> QED
    BY <1>1, <1>2, <1>4, <2>1, ConcludeKeeps
<1> QED
  BY <1>3, <1>4 DEF VerifyInstalled

\* A container stops.
LEMMA ContainerStopsKeeps ==
  ASSUME InstallerInv, NEW c \in Containers, ContainerStops(c)
  PROVE  InstallerInv'
<1>1. /\ UNCHANGED <<homeConsts, files, extracted>> /\ containersStarted' \in Nat /\ Set(c, NoContainer)
  BY DEF ContainerStops, InstallerInv, InstallerTypeOK
<1> QED
  BY <1>1, OneStarts DEF NoContainer

\* From the report on, a container only moves: to a place where every result is there.
LEMMA LeavesEntries ==
  ASSUME InstallerInv, NEW c \in Containers, Starting(c), starting[c].pc \in {"report", "configure"},
         UNCHANGED <<homeConsts, files, containersStarted, extracted>>,
         NEW spot \in {"configure", "command", "aborted"}, To(c, spot),
         spot # "aborted" => /\ Len(starting[c].results) = Len(starting[c].entries)
                              /\ \A i \in DOMAIN starting[c].results : starting[c].results[i] # "failed"
  PROVE  InstallerInv'
<1> DEFINE r == [starting[c] EXCEPT !.pc = spot]
<1>1. starting[c] \in StartRecords /\ PlaceOf(starting[c]) /\ ResultsOf(starting[c]) /\ UndisturbedOf(c, starting[c])
  BY StartHere DEF ProgressOf
<1>2. /\ r.pc = spot /\ r.results = starting[c].results /\ r.entries = starting[c].entries
      /\ r.at = starting[c].at /\ r.done = starting[c].done /\ r.alone = starting[c].alone
  BY <1>1 DEF StartRecords
<1>7. containersStarted' \in Nat
  BY DEF InstallerInv, InstallerTypeOK
<1> HIDE DEF r
<1>3. PlaceOf(r)
  BY <1>1, <1>2 DEF PlaceOf, AtEntry
<1>4. ResultsOf(r)
  BY <1>1, <1>2 DEF ResultsOf
<1>5. UndisturbedOf(c, r)
  BY <1>1, <1>2 DEF UndisturbedOf
<1> USE DEF r
<1> QED
  BY <1>3, <1>4, <1>5, <1>7, MovesOn DEF ProgressOf, StartPlaces

\* The results are reported.
LEMMA ReportKeeps ==
  ASSUME InstallerInv, NEW c \in Containers, Report(c)
  PROVE  InstallerInv'
<1>1. Starting(c) /\ starting[c].pc = "report" /\ UNCHANGED <<homeConsts, files, containersStarted, extracted>>
  BY DEF Report, In, Starting
<1>2. CASE AbortStart(c)
  BY <1>1, <1>2, LeavesEntries DEF AbortStart
<1>3. CASE Starts(starting[c].results) /\ To(c, "configure")
  <2>1. PlaceOf(starting[c])
    BY <1>1, StartHere DEF ProgressOf
  <2> QED
    BY <1>1, <1>3, <2>1, LeavesEntries DEF Starts, PlaceOf
<1> QED
  BY <1>2, <1>3 DEF Report

\* The configuration that follows the installation.
LEMMA ConfigureRtkKeeps ==
  ASSUME InstallerInv, NEW c \in Containers, ConfigureRtk(c)
  PROVE  InstallerInv'
<1>1. Starting(c) /\ starting[c].pc = "configure" /\ UNCHANGED <<homeConsts, files, containersStarted, extracted>>
  BY DEF ConfigureRtk, In, Starting
<1>2. PlaceOf(starting[c]) /\ ResultsOf(starting[c])
  BY <1>1, StartHere DEF ProgressOf
<1>3. /\ Len(starting[c].results) = Len(starting[c].entries)
      /\ \A i \in DOMAIN starting[c].results : starting[c].results[i] # "failed"
  BY <1>1, <1>2 DEF PlaceOf, ResultsOf
<1> QED
  BY <1>1, <1>3, LeavesEntries DEF ConfigureRtk, AbortStart

\* A package has two files.
LEMMA TwoFiles == Cardinality(Files) = 2
<1>1. IsFiniteSet({"metadata"}) /\ Cardinality({"metadata"}) = 1
  BY FS_Singleton
<1>2. Cardinality({"metadata"} \cup {"code"}) = 2
  BY <1>1, FS_AddElement
<1> QED
  BY <1>2, Files = {"metadata"} \cup {"code"} DEF Files

\* A file of an archive replaces the one that is there, and no other package changes.
LEMMA MemberWritten ==
  ASSUME InstallerInv, NEW c \in Containers, ExtractMember(c)
  PROVE  /\ Starting(c) /\ starting[c].pc \in AtEntry /\ starting[c].pc = "extract" /\ starting[c].done \in {0, 1}
         /\ mountedBlob[Entry(c).package] = "right" /\ homeConsts' = homeConsts
         /\ files' \in [Range(Packages) -> [Files -> Versions \cup {Absent}]]
         /\ \A p \in Range(Packages) : p # Entry(c).package => files'[p] = files[p] /\ extracted'[p] = extracted[p]
         /\ extracted' \in [Range(Packages) -> Containers \cup {Absent}] /\ extracted'[Entry(c).package] = c
         /\ LET p == Entry(c).package
                first == order[<<p, Entry(c).version>>][1]
            IN /\ starting[c].done = 0 => files'[p][first] = Entry(c).version
               /\ starting[c].done = 1 /\ files[p][first] = Entry(c).version =>
                    files'[p] = [f \in Files |-> Entry(c).version]
<1> DEFINE p == Entry(c).package
           v == Entry(c).version
           both == order[<<p, v>>]
           member == both[starting[c].done + 1]
<1>1. Starting(c) /\ starting[c].pc \in AtEntry /\ starting[c].pc = "extract" /\ homeConsts' = homeConsts
  BY DEF ExtractMember, In, Starting, AtEntry
<1>2. PlaceOf(starting[c])
  BY <1>1, StartHere DEF ProgressOf
<1>3. starting[c].done \in {0, 1} /\ mountedBlob[p] = "right"
  BY <1>1, <1>2 DEF PlaceOf, Entry
<1>4. p \in Range(Packages) /\ v \in Versions
  BY <1>1, EntryHere
<1>5. both = <<"metadata", "code">> \/ both = <<"code", "metadata">>
  BY <1>4 DEF InstallerInv, InstallerTypeOK, HomeTyped, Archives
<1>6. files' = [files EXCEPT ![p][member] = v] /\ extracted' = [extracted EXCEPT ![p] = c]
  BY DEF ExtractMember
<1>7. files \in [Range(Packages) -> [Files -> Versions \cup {Absent}]]
      /\ extracted \in [Range(Packages) -> Containers \cup {Absent}]
  BY DEF InstallerInv, InstallerTypeOK
<1> HIDE DEF p, v
<1>8. member \in Files /\ both[1] \in Files
  BY <1>3, <1>5 DEF Files
<1>10. starting[c].done = 0 => member = both[1]
  OBVIOUS
<1>11. starting[c].done = 1 => \A f \in Files : f = member \/ f = both[1]
  BY <1>5 DEF Files
<1> HIDE DEF member, both
<1>9. /\ files' \in [Range(Packages) -> [Files -> Versions \cup {Absent}]]
      /\ \A q \in Range(Packages) : q # p => files'[q] = files[q]
      /\ files'[p] = [files[p] EXCEPT ![member] = v]
  BY <1>4, <1>6, <1>7, <1>8
<1>12. /\ extracted' \in [Range(Packages) -> Containers \cup {Absent}] /\ extracted'[p] = c
       /\ \A q \in Range(Packages) : q # p => extracted'[q] = extracted[q]
  BY <1>4, <1>6, <1>7
<1>13. files[p] \in [Files -> Versions \cup {Absent}]
  BY <1>4, <1>7
<1>14. starting[c].done = 0 => files'[p][both[1]] = v
  BY <1>8, <1>9, <1>10, <1>13
<1>15. starting[c].done = 1 /\ files[p][both[1]] = v => files'[p] = [f \in Files |-> v]
  BY <1>8, <1>9, <1>11, <1>13
<1> QED
  BY <1>1, <1>3, <1>9, <1>12, <1>14, <1>15 DEF p, v, both

\* A file of the archive replaces the one in the Pi home.
LEMMA ExtractMemberKeeps ==
  ASSUME InstallerInv, NEW c \in Containers, ExtractMember(c)
  PROVE  InstallerInv'
<1> DEFINE this == starting[c]
           p == Entry(c).package
           v == Entry(c).version
           next == this.done + 1
           spot == IF next = Cardinality(Files) THEN "verify" ELSE "extract"
           r == [this EXCEPT !.done = next, !.pc = spot]
<1>1. /\ Starting(c) /\ this.pc \in AtEntry /\ this.pc = "extract" /\ this.done \in {0, 1}
      /\ mountedBlob[p] = "right" /\ homeConsts' = homeConsts
  BY MemberWritten
<1>2. /\ files' \in [Range(Packages) -> [Files -> Versions \cup {Absent}]]
      /\ extracted' \in [Range(Packages) -> Containers \cup {Absent}] /\ extracted'[p] = c
      /\ \A q \in Range(Packages) : q # p => files'[q] = files[q] /\ extracted'[q] = extracted[q]
  BY MemberWritten
<1>3. /\ this.done = 0 => files'[p][order[<<p, v>>][1]] = v
      /\ this.done = 1 /\ files[p][order[<<p, v>>][1]] = v => files'[p] = [f \in Files |-> v]
  BY MemberWritten
<1>4. /\ this.at \in DOMAIN this.entries /\ Len(this.results) = this.at - 1 /\ this.at \in Nat \ {0}
      /\ Entry(c) = this.entries[this.at] /\ p \in Range(Packages) /\ v \in Versions
      /\ piHome = "mount" /\ ~ Ambiguous(this.entries)
  BY <1>1, EntryHere
<1>5. /\ this \in StartRecords /\ PlaceOf(this) /\ ResultsOf(this) /\ UndisturbedOf(c, this)
      /\ this.entries \in Projections /\ this.results \in Seq({"already", "installed", "failed"})
  BY <1>1, StartHere DEF ProgressOf
<1>6. starting' = [d \in Containers |->
        IF d = c THEN r ELSE IF In(d, "idle") THEN starting[d] ELSE [starting[d] EXCEPT !.alone = FALSE]]
  BY <1>1, <1>5 DEF ExtractMember, StartRecords
<1>7. next \in {1, 2} /\ next \in Nat /\ spot = IF next = 2 THEN "verify" ELSE "extract"
  BY <1>1, TwoFiles
<1>8. spot \in StartPlaces
  BY <1>7 DEF StartPlaces
<1> HIDE DEF spot, next
<1>9. /\ r \in StartRecords /\ r.pc = spot /\ r.done = next /\ r.results = this.results /\ r.entries = this.entries
      /\ r.at = this.at /\ r.alone = this.alone
  BY <1>5, <1>7, <1>8 DEF StartRecords
<1> HIDE DEF r
<1>10. starting'[c] = r
  BY <1>6
<1>11. ASSUME NEW d \in Containers, d # c, Starting(d)
       PROVE  starting'[d] = [starting[d] EXCEPT !.alone = FALSE] /\ starting[d] \in StartRecords /\ ProgressOf(starting[d])
  BY <1>6, <1>11, StartHere DEF In, Starting
<1>12. ASSUME NEW d \in Containers, d # c, ~ Starting(d)
       PROVE  starting'[d] = starting[d] /\ starting[d].pc = "idle"
  BY <1>6, <1>12 DEF In, Starting
<1>13. starting' \in [Containers -> {NoContainer} \cup StartRecords]
  <2>0. starting \in [Containers -> {NoContainer} \cup StartRecords]
    BY DEF InstallerInv, InstallerTypeOK
  <2>1. ASSUME NEW d \in Containers
        PROVE  starting'[d] \in {NoContainer} \cup StartRecords
    <3>1. CASE d = c
      BY <1>9, <1>10, <3>1
    <3>2. CASE d # c /\ Starting(d)
      BY <1>11, <3>2 DEF StartRecords
    <3>3. CASE d # c /\ ~ Starting(d)
      BY <1>12, <2>0, <3>3
    <3> QED
      BY <3>1, <3>2, <3>3
  <2>2. DOMAIN starting' = Containers /\ starting' = [d \in Containers |-> starting'[d]]
    BY <1>6
  <2> QED
    BY <2>1, <2>2
<1>14. InstallerTypeOK'
  BY <1>1, <1>2, <1>13 DEF InstallerTypeOK, InstallerInv, HomeTyped, homeConsts, ExtractMember
<1>15. WrittenSafely'
  BY <1>1, <1>2, <1>4 DEF WrittenSafely, InstallerInv, homeConsts
<1>16. starting'[c] \in StartRecords /\ Progress(c)'
  <2>1. PlaceOf(r)
    BY <1>1, <1>4, <1>5, <1>7, <1>9 DEF PlaceOf, AtEntry, Entry
  <2>2. ResultsOf(r)
    BY <1>1, <1>5, <1>9 DEF ResultsOf
  <2> QED
    BY <1>1, <1>9, <1>10, <2>1, <2>2 DEF Progress, ProgressOf, PlaceOf, ResultsOf, homeConsts
<1>17. Undisturbed(c)'
  <2>1. ASSUME this.alone, NEW i \in DOMAIN this.results, this.results[i] # "failed",
               NEW e, e = this.entries[i], NEW status, status = this.results[i]
        PROVE  Settled(c, e, status)'
    <3>1. Settled(c, e, status)
      BY <1>5, <2>1 DEF UndisturbedOf
    <3>2. i \in DOMAIN this.entries /\ i # this.at
      <4>1. DOMAIN this.results = 1..(this.at - 1) /\ DOMAIN this.entries = 1..Len(this.entries)
        BY <1>4, <1>5, ProjectionSeq
      <4> QED
        BY <1>4, <2>1, <4>1
    <3>3. e.package # p
      BY <1>4, <1>5, <2>1, <3>2, PackagesDiffer
    <3>4. e.package \in Range(Packages)
      BY <1>5, <2>1, <3>2, ProjectionSeq DEF Entries
    <3> QED
      BY <1>1, <1>2, <3>1, <3>3, <3>4 DEF Settled, Named, homeConsts
  <2>2. ASSUME this.alone, r.pc = "extract", r.done = 1
        PROVE  files'[p][order[<<p, v>>][1]] = v
    BY <1>1, <1>3, <1>7, <1>9, <2>2 DEF next
  <2>3. ASSUME this.alone, r.pc = "verify"
        PROVE  files'[p] = [f \in Files |-> v]
    <3>1. this.done = 1
      BY <1>1, <1>7, <1>9, <2>3 DEF next
    <3> QED
      BY <1>1, <1>3, <1>4, <1>5, <2>3, <3>1 DEF UndisturbedOf
  <2>4. order' = order
    BY <1>1 DEF homeConsts
  <2>5. ASSUME this.alone, NEW i \in DOMAIN r.results, r.results[i] # "failed"
        PROVE  Settled(c, starting[c].entries[i], starting[c].results[i])'
    <3>1. PICK e, status : e = this.entries[i] /\ status = this.results[i]
      OBVIOUS
    <3>2. Settled(c, e, status)'
      BY <1>9, <2>1, <2>5, <3>1
    <3>3. starting'[c].entries[i] = e /\ starting'[c].results[i] = status
      BY <1>9, <1>10, <3>1
    <3> QED
      BY <3>2, <3>3 DEF Settled, Named
  <2> DEFINE s == starting'[c]
  <2>6. /\ s.alone = this.alone /\ s.pc = r.pc /\ s.done = r.done /\ s.results = r.results /\ s.entries = r.entries
        /\ s.entries[s.at].package = p /\ s.entries[s.at].version = v
    BY <1>4, <1>9, <1>10
  <2> HIDE DEF s, p, v, this
  <2>7. s.alone => \A i \in DOMAIN s.results : s.results[i] # "failed" => Settled(c, starting[c].entries[i], starting[c].results[i])'
    BY <2>5, <2>6
  <2>8. s.alone /\ s.pc = "extract" /\ s.done = 1 =>
          files'[s.entries[s.at].package][order'[<<s.entries[s.at].package, s.entries[s.at].version>>][1]] = s.entries[s.at].version
    BY <2>2, <2>4, <2>6
  <2>9. s.alone /\ s.pc = "verify" =>
          files'[s.entries[s.at].package] = [f \in Files |-> s.entries[s.at].version] /\ extracted'[s.entries[s.at].package] = c
    BY <1>2, <2>3, <2>6
  <2> QED
    BY <2>7, <2>8, <2>9 DEF s, Undisturbed, UndisturbedOf, Settled, Named
<1>18. ASSUME NEW d \in Containers, d # c, Starting(d)
       PROVE  (starting[d] \in StartRecords /\ Progress(d) /\ Undisturbed(d))'
  <2>1. /\ starting'[d] = [starting[d] EXCEPT !.alone = FALSE] /\ starting[d] \in StartRecords
        /\ PlaceOf(starting[d]) /\ ResultsOf(starting[d])
    BY <1>11, <1>18 DEF ProgressOf
  <2> DEFINE s == starting'[d]
  <2>2. /\ s \in StartRecords /\ s.pc = starting[d].pc /\ s.entries = starting[d].entries /\ s.at = starting[d].at
        /\ s.results = starting[d].results /\ s.done = starting[d].done /\ s.alone = FALSE
    BY <2>1 DEF StartRecords
  <2> HIDE DEF s
  <2>3. PlaceOf(s) /\ ResultsOf(s)
    BY <2>1, <2>2 DEF PlaceOf, ResultsOf
  <2>4. Progress(d)'
    BY <1>1, <2>3 DEF s, Progress, ProgressOf, PlaceOf, ResultsOf, homeConsts
  <2>5. Undisturbed(d)'
    BY <2>2 DEF s, Undisturbed, UndisturbedOf
  <2> QED
    BY <2>2, <2>4, <2>5 DEF s
<1>19. ASSUME NEW d \in Containers, Starting(d)'
       PROVE  (starting[d] \in StartRecords /\ Progress(d) /\ Undisturbed(d))'
  <2>1. d = c \/ Starting(d)
    BY <1>12, <1>19 DEF Starting
  <2> QED
    BY <2>1, <1>16, <1>17, <1>18
<1> QED
  BY <1>14, <1>15, <1>19 DEF InstallerInv

\* Every step keeps the invariant.
LEMMA InstallerStep == InstallerInv /\ [InstallerNext]_installerVars => InstallerInv'
<1> SUFFICES ASSUME InstallerInv, [InstallerNext]_installerVars PROVE InstallerInv'
  OBVIOUS
<1>1. CASE InstallerNext
  BY <1>1, ReadProjectionKeeps, CheckHomeKeeps, ReadInstalledKeeps, OpenVerifiedKeeps, ExtractMemberKeeps,
     ExtractionFailsKeeps, VerifyInstalledKeeps, ReportKeeps, ConfigureRtkKeeps, ContainerStopsKeeps DEF InstallerNext
<1>2. CASE UNCHANGED installerVars
  <2>1. /\ UNCHANGED <<homeConsts, files, extracted>> /\ starting' = starting /\ containersStarted' = containersStarted
    BY <1>2 DEF installerVars
  <2>2. InstallerTypeOK' /\ WrittenSafely'
    BY <2>1 DEF InstallerInv, InstallerTypeOK, HomeTyped, WrittenSafely, homeConsts
  <2>3. ASSUME NEW c \in Containers, Starting(c)'
        PROVE  (starting[c] \in StartRecords /\ Progress(c) /\ Undisturbed(c))'
    <3>1. starting[c] \in StartRecords /\ Progress(c) /\ Undisturbed(c)
      BY <2>1, <2>3 DEF InstallerInv, Starting
    <3>2. Progress(c)'
      BY <2>1, <3>1 DEF Progress, ProgressOf, PlaceOf, ResultsOf, homeConsts
    <3>3. Undisturbed(c)'
      <4>1. names' = names /\ order' = order /\ files' = files /\ extracted' = extracted /\ starting' = starting
        BY <2>1 DEF homeConsts
      <4>2. UndisturbedOf(c, starting[c])
        BY <3>1 DEF Undisturbed
      <4>3. \A i \in DOMAIN starting[c].results :
              Settled(c, starting[c].entries[i], starting[c].results[i])' <=> Settled(c, starting[c].entries[i], starting[c].results[i])
        BY <4>1 DEF Settled, Named
      <4> QED
        BY <4>1, <4>2, <4>3 DEF Undisturbed, UndisturbedOf, Settled, Named
    <3> QED
      BY <2>1, <3>1, <3>2, <3>3
  <2> QED
    BY <2>2, <2>3 DEF InstallerInv
<1> QED
  BY <1>1, <1>2

\* The invariant always holds.
LEMMA InstallerKept == InstallerSpec => []InstallerInv
<1> QED
  BY InstallerInitially, InstallerStep, PTL DEF InstallerSpec

\* The invariant is enough for what is promised of the containers.
LEMMA InstallerMeans == InstallerInv => InstallerSound
<1> SUFFICES ASSUME InstallerInv PROVE InstallerSound
  OBVIOUS
<1>1. ASSUME NEW c \in Containers, In(c, "command")
      PROVE  LET this == starting[c] IN
       /\ Len(this.results) = Len(this.entries) /\ Range(this.results) \subseteq {"already", "installed"}
       /\ this.entries # <<>> => piHome = "mount" /\ owner = "dev"
       /\ this.alone => \A i \in DOMAIN this.entries : LET entry == this.entries[i] IN
            /\ Named(entry.package) = entry.version
            /\ this.results[i] = "installed" =>
                 /\ files[entry.package] = [f \in Files |-> entry.version]
                 /\ extracted[entry.package] = c
  <2> DEFINE this == starting[c]
  <2>1. /\ this \in StartRecords /\ PlaceOf(this) /\ ResultsOf(this) /\ UndisturbedOf(c, this)
        /\ this.entries \in Projections /\ this.results \in Seq({"already", "installed", "failed"})
        /\ this.pc = "command"
    BY <1>1, StartHere DEF ProgressOf, In, Starting
  <2>2. Len(this.results) = Len(this.entries)
    BY <2>1 DEF PlaceOf
  <2>3. DOMAIN this.results = DOMAIN this.entries
    BY <2>1, <2>2, ProjectionSeq
  <2>4. \A i \in DOMAIN this.results : this.results[i] # "failed" /\ this.results[i] \in {"already", "installed"}
    BY <2>1 DEF ResultsOf
  <2>5. Range(this.results) \subseteq {"already", "installed"}
    BY <2>4 DEF Range
  <2>6. this.entries # <<>> => piHome = "mount" /\ owner = "dev"
    <3>1. this.entries # <<>> => 1 \in DOMAIN this.results /\ this.results # <<>>
      BY <2>1, <2>2, <2>3, ProjectionSeq
    <3> QED
      BY <2>1, <2>4, <3>1 DEF PlaceOf, ResultsOf
  <2>7. this.alone => \A i \in DOMAIN this.entries : Settled(c, this.entries[i], this.results[i])
    BY <2>1, <2>3, <2>4 DEF UndisturbedOf
  <2> QED
    BY <2>2, <2>5, <2>6, <2>7 DEF Settled
<1>2. \A p \in Range(Packages) : extracted[p] # Absent => piHome = "mount" /\ mountedBlob[p] = "right"
  BY DEF InstallerInv, WrittenSafely
<1>3. \A c \in Containers : starting[c].pc # "idle" =>
        \A i \in DOMAIN starting[c].results :
          starting[c].results[i] = "failed" =>
            i = Len(starting[c].results) /\ starting[c].pc \in {"report", "aborted"}
  BY StartHere DEF ProgressOf, ResultsOf, Starting
<1> QED
  BY <1>1, <1>2, <1>3 DEF InstallerSound

\* However many containers install into one Pi home, a command starts only with
\* every extension of its projection there and none failed, and nothing is written
\* from a wrong archive or into a home that is no mount (runtime_installer.py).
THEOREM CommandsStartInstalled == InstallerSpec => []InstallerSound
<1> QED
  BY InstallerKept, InstallerMeans, PTL

-----------------------------------------------------------------------------
(* The removal of the container of an assembly.                            *)

RemovalPlaces ==
  {"staging", "lockfile", "prepare", "popen", "launched", "collect", "settle", "rm", "unstage", "over"}
ContainerTyped ==
  /\ client \in {"none", "running", "stopping", "zero", "failed", "killed"}
  /\ creation \in {"idle", "asked", "answered"} /\ ctr \in BOOLEAN /\ unseen \in BOOLEAN
ThreadTyped ==
  /\ action \in {"unstarted", "waiting", "attempting", "removing", "done"}
  /\ context \in BOOLEAN /\ cancelled \in BOOLEAN /\ actionFailed \in BOOLEAN
  /\ helper \in BOOLEAN /\ attempted \in BOOLEAN
CleanerTyped ==
  /\ cleaner \in {"watch", "stage", "cancel", "reap", "settle", "late", "over"}
  /\ reason \in {"none", "deadline", "setup", "natural", "reader", "cancel"}
  /\ timedOut \in BOOLEAN /\ complete \in BOOLEAN /\ elapsed \in 0..2
  /\ failures \subseteq {"action", "unexpected", "ordinary", "interruption"}
ExitTyped ==
  /\ place \in RemovalPlaces /\ staging \in BOOLEAN
  /\ exit \in {"none", "unsafe", "interrupted", "timeout", "executor_failure", "returned", "npm_exit_nonzero"}
  /\ told \subseteq {"action", "incomplete", "rm", "residue"}
RemovalTypeOK == ContainerTyped /\ ThreadTyped /\ CleanerTyped /\ ExitTyped

\* What runs was asked for, and a client that ends with zero saw its container end.
DaemonInv ==
  /\ ctr => creation = "answered"
  /\ client = "none" => creation = "idle"
  /\ client = "zero" => ~ ctr /\ creation = "answered"

\* Before the client is started nothing has been asked for, of the daemon or of
\* the continuation; and the staging directory is there until it is removed.
BeforeLaunch ==
  /\ place \in {"staging", "lockfile", "prepare", "popen"} =>
       /\ client = "none" /\ reason = "none" /\ ~ timedOut /\ cleaner = "watch"
       /\ ~ context /\ ~ complete
  /\ place \in {"staging", "lockfile", "prepare"} => action = "unstarted"
  /\ place = "staging" => ~ staging
  /\ place \notin {"staging", "over"} => staging

\* The removal thread is given its context only for a client that is stopped,
\* after a request that is no natural end, and each such request is accounted.
RequestInv ==
  /\ context => client \notin {"none", "running"} /\ reason \notin {"none", "natural"}
  /\ attempted => context /\ action \in {"attempting", "removing", "done"}
  /\ reason \notin {"none", "natural"} => failures # {} \/ timedOut
  /\ reason = "none" => cleaner = "watch"

\* A cleanup that is complete is over, and its outcome is recorded.
CompleteInv ==
  /\ complete = (cleaner = "over")
  /\ complete => AllSettled /\ (actionFailed => "action" \in failures)

\* The container is removed and will not come back, unless unseen.
ContainerGone == unseen \/ (~ ctr /\ creation # "asked" /\ client # "running")
Warned == told \cap {"action", "incomplete", "rm"} # {}

\* What assemble relies on as it leaves: the thread's removal held, or its own.
LeavingInv ==
  /\ attempted /\ action = "done" /\ ~ actionFailed => ContainerGone
  /\ place = "rm" => Warned \/ (complete /\ ~ actionFailed)
  /\ place \in {"unstage", "over"} /\ exit # "returned" => Warned \/ ContainerGone
  /\ place = "over" /\ exit # "returned" /\ staging => "residue" \in told
  /\ exit = "returned" =>
       /\ place = "over" /\ staging /\ complete /\ client = "zero" /\ failures = {} /\ ~ timedOut
       /\ told = {}

RemovalInv ==
  RemovalTypeOK /\ DaemonInv /\ BeforeLaunch /\ RequestInv /\ CompleteInv /\ LeavingInv

\* The invariant holds before the assembly.
LEMMA RemovalInitially == RemovalInit => RemovalInv
<1> SUFFICES ASSUME RemovalInit PROVE RemovalInv
  OBVIOUS
<1>1. RemovalTypeOK
  <2>1. ContainerTyped /\ ThreadTyped
    BY DEF RemovalInit, ContainerTyped, ThreadTyped
  <2>2. CleanerTyped
    <3>1. failures \subseteq {"action", "unexpected", "ordinary", "interruption"}
      BY DEF RemovalInit
    <3>2. elapsed \in 0..2
      BY DEF RemovalInit
    <3> QED
      BY <3>1, <3>2 DEF RemovalInit, CleanerTyped
  <2>3. ExitTyped
    BY DEF RemovalInit, ExitTyped, RemovalPlaces
  <2> QED
    BY <2>1, <2>2, <2>3 DEF RemovalTypeOK
<1>2. DaemonInv /\ BeforeLaunch /\ RequestInv /\ CompleteInv
  BY DEF RemovalInit, DaemonInv, BeforeLaunch, RequestInv, CompleteInv
<1>3. LeavingInv
  BY DEF RemovalInit, LeavingInv
<1> QED
  BY <1>1, <1>2, <1>3 DEF RemovalInv

\* Every step of the assembly, of the daemon and of the client keeps it.
LEMMA RemovalStep == RemovalInv /\ [RemovalNext]_removalVars => RemovalInv'
<1> SUFFICES ASSUME RemovalInv, [RemovalNext]_removalVars PROVE RemovalInv'
  OBVIOUS
<1> USE DEF RemovalInv, RemovalTypeOK, ContainerTyped, ThreadTyped, CleanerTyped, ExitTyped, RemovalPlaces, DaemonInv, BeforeLaunch, RequestInv, CompleteInv,
            LeavingInv, ContainerGone, Warned, AllSettled, Alive, AssembleGoes, Request,
            processVars, actionVars, cleanerVars, requestVars, exitVars
<1>1. CASE UNCHANGED removalVars
  BY <1>1 DEF removalVars
<1>2. CASE \E o \in {"ready", "unsafe", "interrupted"} : PrepareStaging(o) /\ UNCHANGED <<unseen, processVars, actionVars, cleanerVars, requestVars, told>>
  BY <1>2 DEF PrepareStaging
<1>3. CASE \E o \in {"ready", "unsafe", "interrupted"} : WriteLockfile(o) /\ UNCHANGED <<unseen, processVars, actionVars, cleanerVars, requestVars, told>>
  BY <1>3 DEF WriteLockfile
<1>4. CASE (\E ok, ready \in BOOLEAN : Prepare(ok, ready)) /\ UNCHANGED <<staging, unseen, creation, ctr, timedOut, cleanerVars, exitVars>>
  BY <1>4 DEF Prepare
<1>5. CASE (\E ok \in BOOLEAN : Popen(ok)) /\ UNCHANGED <<staging, unseen, creation, ctr, timedOut, cleanerVars, exitVars>>
  <2>1. RemovalTypeOK'
    <3>1. ContainerTyped'
      BY <1>5 DEF Popen
    <3>2. ThreadTyped'
      BY <1>5 DEF Popen
    <3>3. CleanerTyped'
      BY <1>5 DEF Popen
    <3>4. ExitTyped'
      BY <1>5 DEF Popen
    <3> QED
      BY <3>1, <3>2, <3>3, <3>4
  <2>2. DaemonInv'
    BY <1>5 DEF Popen
  <2>3. BeforeLaunch'
    BY <1>5 DEF Popen
  <2>4. RequestInv'
    BY <1>5 DEF Popen
  <2>5. CompleteInv'
    BY <1>5 DEF Popen
  <2>6. LeavingInv'
    BY <1>5 DEF Popen
  <2> QED
    BY <2>1, <2>2, <2>3, <2>4, <2>5, <2>6
<1>6. CASE (\E ok \in BOOLEAN : Launched(ok)) /\ UNCHANGED <<staging, unseen, creation, ctr, timedOut, cleanerVars, exitVars>>
  <2>1. RemovalTypeOK'
    <3>1. ContainerTyped'
      BY <1>6 DEF Launched
    <3>2. ThreadTyped'
      BY <1>6 DEF Launched
    <3>3. CleanerTyped'
      BY <1>6 DEF Launched
    <3>4. ExitTyped'
      BY <1>6 DEF Launched
    <3> QED
      BY <3>1, <3>2, <3>3, <3>4
  <2>2. DaemonInv'
    BY <1>6 DEF Launched
  <2>3. BeforeLaunch'
    BY <1>6 DEF Launched
  <2>4. RequestInv'
    BY <1>6 DEF Launched
  <2>5. CompleteInv'
    BY <1>6 DEF Launched
  <2>6. LeavingInv'
    BY <1>6 DEF Launched
  <2> QED
    BY <2>1, <2>2, <2>3, <2>4, <2>5, <2>6
<1>7. CASE (Collected) /\ UNCHANGED <<staging, unseen, creation, ctr, timedOut, cleanerVars, exitVars>>
  BY <1>7 DEF Collected
<1>8. CASE (ReaderFails) /\ UNCHANGED <<staging, unseen, creation, ctr, timedOut, cleanerVars, exitVars>>
  BY <1>8 DEF ReaderFails
<1>9. CASE (InterruptRun) /\ UNCHANGED <<staging, unseen, creation, ctr, timedOut, cleanerVars, exitVars>>
  BY <1>9 DEF InterruptRun
<1>10. CASE RunResult
  BY <1>10 DEF RunResult, Raised, ExitFailure, Notes
<1>11. CASE RemoveIfNotAttempted
  <2>1. RemovalTypeOK'
    <3>1. ContainerTyped'
      BY <1>11 DEF RemoveIfNotAttempted, RemoveContainer
    <3>2. ThreadTyped'
      BY <1>11 DEF RemoveIfNotAttempted, RemoveContainer
    <3>3. CleanerTyped'
      BY <1>11 DEF RemoveIfNotAttempted, RemoveContainer
    <3>4. ExitTyped'
      BY <1>11 DEF RemoveIfNotAttempted, RemoveContainer
    <3> QED
      BY <3>1, <3>2, <3>3, <3>4
  <2>2. DaemonInv'
    BY <1>11 DEF RemoveIfNotAttempted, RemoveContainer
  <2>3. BeforeLaunch'
    BY <1>11 DEF RemoveIfNotAttempted, RemoveContainer
  <2>4. RequestInv'
    BY <1>11 DEF RemoveIfNotAttempted, RemoveContainer
  <2>5. CompleteInv'
    BY <1>11 DEF RemoveIfNotAttempted, RemoveContainer
  <2>6. LeavingInv'
    BY <1>11 DEF RemoveIfNotAttempted, RemoveContainer
  <2> QED
    BY <2>1, <2>2, <2>3, <2>4, <2>5, <2>6
<1>12. CASE RemoveStaging
  <2>1. RemovalTypeOK'
    <3>1. ContainerTyped'
      BY <1>12 DEF RemoveStaging
    <3>2. ThreadTyped'
      BY <1>12 DEF RemoveStaging
    <3>3. CleanerTyped'
      BY <1>12 DEF RemoveStaging
    <3>4. ExitTyped'
      BY <1>12 DEF RemoveStaging
    <3> QED
      BY <3>1, <3>2, <3>3, <3>4
  <2>2. DaemonInv'
    BY <1>12 DEF RemoveStaging
  <2>3. BeforeLaunch'
    BY <1>12 DEF RemoveStaging
  <2>4. RequestInv'
    BY <1>12 DEF RemoveStaging
  <2>5. CompleteInv'
    BY <1>12 DEF RemoveStaging
  <2>6. LeavingInv'
    BY <1>12 DEF RemoveStaging
  <2> QED
    BY <2>1, <2>2, <2>3, <2>4, <2>5, <2>6
<1>13. CASE (Wake) /\ UNCHANGED <<place, staging, cleanerVars, requestVars, exitVars>>
  BY <1>13 DEF Wake
<1>14. CASE (TooLate) /\ UNCHANGED <<place, staging, cleanerVars, requestVars, exitVars>>
  BY <1>14 DEF TooLate
<1>15. CASE (Removes) /\ UNCHANGED <<place, staging, cleanerVars, requestVars, exitVars>>
  BY <1>15 DEF Removes
<1>16. CASE (HelperEnds) /\ UNCHANGED <<place, staging, cleanerVars, requestVars, exitVars>>
  <2>1. RemovalTypeOK'
    <3>1. ContainerTyped'
      BY <1>16 DEF HelperEnds
    <3>2. ThreadTyped'
      BY <1>16 DEF HelperEnds
    <3>3. CleanerTyped'
      BY <1>16 DEF HelperEnds
    <3>4. ExitTyped'
      BY <1>16 DEF HelperEnds
    <3> QED
      BY <3>1, <3>2, <3>3, <3>4
  <2>2. DaemonInv'
    BY <1>16 DEF HelperEnds
  <2>3. BeforeLaunch'
    BY <1>16 DEF HelperEnds
  <2>4. RequestInv'
    BY <1>16 DEF HelperEnds
  <2>5. CompleteInv'
    BY <1>16 DEF HelperEnds
  <2>6. LeavingInv'
    BY <1>16 DEF HelperEnds
  <2> QED
    BY <2>1, <2>2, <2>3, <2>4, <2>5, <2>6
<1>17. CASE (\E ok \in BOOLEAN : Removed(ok)) /\ UNCHANGED <<place, staging, cleanerVars, requestVars, exitVars>>
  <2>1. RemovalTypeOK'
    <3>1. ContainerTyped'
      BY <1>17 DEF Removed, RemoveContainer, RmClient
    <3>2. ThreadTyped'
      BY <1>17 DEF Removed, RemoveContainer, RmClient
    <3>3. CleanerTyped'
      BY <1>17 DEF Removed, RemoveContainer, RmClient
    <3>4. ExitTyped'
      BY <1>17 DEF Removed, RemoveContainer, RmClient
    <3> QED
      BY <3>1, <3>2, <3>3, <3>4
  <2>2. DaemonInv'
    BY <1>17 DEF Removed, RemoveContainer, RmClient
  <2>3. BeforeLaunch'
    BY <1>17 DEF Removed, RemoveContainer, RmClient
  <2>4. RequestInv'
    BY <1>17 DEF Removed, RemoveContainer, RmClient
  <2>5. CompleteInv'
    BY <1>17 DEF Removed, RemoveContainer, RmClient
  <2>6. LeavingInv'
    BY <1>17 DEF Removed, RemoveContainer, RmClient
  <2> QED
    BY <2>1, <2>2, <2>3, <2>4, <2>5, <2>6
<1>18. CASE Deadline /\ UNCHANGED <<place, staging, unseen, creation, ctr, elapsed, exitVars>>
  BY <1>18 DEF Deadline
<1>19. CASE RunPolicy /\ UNCHANGED <<place, staging, unseen, creation, ctr, elapsed, exitVars>>
  <2>1. RemovalTypeOK'
    <3>1. ContainerTyped'
      BY <1>19 DEF RunPolicy
    <3>2. ThreadTyped'
      BY <1>19 DEF RunPolicy
    <3>3. CleanerTyped'
      BY <1>19 DEF RunPolicy
    <3>4. ExitTyped'
      BY <1>19 DEF RunPolicy
    <3> QED
      BY <3>1, <3>2, <3>3, <3>4
  <2>2. DaemonInv'
    BY <1>19 DEF RunPolicy
  <2>3. BeforeLaunch'
    BY <1>19 DEF RunPolicy
  <2>4. RequestInv'
    BY <1>19 DEF RunPolicy
  <2>5. CompleteInv'
    BY <1>19 DEF RunPolicy
  <2>6. LeavingInv'
    BY <1>19 DEF RunPolicy
  <2> QED
    BY <2>1, <2>2, <2>3, <2>4, <2>5, <2>6
<1>20. CASE StageEnds /\ UNCHANGED <<place, staging, unseen, creation, ctr, elapsed, exitVars>>
  BY <1>20 DEF StageEnds
<1>21. CASE CancelAction /\ UNCHANGED <<place, staging, unseen, creation, ctr, elapsed, exitVars>>
  BY <1>21 DEF CancelAction
<1>22. CASE Reap /\ UNCHANGED <<place, staging, unseen, creation, ctr, elapsed, exitVars>>
  BY <1>22 DEF Reap
<1>23. CASE PublishStatus /\ UNCHANGED <<place, staging, unseen, creation, ctr, elapsed, exitVars>>
  BY <1>23 DEF PublishStatus, Observed
<1>24. CASE TimeGoesBy
  BY <1>24 DEF TimeGoesBy
<1>25. CASE ClientAsks /\ UNCHANGED <<place, staging, unseen, actionVars, cleanerVars, requestVars, exitVars>>
  BY <1>25 DEF ClientAsks
<1>26. CASE DaemonAnswers /\ UNCHANGED <<place, staging, unseen, actionVars, cleanerVars, requestVars, exitVars>>
  <2>1. RemovalTypeOK'
    <3>1. ContainerTyped'
      BY <1>26 DEF DaemonAnswers
    <3>2. ThreadTyped'
      BY <1>26 DEF DaemonAnswers
    <3>3. CleanerTyped'
      BY <1>26 DEF DaemonAnswers
    <3>4. ExitTyped'
      BY <1>26 DEF DaemonAnswers
    <3> QED
      BY <3>1, <3>2, <3>3, <3>4
  <2>2. DaemonInv'
    BY <1>26 DEF DaemonAnswers
  <2>3. BeforeLaunch'
    BY <1>26 DEF DaemonAnswers
  <2>4. RequestInv'
    BY <1>26 DEF DaemonAnswers
  <2>5. CompleteInv'
    BY <1>26 DEF DaemonAnswers
  <2>6. LeavingInv'
    BY <1>26 DEF DaemonAnswers
  <2> QED
    BY <2>1, <2>2, <2>3, <2>4, <2>5, <2>6
<1>27. CASE ContainerEnds /\ UNCHANGED <<place, staging, unseen, actionVars, cleanerVars, requestVars, exitVars>>
  <2>1. RemovalTypeOK'
    <3>1. ContainerTyped'
      BY <1>27 DEF ContainerEnds
    <3>2. ThreadTyped'
      BY <1>27 DEF ContainerEnds
    <3>3. CleanerTyped'
      BY <1>27 DEF ContainerEnds
    <3>4. ExitTyped'
      BY <1>27 DEF ContainerEnds
    <3> QED
      BY <3>1, <3>2, <3>3, <3>4
  <2>2. DaemonInv'
    BY <1>27 DEF ContainerEnds
  <2>3. BeforeLaunch'
    BY <1>27 DEF ContainerEnds
  <2>4. RequestInv'
    BY <1>27 DEF ContainerEnds
  <2>5. CompleteInv'
    BY <1>27 DEF ContainerEnds
  <2>6. LeavingInv'
    BY <1>27 DEF ContainerEnds
  <2> QED
    BY <2>1, <2>2, <2>3, <2>4, <2>5, <2>6
<1>28. CASE ClientEnds /\ UNCHANGED <<place, staging, unseen, actionVars, cleanerVars, requestVars, exitVars>>
  BY <1>28 DEF ClientEnds
<1> QED
  BY <1>1, <1>2, <1>3, <1>4, <1>5, <1>6, <1>7, <1>8, <1>9, <1>10, <1>11, <1>12, <1>13, <1>14, <1>15,
     <1>16, <1>17, <1>18, <1>19, <1>20, <1>21, <1>22, <1>23, <1>24, <1>25, <1>26, <1>27, <1>28 DEF
     RemovalNext, Begin, Run, Thread, Continuation, Outside

\* The invariant always holds.
LEMMA RemovalKept == RemovalSpec => []RemovalInv
<1>1. RemovalInit => RemovalInv
  BY RemovalInitially
<1>2. RemovalInv /\ [RemovalNext]_removalVars => RemovalInv'
  BY RemovalStep
<1> QED
  BY <1>1, <1>2, PTL DEF RemovalSpec

\* Whatever the daemon, the client and the signals do, an assembly that leaves a
\* container or a staging directory behind says so (execution.py: assemble,
\* run_streaming and _ContainerRemovalAction).
THEOREM ContainersAreRemoved == RemovalSpec => []RemovalSound
<1>1. RemovalInv => RemovalSound
  BY DEF RemovalInv, RequestInv, LeavingInv, RemovalSound, DaemonInv, ContainerGone, Warned
<1> QED
  BY <1>1, RemovalKept, PTL

-----------------------------------------------------------------------------
(* The commands side by side.                                              *)

\* Whatever the other commands do, each leaves what it shares sound: the
\* companion, the names and projections of launches, the Pi home, and the
\* container of an assembly (build_orchestration.py, launcher.py,
\* runtime_installer.py, npm_environment/execution.py).
THEOREM CommandsAreSound ==
  HostSpec /\ LaunchSpec /\ InstallerSpec /\ RemovalSpec => []CommandsSound
<1>1. CompanionSound /\ LaunchSound /\ InstallerSound /\ RemovalSound => CommandsSound
  BY DEF CommandsSound
<1> QED
  BY <1>1, CompanionsSound, LaunchesSound, CommandsStartInstalled, ContainersAreRemoved, PTL
=============================================================================
