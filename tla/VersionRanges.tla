---------------------------- MODULE VersionRanges ----------------------------
(***************************************************************************)
(* What the versions mean: the precedence of semantic versions (semver),   *)
(* the ranges of npm in a lock file (semver_range) and the constraints of  *)
(* the reviewed inventory (constraints).  Each is compared with what its   *)
(* notation promises, a set of versions, over every input within bounds.   *)
(*                                                                         *)
(* A version is <<major, minor, patch, prerelease>>.  A prerelease is a    *)
(* sequence of identifiers, numeric <<0, n>> or a word <<1, k>>; the words  *)
(* are numbered in their order.  X stands for a part left open.            *)
(***************************************************************************)
EXTENDS Integers, Sequences, FiniteSets, SequencesExt, FiniteSetsExt

CONSTANTS MaxPart,        \* the parts of a version go from 0 to this
          Prereleases,    \* the prereleases that are tried
          MaxClauses      \* bound on the clauses of a constraint

ASSUME RangeAssumption == MaxPart \in Nat /\ MaxClauses \in Nat /\ Prereleases \subseteq Seq({0, 1} \X Nat)

VARIABLE query            \* the question that is asked
rangeVars == <<query>>

PartNumbers == 0..MaxPart
X == MaxPart + 5
SemVersions == PartNumbers \X PartNumbers \X PartNumbers \X ({<<>>} \cup Prereleases)
Triple(v) == <<v[1], v[2], v[3]>>

----------------------------------------------------------------------------
(* semver: SemanticVersion.__lt__ and __eq__ *)

LessIn(a, b) == \E i \in DOMAIN a : a[i] < b[i] /\ \A k \in 1..(i - 1) : a[k] = b[k]

\* _compare_prerelease: the first pair that differs, else the shorter is less.
PrereleaseLess(a, b) ==
  LET both == 1..(IF Len(a) < Len(b) THEN Len(a) ELSE Len(b))
      differ == {i \in both : a[i] # b[i]}
  IN IF differ = {} THEN Len(a) < Len(b) ELSE LessIn(a[Min(differ)], b[Min(differ)])

Less(v, w) ==
  \/ LessIn(Triple(v), Triple(w))
  \/ Triple(v) = Triple(w) /\
       IF w[4] = <<>> THEN v[4] # <<>> ELSE v[4] # <<>> /\ PrereleaseLess(v[4], w[4])

----------------------------------------------------------------------------
(* semver_range: a token becomes a set of bounds, and a version meets all    *)
(* bounds of a branch; no bound is any version                              *)

Bound(op, a, b, c, pre) == [op |-> op, version |-> <<a, b, c, pre>>]
Zero == <<<<0, 0>>>>                       \* the prerelease -0
From(a, b, c, pre) == Bound(">=", a, b, c, pre)
Below(a, b, c) == Bound("<", a, b, c, Zero)

SatisfiesBound(bound, v) ==
  CASE bound.op = ">"  -> Less(bound.version, v)
    [] bound.op = ">=" -> v = bound.version \/ Less(bound.version, v)
    [] bound.op = "<"  -> Less(v, bound.version)
    [] bound.op = "<=" -> v = bound.version \/ Less(v, bound.version)
    [] OTHER -> v = bound.version

\* A possible bug: a caret on 0.m allows the next minor.
CaretWide(a, b, c) == Below(a + 1, 0, 0)
CaretBelow(a, b, c) ==
  IF a > 0 THEN Below(a + 1, 0, 0) ELSE IF b > 0 THEN Below(a, b + 1, 0) ELSE Below(a, b, c + 1)

ReplaceCaret(a, b, c, pre) ==
  IF a = X THEN {}
  ELSE IF b = X THEN {From(a, 0, 0, <<>>), Below(a + 1, 0, 0)}
  ELSE IF c = X THEN {From(a, b, 0, <<>>), IF a = 0 THEN Below(a, b + 1, 0) ELSE Below(a + 1, 0, 0)}
  ELSE {From(a, b, c, pre), CaretBelow(a, b, c)}

ReplaceTilde(a, b, c, pre) ==
  IF a = X THEN {}
  ELSE IF b = X THEN {From(a, 0, 0, <<>>), Below(a + 1, 0, 0)}
  ELSE {From(a, b, IF c = X THEN 0 ELSE c, IF c = X THEN <<>> ELSE pre), Below(a, b + 1, 0)}

\* A part of the version is left open.
ReplaceOpen(op, a, b) ==
  LET next == IF b = X THEN <<a + 1, 0>> ELSE <<a, b + 1>>
      first == <<a, IF b = X THEN 0 ELSE b>>
  IN CASE op = ">" -> {From(next[1], next[2], 0, <<>>)}
       [] op = ">=" -> {From(first[1], first[2], 0, <<>>)}
       [] op = "<=" -> {Below(next[1], next[2], 0)}
       [] op = "<" -> {Below(first[1], first[2], 0)}
       [] OTHER -> {From(first[1], first[2], 0, <<>>), Below(next[1], next[2], 0)}

ReplaceXRange(op, a, b, c, pre) ==
  IF a = X THEN IF op \in {">", "<"} THEN {Below(0, 0, 0)} ELSE {}
  ELSE IF X \in {b, c} THEN ReplaceOpen(op, a, b)
  ELSE {Bound(IF op = "" THEN "=" ELSE op, a, b, c, pre)}

\* >=0.0.0 is the same as no bound at all.
Collapsed(bounds) == bounds \ {From(0, 0, 0, <<>>)}

DesugarToken(t) ==
  Collapsed(CASE t.op = "^" -> ReplaceCaret(t.a, t.b, t.c, t.pre)
              [] t.op = "~" -> ReplaceTilde(t.a, t.b, t.c, t.pre)
              [] OTHER -> ReplaceXRange(t.op, t.a, t.b, t.c, t.pre))

\* A - B is the whole of a branch.
HyphenFrom(t) ==
  IF t.a = X THEN {}
  ELSE IF t.b = X THEN {From(t.a, 0, 0, <<>>)}
  ELSE IF t.c = X THEN {From(t.a, t.b, 0, <<>>)}
  ELSE {From(t.a, t.b, t.c, t.pre)}
HyphenTo(t) ==
  IF t.a = X THEN {}
  ELSE IF t.b = X THEN {Below(t.a + 1, 0, 0)}
  ELSE IF t.c = X THEN {Below(t.a, t.b + 1, 0)}
  ELSE {Bound("<=", t.a, t.b, t.c, t.pre)}
ReplaceHyphen(from, to) == Collapsed(HyphenFrom(from) \cup HyphenTo(to))

OptsIn(bounds, v) ==
  \E bound \in bounds : bound.version[4] # <<>> /\ Triple(bound.version) = Triple(v)

BranchMatches(bounds, v) ==
  /\ \A bound \in bounds : SatisfiesBound(bound, v)
  /\ v[4] # <<>> => OptsIn(bounds, v)

----------------------------------------------------------------------------
(* constraints: clauses on one line of versions; the even points are those  *)
(* the clauses name, the odd ones lie between two of them                   *)

EvalClause(clause, v) ==
  CASE clause.op = "==" -> v = clause.at [] clause.op = ">" -> v > clause.at
    [] clause.op = ">=" -> v >= clause.at [] clause.op = "<" -> v < clause.at
    [] OTHER -> v <= clause.at

AtOf(clauses, op) == {clauses[i].at : i \in {k \in DOMAIN clauses : clauses[k].op = op}}

\* The tighter of the strict and the loose bound; on a tie the strict one.
Lower(clauses) ==
  LET strict == AtOf(clauses, ">") loose == AtOf(clauses, ">=")
  IN IF strict # {} /\ (loose = {} \/ Max(strict) >= Max(loose)) THEN [at |-> Max(strict), inclusive |-> FALSE]
     ELSE [at |-> Max(loose), inclusive |-> TRUE]
Upper(clauses) ==
  LET strict == AtOf(clauses, "<") loose == AtOf(clauses, "<=")
  IN IF strict # {} /\ (loose = {} \/ Min(strict) <= Min(loose)) THEN [at |-> Min(strict), inclusive |-> FALSE]
     ELSE [at |-> Min(loose), inclusive |-> TRUE]
HasLower(clauses) == AtOf(clauses, ">") \cup AtOf(clauses, ">=") # {}
HasUpper(clauses) == AtOf(clauses, "<") \cup AtOf(clauses, "<=") # {}

\* A possible bug: bounds that meet in one point are taken however strict.
MeetLoosely(lower, upper) == FALSE
Exclude(lower, upper) == lower.at = upper.at /\ (~ lower.inclusive \/ ~ upper.inclusive)

\* validate_constraint_consistency: when it raises.
Contradicts(clauses) ==
  LET equal == AtOf(clauses, "==") IN
  \/ Cardinality(equal) > 1
  \/ \E e \in equal :
       \/ HasLower(clauses) /\ (e < Lower(clauses).at \/ (e = Lower(clauses).at /\ ~ Lower(clauses).inclusive))
       \/ HasUpper(clauses) /\ (e > Upper(clauses).at \/ (e = Upper(clauses).at /\ ~ Upper(clauses).inclusive))
       \/ e \in AtOf(clauses, ">") \cup AtOf(clauses, "<")
  \/ HasLower(clauses) /\ HasUpper(clauses) /\
       (Lower(clauses).at > Upper(clauses).at \/ Exclude(Lower(clauses), Upper(clauses)))

----------------------------------------------------------------------------
\* The questions: two versions, a token, a hyphen range, a constraint.
RangeToken == [op : {"", "=", "<", "<=", ">", ">=", "^", "~"}, a : PartNumbers \cup {X}, b : PartNumbers \cup {X},
          c : PartNumbers \cup {X}, pre : {<<>>} \cup Prereleases]
Plain == {t \in RangeToken : t.op = "" /\ (t.pre # <<>> => X \notin {t.a, t.b, t.c})}
Clause == [op : {"==", ">", ">=", "<", "<="}, at : {2, 4, 6}]

RangeInit ==
  \/ query \in [kind : {"order"}, v : SemVersions, w : SemVersions]
  \/ query \in [kind : {"token"}, token : RangeToken]
  \/ query \in [kind : {"hyphen"}, from : Plain, to : Plain]
  \/ query \in [kind : {"constraint"}, clauses : UNION {[1..n -> Clause] : n \in 1..MaxClauses}]
RangeNext == UNCHANGED query
RangeSpec == RangeInit /\ [][RangeNext]_rangeVars

----------------------------------------------------------------------------
(* What each notation promises *)

AtMost(v, w) == v = w \/ Less(v, w)
\* From 0.0.0 on is every version, its prereleases included (as in npm).
Reaches(low, v) == AtMost(low, v) \/ low = <<0, 0, 0, <<>>>>
Full(t) == X \notin {t.a, t.b, t.c}
\* The release of v begins like the token, as far as the token says.
Begins(t, v) == t.a = X \/ (v[1] = t.a /\ (t.b = X \/ (v[2] = t.b /\ (t.c = X \/ v[3] = t.c))))
Lowest(t) == <<t.a, IF t.b = X THEN 0 ELSE t.b, IF X \in {t.b, t.c} THEN 0 ELSE t.c, IF Full(t) THEN t.pre ELSE <<>>>>
Beyond(t, v) == t.a # X /\ LessIn(Triple(Lowest(t)), Triple(v)) /\ ~ Begins(t, v)
Short(t, v) == t.a # X /\ LessIn(Triple(v), Triple(Lowest(t)))

\* The leftmost part of the token that is not zero does not change.
SameLead(t, v) ==
  \/ t.a = X
  \/ t.a # X /\ IF t.a > 0 \/ t.b = X THEN v[1] = t.a
                ELSE IF t.b > 0 \/ t.c = X THEN v[1] = 0 /\ v[2] = t.b
                ELSE Triple(v) = <<t.a, t.b, t.c>>
Means(t, v) ==
  CASE t.op = "^" -> SameLead(t, v) /\ (t.a # X => Reaches(Lowest(t), v))
    [] t.op = "~" -> (t.a = X \/ (v[1] = t.a /\ (t.b = X \/ v[2] = t.b))) /\ (t.a # X => Reaches(Lowest(t), v))
    [] t.op \notin {"^", "~"} /\ ~ Full(t) ->
         (CASE t.op \in {"", "="} -> Begins(t, v)
            [] t.op = ">=" -> t.a = X \/ Reaches(Lowest(t), v)
            [] t.op = "<=" -> t.a = X \/ Begins(t, v) \/ Short(t, v)
            [] t.op = ">" -> Beyond(t, v)
            [] OTHER -> Short(t, v))
    [] OTHER -> (CASE t.op \in {"", "="} -> v = Lowest(t) [] t.op = ">=" -> Reaches(Lowest(t), v)
                   [] t.op = "<=" -> AtMost(v, Lowest(t)) [] t.op = ">" -> Less(Lowest(t), v)
                   [] OTHER -> Less(v, Lowest(t)))
\* A prerelease counts only beside a comparator on its own release.
PrereleaseNamed(t, v) == v[4] = <<>> \/ (Full(t) /\ t.pre # <<>> /\ Triple(Lowest(t)) = Triple(v))

\* Precedence is a total order; a token and a hyphen range take exactly the
\* versions their notation means; a constraint is refused exactly when no
\* version, however fine, could satisfy it.
VersionsSound ==
  CASE query.kind = "order" ->
         /\ query.v = query.w <=> (Less(query.v, query.w) <=> Less(query.w, query.v))
         /\ \A u \in SemVersions : Less(u, query.v) /\ Less(query.v, query.w) => Less(u, query.w)
    [] query.kind = "token" -> \A v \in SemVersions :
         BranchMatches(DesugarToken(query.token), v) <=> Means(query.token, v) /\ PrereleaseNamed(query.token, v)
    [] query.kind = "hyphen" -> \A v \in SemVersions :
         BranchMatches(ReplaceHyphen(query.from, query.to), v) <=>
           /\ Means([query.from EXCEPT !.op = ">="], v) /\ Means([query.to EXCEPT !.op = "<="], v)
           /\ PrereleaseNamed(query.from, v) \/ PrereleaseNamed(query.to, v)
    [] query.kind = "constraint" -> Contradicts(query.clauses) <=>
         ~ \E v \in 1..7 : \A i \in DOMAIN query.clauses : EvalClause(query.clauses[i], v)
    [] OTHER -> TRUE
=============================================================================
