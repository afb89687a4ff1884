--------------------------- MODULE FilesystemProofs ---------------------------
(***************************************************************************)
(* Proofs about the ownership of descriptors (SecureDirectory), the shared *)
(* artifact cache (ArtifactCache) and the response cache (ResponseCache),  *)
(* for any numbers, any depth of a path, any launches and commands.        *)
(***************************************************************************)
EXTENDS SecureDirectory, CachedContent, WellFoundedInduction, TLAPS

-----------------------------------------------------------------------------
(* Least numbers *)

\* A set of numbers that is not empty has a least one.
LEMMA LeastExists ==
  ASSUME NEW S, S \subseteq Nat, S # {} PROVE \E x \in S : \A y \in S : x =< y
<1>1. PICK x \in S : \A y \in S : ~ (<<y, x>> \in OpToRel(<, Nat))
  BY WFMin, NatLessThanWellFounded, Zenon
<1>2. \A y \in S : ~ (y < x)
  BY <1>1, Zenon DEF OpToRel
<1> QED
  BY <1>2

\* What the kernel hands out is free.
LEMMA MinFree == ASSUME Free # {} PROVE Min(Free) \in Free
<1>1. Free \subseteq Nat
  BY SecureAssumption DEF Free
<1> QED
  BY <1>1, LeastExists DEF Min

-----------------------------------------------------------------------------
(* Precedence of failures *)

FailureSet == [class : Classes, number : Nat]

\* Whichever class occurs in a list of failures, a first failure of it does.
LEMMA FirstOfClass ==
  ASSUME NEW s \in Seq(FailureSet), NEW c, HasClass(s, c)
  PROVE  \E i \in 1..Len(s) : /\ FirstOf(s, c) = s[i] /\ s[i].class = c
                              /\ \A j \in 1..i - 1 : s[j].class # c
<1> DEFINE S == {i \in 1..Len(s) : s[i].class = c}
<1>1. S \subseteq Nat /\ S # {}
  BY DEF HasClass
<1>2. PICK i \in S : \A j \in S : i =< j
  BY <1>1, LeastExists
<1>3. i \in DOMAIN s /\ s[i].class = c /\ \A j \in 1..i - 1 : s[j].class # c
  BY <1>2
<1>4. DOMAIN s = 1..Len(s)
  OBVIOUS
<1> QED
  BY <1>3, <1>4 DEF FirstOf

\* complete() picks the failure that all of them call for, those of the release
\* coming after those before it.
LEMMA Precedence ==
  ASSUME NEW s \in Seq(FailureSet), NEW k \in 0..Len(s), NEW p, Outcome(s, k, p),
         NEW c \in Seq(FailureSet), Len(c) = Len(s) - k, \A i \in 1..Len(c) : c[i] = s[k + i]
  PROVE  Outcome(s, Len(s), Authoritative(p, c))
<1>1. Len(s) \in Nat /\ Len(c) \in Nat /\ k \in Nat /\ DOMAIN c = 1..Len(c)
  OBVIOUS
<1>2. \A i \in 1..Len(s) : s[i].class \in Classes
  <2>1. \A i \in 1..Len(s) : s[i] \in FailureSet
    OBVIOUS
  <2> QED
    BY <2>1 DEF FailureSet
<1>0. \A i \in 1..Len(c) : k + i \in 1..Len(s) /\ k + i > k
  BY <1>1
<1>3. \A i \in 1..Len(s) : i > k => i - k \in 1..Len(c) /\ c[i - k] = s[i]
  BY <1>1
<1>4. ASSUME NEW x PROVE HasClass(c, x) <=> \E i \in 1..Len(s) : i > k /\ s[i].class = x
  <2>1. ASSUME HasClass(c, x) PROVE \E i \in 1..Len(s) : i > k /\ s[i].class = x
    <3>1. PICK m \in 1..Len(c) : c[m].class = x
      BY <2>1, <1>1 DEF HasClass
    <3>2. s[k + m] = c[m]
      BY <3>1
    <3> QED
      BY <3>1, <3>2, <1>0
  <2>2. ASSUME NEW i \in 1..Len(s), i > k, s[i].class = x PROVE HasClass(c, x)
    <3>1. i - k \in DOMAIN c /\ c[i - k].class = x
      BY <2>2, <1>3, <1>1
    <3> QED
      BY <3>1 DEF HasClass
  <2> QED
    BY <2>1, <2>2
<1>5. ASSUME NEW x, HasClass(c, x)
      PROVE  \E i \in 1..Len(s) :
               /\ i > k /\ FirstOf(c, x) = s[i] /\ s[i].class = x
               /\ \A j \in k + 1..i - 1 : s[j].class # x
  <2>1. PICK m \in 1..Len(c) : /\ FirstOf(c, x) = c[m] /\ c[m].class = x
                               /\ \A j \in 1..m - 1 : c[j].class # x
    BY <1>5, FirstOfClass
  <2>2. k + m \in 1..Len(s) /\ k + m > k /\ c[m] = s[k + m]
    BY <1>0
  <2>3. \A j \in k + 1..k + m - 1 : j - k \in 1..m - 1 /\ j \in 1..Len(s) /\ j > k
    BY <1>1
  <2>4. \A j \in k + 1..k + m - 1 : s[j].class # x
    BY <2>1, <2>3, <1>3
  <2> QED
    BY <2>1, <2>2, <2>4
<1>6. CASE k = 0 /\ p = NoFailure
  <2>1. p.class = "none" /\ ~ (p # NoFailure)
    BY <1>6 DEF NoFailure
  <2>2. CASE HasClass(c, "interruption")
    <3>1. Authoritative(p, c) = FirstOf(c, "interruption")
      BY <2>1, <2>2 DEF Authoritative
    <3> QED
      BY <3>1, <2>2, <1>5, <1>1, <1>6 DEF Outcome
  <2>3. CASE ~ HasClass(c, "interruption") /\ HasClass(c, "defect")
    <3>1. Authoritative(p, c) = FirstOf(c, "defect")
      BY <2>1, <2>3 DEF Authoritative
    <3>2. \A j \in 1..Len(s) : s[j].class # "interruption"
      BY <2>3, <1>4, <1>6
    <3> QED
      BY <3>1, <3>2, <2>3, <1>5, <1>1, <1>6 DEF Outcome
  <2>4. CASE ~ HasClass(c, "interruption") /\ ~ HasClass(c, "defect")
    <3>1. \A j \in 1..Len(s) : s[j].class = "ordinary"
      BY <2>4, <1>4, <1>6, <1>2 DEF Classes
    <3>2. CASE Len(s) = 0
      <4>1. ~ HasClass(c, "ordinary")
        BY <3>2, <1>4
      <4>2. Authoritative(p, c) = NoFailure
        BY <4>1, <2>1, <2>4 DEF Authoritative
      <4> QED
        BY <4>2, <3>2 DEF Outcome
    <3>3. CASE Len(s) # 0
      <4>1. HasClass(c, "ordinary")
        BY <3>1, <3>3, <1>1, <1>4, <1>6
      <4>2. Authoritative(p, c) = FirstOf(c, "ordinary")
        BY <4>1, <2>1, <2>4 DEF Authoritative
      <4>3. PICK i \in 1..Len(s) : /\ i > k /\ FirstOf(c, "ordinary") = s[i]
                                   /\ \A j \in k + 1..i - 1 : s[j].class # "ordinary"
        BY <4>1, <1>5
      <4>4. i = 1
        BY <4>3, <3>1, <1>6, <1>1
      <4> QED
        BY <4>2, <4>3, <4>4, <3>1 DEF Outcome
    <3> QED
      BY <3>2, <3>3
  <2> QED
    BY <2>2, <2>3, <2>4
<1>7. CASE k # 0
  <2>1. PICK i \in 1..k :
       /\ p = s[i]
       /\ \/ p.class = "interruption" /\ \A j \in 1..i - 1 : s[j].class # "interruption"
          \/ p.class = "defect" /\ \A j \in 1..k : s[j].class # "interruption"
          \/ i = 1 /\ \A j \in 1..k : s[j].class = "ordinary"
    BY <1>7 DEF Outcome
  <2>2. i \in 1..Len(s) /\ p.class \in Classes
    BY <2>1, <1>1, <1>2
  <2>3. p # NoFailure
    BY <2>2 DEF NoFailure, Classes
  <2>4. CASE p.class = "interruption"
    <3>1. Authoritative(p, c) = p
      BY <2>4 DEF Authoritative
    <3>2. \A j \in 1..i - 1 : s[j].class # "interruption"
      BY <2>1, <2>4, <1>1
    <3> QED
      BY <3>1, <3>2, <2>1, <2>2, <2>4 DEF Outcome
  <2>5. CASE p.class # "interruption"
    <3>1. \A j \in 1..k : s[j].class # "interruption"
      BY <2>1, <2>5
    <3>2. CASE HasClass(c, "interruption")
      <4>1. Authoritative(p, c) = FirstOf(c, "interruption")
        BY <2>5, <3>2 DEF Authoritative
      <4>2. PICK m \in 1..Len(s) : /\ m > k /\ FirstOf(c, "interruption") = s[m]
                                   /\ s[m].class = "interruption"
                                   /\ \A j \in k + 1..m - 1 : s[j].class # "interruption"
        BY <3>2, <1>5
      <4>3. \A j \in 1..m - 1 : j \in 1..k \/ j \in k + 1..m - 1
        BY <1>1
      <4>4. \A j \in 1..m - 1 : s[j].class # "interruption"
        BY <4>2, <4>3, <3>1
      <4> QED
        BY <4>1, <4>2, <4>4 DEF Outcome
    <3>3. CASE ~ HasClass(c, "interruption")
      <4>1. \A j \in 1..Len(s) : s[j].class # "interruption"
        <5>1. \A j \in 1..Len(s) : j \in 1..k \/ j > k
          BY <1>1
        <5> QED
          BY <5>1, <3>1, <3>3, <1>4
      <4>2. CASE HasClass(c, "defect")
        <5>1. Authoritative(p, c) = FirstOf(c, "defect")
          BY <2>5, <3>3, <4>2 DEF Authoritative
        <5> QED
          BY <5>1, <4>1, <4>2, <1>5 DEF Outcome
      <4>3. CASE ~ HasClass(c, "defect")
        <5>1. Authoritative(p, c) = p
          BY <2>5, <2>3, <3>3, <4>3 DEF Authoritative
        <5>2. CASE p.class = "defect"
          BY <5>1, <5>2, <4>1, <2>1, <2>2 DEF Outcome
        <5>3. CASE p.class # "defect"
          <6>1. i = 1 /\ \A j \in 1..k : s[j].class = "ordinary"
            BY <2>1, <2>5, <5>3
          <6>2. \A j \in 1..Len(s) : j \in 1..k \/ j > k
            BY <1>1
          <6>3. \A j \in 1..Len(s) : s[j].class = "ordinary"
            BY <6>1, <6>2, <4>1, <4>3, <1>2, <1>4 DEF Classes
          <6> QED
            BY <5>1, <6>1, <6>3, <2>1, <2>2 DEF Outcome
        <5> QED
          BY <5>2, <5>3
      <4> QED
        BY <4>2, <4>3
    <3> QED
      BY <3>2, <3>3
  <2> QED
    BY <2>4, <2>5
<1> QED
  BY <1>6, <1>7 DEF Outcome

-----------------------------------------------------------------------------
(* Who has which descriptor                                                *)

DirPlaces == {"idle", "make", "open", "root", "walk", "step", "validate", "secure",
              "release_leaf", "release_parent", "release_adopted", "complete", "done"}
Owner == [fd : Nat, state : {"none", "live", "released", "caller"}]

DirTypeInv ==
  /\ kernel \in [Descriptors -> {"free", "this", "other", "caller"}]
  /\ others \subseteq Descriptors /\ lost \subseteq Descriptors
  /\ request \in Requests \cup {"none"} /\ dpc \in DirPlaces /\ depth \in 0..MaxDepth
  /\ retained \in Owner /\ leaf \in Owner
  /\ raised \in Seq(FailureSet) /\ cleanup \in Seq(FailureSet)
  /\ primary \in FailureSet \cup {NoFailure}

\* A number that an owner is live for is open, and is this call's own unless it
\* was given; two owners are live for two numbers.
OwnersOpen ==
  /\ \A n \in others : kernel[n] = "other"
  /\ leaf.state \in {"live", "caller"} =>
       /\ leaf.fd \in Descriptors
       /\ kernel[leaf.fd] = IF request = "fd" THEN "caller" ELSE "this"
  /\ leaf.state = "caller" => request = "fd"
  /\ retained.state = "live" => retained.fd \in Descriptors /\ kernel[retained.fd] = "this"
  /\ retained.state = "live" /\ leaf.state = "live" => retained.fd # leaf.fd

\* What the call has open has a live owner, or a close of it failed.
OpenOwned ==
  \A n \in Descriptors : kernel[n] = "this" =>
    \/ n \in lost
    \/ leaf.state = "live" /\ leaf.fd = n
    \/ retained.state = "live" /\ retained.fd = n

Failing == raised # <<>>

\* Which owners are live at each place, and whether the call is failing.
PlacesOwn ==
  /\ ~ Failing => lost = {}
  /\ dpc \in {"idle", "make", "open", "root", "walk"} => leaf.state = "none" /\ ~ Failing
  /\ dpc \in {"idle", "make", "open", "root", "secure", "release_adopted", "complete", "done"} =>
       retained.state # "live"
  /\ dpc \in {"walk", "step", "release_parent"} => retained.state = "live"
  /\ dpc \in {"walk", "step"} => depth # 0 /\ request = "secure_path"
  /\ dpc = "root" => request = "secure_path"
  /\ dpc \in {"step", "secure"} => leaf.state = "live" /\ ~ Failing
  /\ dpc = "validate" => leaf.state = (IF request = "fd" THEN "caller" ELSE "live") /\ ~ Failing
  /\ dpc \in {"make", "open"} => request \in {"path", "create", "open_or_create"}
  /\ retained.state = "live" => request = "secure_path"
  /\ dpc = "secure" => request \in {"create", "open_or_create"}
  /\ dpc = "release_leaf" => leaf.state = "live" /\ Failing /\ request # "fd"
  /\ dpc = "release_adopted" => leaf.state = "live" /\ Failing
  /\ dpc \in {"release_parent", "release_adopted"} => request = "secure_path"
  /\ dpc \in {"release_parent", "complete", "done"} => (leaf.state = "live" <=> ~ Failing)

\* The primary answers for all that was raised before the release under way.
PrimaryHonest ==
  /\ cleanup # <<>> => dpc \in {"release_adopted", "complete"}
  /\ Len(cleanup) <= Len(raised)
  /\ \A i \in 1..Len(cleanup) : cleanup[i] = raised[Len(raised) - Len(cleanup) + i]
  /\ Outcome(raised, Len(raised) - Len(cleanup), primary)

DirInv == DirTypeInv /\ OwnersOpen /\ OpenOwned /\ PlacesOwn /\ PrimaryHonest

LEMMA FailureIs == ASSUME raised \in Seq(FailureSet), NEW c \in Classes
                   PROVE  Failure(c) \in FailureSet /\ Failure(c) # NoFailure /\ Failure(c).class = c
BY DEF Failure, FailureSet, NoFailure

\* What an attempt to close a live owner raises, and what it does to the number.
LEMMA Closing ==
  ASSUME DirTypeInv, NEW owner, owner.state = "live", owner.fd \in Descriptors,
         NEW result \in Results, CloseOf(owner, result)
  PROVE  /\ \/ result = NoFailure /\ raised' = raised
            \/ result \in FailureSet /\ result # NoFailure /\ raised' = Append(raised, result)
         /\ \/ kernel' = [kernel EXCEPT ![owner.fd] = "free"] /\ lost' = lost
            \/ result # NoFailure /\ kernel' = kernel /\ lost' = lost \cup {owner.fd}
<1>1. raised \in Seq(FailureSet)
  BY DEF DirTypeInv
<1>2. result = NoFailure \/ (result \in FailureSet /\ result # NoFailure)
  BY <1>1, FailureIs DEF Results
<1> QED
  BY <1>2 DEF CloseOf

\* A step that leaves the failures as they are.
LEMMA Unfailing ==
  ASSUME PrimaryHonest, cleanup = <<>>, UNCHANGED <<raised, primary, cleanup>>
  PROVE  PrimaryHonest'
BY DEF PrimaryHonest, Outcome

\* The first failure of a call becomes the primary.
LEMMA FirstFailure ==
  ASSUME DirTypeInv, cleanup = <<>>, ~ Failing, cleanup' = cleanup,
         NEW f \in FailureSet, raised' = Append(raised, f), primary' = f
  PROVE  PrimaryHonest' /\ Failing' /\ raised' \in Seq(FailureSet)
<1>1. raised' = << f >> /\ Len(raised') = 1 /\ raised'[1] = f
  BY DEF Failing
<1>2. f.class \in Classes
  BY DEF FailureSet
<1>3. Outcome(raised', 1, f)
  BY <1>1, <1>2 DEF Outcome, Classes
<1>4. Len(cleanup') = 0
  OBVIOUS
<1> QED
  BY <1>1, <1>3, <1>4 DEF PrimaryHonest, Failing

\* What a call should raise for the failures so far is not changed by later ones.
LEMMA OutcomeKept ==
  ASSUME raised \in Seq(FailureSet), NEW k \in 0..Len(raised), Outcome(raised, k, primary),
         raised' \in Seq(FailureSet), \A i \in 1..k : raised'[i] = raised[i]
  PROVE  Outcome(raised', k, primary)
<1>1. k \in Nat
  OBVIOUS
<1>2. CASE k = 0 /\ primary = NoFailure
  BY <1>2 DEF Outcome
<1>3. CASE ~ (k = 0 /\ primary = NoFailure)
  <2>1. PICK i \in 1..k :
       /\ primary = raised[i]
       /\ \/ primary.class = "interruption" /\ \A j \in 1..i - 1 : raised[j].class # "interruption"
          \/ primary.class = "defect" /\ \A j \in 1..k : raised[j].class # "interruption"
          \/ i = 1 /\ \A j \in 1..k : raised[j].class = "ordinary"
    BY <1>3 DEF Outcome
  <2>2. \A j \in 1..i - 1 : j \in 1..k
    BY <1>1
  <2> QED
    BY <2>1, <2>2 DEF Outcome
<1> QED
  BY <1>2, <1>3

\* Attempts of a release: their failures follow those before it.
LEMMA ReleaseFailures ==
  ASSUME DirTypeInv, PrimaryHonest, NEW result,
         \/ result = NoFailure /\ raised' = raised
         \/ result \in FailureSet /\ result # NoFailure /\ raised' = Append(raised, result)
  PROVE  LET k == Len(raised) - Len(cleanup)
             c == cleanup \o Failed(result)
         IN /\ raised' \in Seq(FailureSet) /\ c \in Seq(FailureSet) /\ k \in 0..Len(raised')
            /\ Len(c) = Len(raised') - k /\ \A i \in 1..Len(c) : c[i] = raised'[k + i]
            /\ Outcome(raised', k, primary)
            /\ Failing => Failing'
<1> DEFINE k == Len(raised) - Len(cleanup)
           c == cleanup \o Failed(result)
<1>1. raised \in Seq(FailureSet) /\ cleanup \in Seq(FailureSet)
  BY DEF DirTypeInv
<1>2. Len(raised) \in Nat /\ Len(cleanup) \in Nat /\ k \in 0..Len(raised)
  BY <1>1 DEF PrimaryHonest
<1>3. CASE result = NoFailure /\ raised' = raised
  <2>1. Failed(result) = <<>> /\ c = cleanup
    BY <1>3, <1>1 DEF Failed
  <2> QED
    BY <1>3, <2>1, <1>1, <1>2 DEF PrimaryHonest, Failing
<1>4. CASE result \in FailureSet /\ result # NoFailure /\ raised' = Append(raised, result)
  <2>1. Failed(result) = << result >> /\ c = Append(cleanup, result)
    BY <1>4, <1>1 DEF Failed
  <2>2. /\ raised' \in Seq(FailureSet) /\ Len(raised') = Len(raised) + 1
        /\ raised'[Len(raised) + 1] = result /\ \A i \in 1..Len(raised) : raised'[i] = raised[i]
    BY <1>1, <1>4
  <2>3. /\ c \in Seq(FailureSet) /\ Len(c) = Len(cleanup) + 1
        /\ c[Len(cleanup) + 1] = result /\ \A i \in 1..Len(cleanup) : c[i] = cleanup[i]
    BY <1>1, <1>4, <2>1
  <2>4. \A i \in 1..Len(cleanup) : k + i \in 1..Len(raised)
    BY <1>2
  <2>5. k + Len(cleanup) + 1 = Len(raised) + 1
    BY <1>2
  <2>6. \A i \in 1..Len(c) : i \in 1..Len(cleanup) \/ i = Len(cleanup) + 1
    BY <2>3, <1>2
  <2>7. ASSUME NEW i \in 1..Len(c) PROVE c[i] = raised'[k + i]
    <3>1. CASE i \in 1..Len(cleanup)
      <4>1. cleanup[i] = raised[k + i]
        BY <3>1 DEF PrimaryHonest
      <4> QED
        BY <3>1, <4>1, <2>2, <2>3, <2>4
    <3>2. CASE i = Len(cleanup) + 1
      <4>1. k + i = Len(raised) + 1
        BY <3>2, <2>5, <1>2
      <4> QED
        BY <3>2, <4>1, <2>2, <2>3
    <3> QED
      BY <3>1, <3>2, <2>6
  <2>8. \A i \in 1..k : raised'[i] = raised[i]
    BY <1>2, <2>2
  <2>9. Outcome(raised, k, primary)
    BY DEF PrimaryHonest
  <2>10. Outcome(raised', k, primary)
    BY <2>8, <2>9, <2>2, <1>1, <1>2, OutcomeKept
  <2>11. Failing' /\ k \in 0..Len(raised') /\ Len(c) = Len(raised') - k
    BY <2>2, <2>3, <1>2 DEF Failing
  <2> QED
    BY <2>2, <2>3, <2>7, <2>10, <2>11
<1> QED
  BY <1>3, <1>4

-----------------------------------------------------------------------------
(* The steps *)

\* The names of the parts that say who has which descriptor.
Owning == OwnersOpen /\ OpenOwned /\ PlacesOwn

LEMMA InitDir == DirInit => DirInv
<1> SUFFICES ASSUME DirInit PROVE DirInv
  OBVIOUS
<1> USE DEF DirInit
<1>1. DirTypeInv
  BY SecureAssumption DEF DirTypeInv, DirPlaces, Owner, NoDescriptor
<1>2. OwnersOpen /\ OpenOwned /\ PlacesOwn
  BY DEF OwnersOpen, OpenOwned, PlacesOwn, Failing, NoDescriptor
<1>3. PrimaryHonest
  BY DEF PrimaryHonest, Outcome
<1> QED
  BY <1>1, <1>2, <1>3 DEF DirInv

LEMMA AskStep == DirInv /\ Ask => DirInv'
<1> SUFFICES ASSUME DirInv, Ask PROVE DirInv'
  OBVIOUS
<1> USE DEF DirInv
<1>1. PrimaryHonest'
  BY Unfailing DEF Ask, PrimaryHonest
<1>2. dpc = "idle" /\ request' \in Requests /\ depth' \in 0..MaxDepth
      /\ UNCHANGED <<others, retained, primary, cleanup, raised, lost>>
  BY SecureAssumption DEF Ask
<1>3. CASE request' = "fd"
  <2>1. /\ Min(Free) \in Descriptors /\ kernel[Min(Free)] = "free" /\ Min(Free) \in Nat
        /\ kernel' = [kernel EXCEPT ![Min(Free)] = "caller"]
        /\ leaf' = [fd |-> Min(Free), state |-> "caller"] /\ dpc' = "validate"
    BY <1>3, MinFree, SecureAssumption DEF Ask, DirGoes, Free
  <2>2. DirTypeInv'
    BY <1>2, <2>1 DEF DirTypeInv, DirPlaces, Owner
  <2>3. OwnersOpen' /\ OpenOwned' /\ PlacesOwn'
    BY <1>2, <1>3, <2>1 DEF OwnersOpen, OpenOwned, PlacesOwn, DirTypeInv, Failing
  <2> QED
    BY <1>1, <2>2, <2>3
<1>4. CASE request' # "fd"
  <2>1. /\ dpc' \in {"root", "make", "open"} /\ kernel' = kernel /\ leaf' = leaf
        /\ dpc' = "root" => request' = "secure_path"
        /\ dpc' \in {"make", "open"} => request' \in {"path", "create", "open_or_create"}
    BY <1>2, <1>4 DEF Ask, DirGoes, Requests
  <2>2. DirTypeInv'
    BY <1>2, <2>1 DEF DirTypeInv, DirPlaces
  <2>3. OwnersOpen' /\ OpenOwned' /\ PlacesOwn'
    BY <1>2, <1>4, <2>1 DEF OwnersOpen, OpenOwned, PlacesOwn, Failing
  <2> QED
    BY <1>1, <2>2, <2>3
<1> QED
  BY <1>3, <1>4

\* A system call that fails as the first failure of its call.
LEMMA RaisesFirst ==
  ASSUME DirInv, NEW c \in Classes, Raises(c), dpc \notin {"release_adopted", "complete"},
         ~ Failing, UNCHANGED cleanup
  PROVE  /\ PrimaryHonest' /\ Failing' /\ raised' \in Seq(FailureSet)
         /\ primary' \in FailureSet
<1>1. cleanup = <<>> /\ Failure(c) \in FailureSet
  BY FailureIs DEF DirInv, DirTypeInv, PrimaryHonest
<1> QED
  BY <1>1, FirstFailure DEF Raises, DirInv

LEMMA MakeDirectoryStep == DirInv /\ MakeDirectory => DirInv'
<1> SUFFICES ASSUME DirInv, MakeDirectory PROVE DirInv'
  OBVIOUS
<1>1. /\ dpc = "make" /\ ~ Failing
      /\ UNCHANGED <<kernel, others, request, depth, retained, leaf, cleanup, lost>>
  BY DEF MakeDirectory, DirInv, PlacesOwn, owners
<1>2. CASE dpc' = "open" /\ UNCHANGED <<primary, raised>>
  <2>1. PrimaryHonest'
    BY <1>1, <1>2, Unfailing DEF DirInv, PrimaryHonest
  <2>2. DirTypeInv' /\ OwnersOpen' /\ OpenOwned' /\ PlacesOwn'
    BY <1>1, <1>2 DEF DirInv, DirTypeInv, OwnersOpen, OpenOwned, PlacesOwn, DirPlaces, Failing
  <2> QED
    BY <2>1, <2>2 DEF DirInv
<1>3. ASSUME NEW c \in Classes, Raises(c), dpc' = "done" PROVE DirInv'
  <2>1. PrimaryHonest' /\ Failing' /\ raised' \in Seq(FailureSet) /\ primary' \in FailureSet
    BY <1>1, <1>3, RaisesFirst
  <2>2. DirTypeInv' /\ OwnersOpen' /\ OpenOwned' /\ PlacesOwn'
    BY <1>1, <1>3, <2>1 DEF DirInv, DirTypeInv, OwnersOpen, OpenOwned, PlacesOwn, DirPlaces
  <2> QED
    BY <2>1, <2>2 DEF DirInv
<1> QED
  BY <1>2, <1>3 DEF MakeDirectory, DirGoes

\* The leaf of a call is opened, or the parent of the rest of the walk.
Opened == /\ Free # {} /\ kernel' = [kernel EXCEPT ![Min(Free)] = "this"]
          /\ UNCHANGED <<others, cleanup, lost, primary, raised>>

LEMMA OpenedIs ==
  ASSUME DirInv, Opened
  PROVE  /\ Min(Free) \in Descriptors /\ Min(Free) \in Nat /\ kernel[Min(Free)] = "free"
         /\ Live(Min(Free)) \in Owner /\ Live(Min(Free)).fd = Min(Free)
         /\ Live(Min(Free)).state = "live"
         /\ kernel' \in [Descriptors -> {"free", "this", "other", "caller"}]
         /\ kernel'[Min(Free)] = "this"
         /\ \A n \in Descriptors : n # Min(Free) => kernel'[n] = kernel[n]
         /\ Min(Free) \notin others
<1>1. Min(Free) \in Descriptors /\ Min(Free) \in Nat /\ kernel[Min(Free)] = "free"
  BY MinFree, SecureAssumption DEF Opened, Free
<1>2. kernel' = [kernel EXCEPT ![Min(Free)] = "this"]
      /\ kernel \in [Descriptors -> {"free", "this", "other", "caller"}]
      /\ \A n \in others : kernel[n] = "other"
  BY DEF Opened, DirInv, DirTypeInv, OwnersOpen
<1> QED
  BY <1>1, <1>2 DEF Live, Owner

LEMMA OpenLeafStep == DirInv /\ OpenLeaf => DirInv'
<1> SUFFICES ASSUME DirInv, OpenLeaf PROVE DirInv'
  OBVIOUS
<1>1. dpc = "open" /\ ~ Failing /\ UNCHANGED <<others, depth, retained, cleanup, lost>>
  BY DEF OpenLeaf, DirInv, PlacesOwn
<1>2. CASE /\ Opened /\ leaf' = Live(Min(Free)) /\ dpc' = "validate" /\ UNCHANGED request
  <2>1. PrimaryHonest'
    BY <1>1, <1>2, Unfailing DEF DirInv, PrimaryHonest, Opened
  <2>2. DirTypeInv' /\ OwnersOpen' /\ OpenOwned' /\ PlacesOwn'
    BY <1>1, <1>2, OpenedIs DEF Opened, DirInv, DirTypeInv, OwnersOpen, OpenOwned, PlacesOwn,
       DirPlaces, Failing
  <2> QED
    BY <2>1, <2>2 DEF DirInv
<1>3. CASE /\ request' = "create" /\ dpc' = "make" /\ UNCHANGED <<kernel, leaf, primary, raised>>
  <2>1. PrimaryHonest'
    BY <1>1, <1>3, Unfailing DEF DirInv, PrimaryHonest
  <2>2. DirTypeInv' /\ OwnersOpen' /\ OpenOwned' /\ PlacesOwn'
    BY <1>1, <1>3 DEF DirInv, DirTypeInv, OwnersOpen, OpenOwned, PlacesOwn, DirPlaces, Failing,
       Requests
  <2> QED
    BY <2>1, <2>2 DEF DirInv
<1>4. ASSUME NEW c \in Classes, Raises(c), dpc' = "done", UNCHANGED <<kernel, leaf, request>>
      PROVE  DirInv'
  <2>1. PrimaryHonest' /\ Failing' /\ raised' \in Seq(FailureSet) /\ primary' \in FailureSet
    BY <1>1, <1>4, RaisesFirst
  <2>2. DirTypeInv' /\ OwnersOpen' /\ OpenOwned' /\ PlacesOwn'
    BY <1>1, <1>4, <2>1 DEF DirInv, DirTypeInv, OwnersOpen, OpenOwned, PlacesOwn, DirPlaces
  <2> QED
    BY <2>1, <2>2 DEF DirInv
<1> QED
  BY <1>1, <1>2, <1>3, <1>4 DEF OpenLeaf, DirGoes, Opened

LEMMA OpenRootStep == DirInv /\ OpenRoot => DirInv'
<1> SUFFICES ASSUME DirInv, OpenRoot PROVE DirInv'
  OBVIOUS
<1>1. dpc = "root" /\ ~ Failing /\ UNCHANGED <<others, request, depth, cleanup, lost>>
  BY DEF OpenRoot, DirInv, PlacesOwn
<1>2. CASE /\ Opened
           /\ \/ depth = 0 /\ leaf' = Live(Min(Free)) /\ dpc' = "validate" /\ UNCHANGED retained
              \/ depth # 0 /\ retained' = Live(Min(Free)) /\ dpc' = "walk" /\ UNCHANGED leaf
  <2>1. PrimaryHonest'
    BY <1>1, <1>2, Unfailing DEF DirInv, PrimaryHonest, Opened
  <2>2. DirTypeInv' /\ OwnersOpen' /\ OpenOwned' /\ PlacesOwn'
    BY <1>1, <1>2, OpenedIs DEF Opened, DirInv, DirTypeInv, OwnersOpen, OpenOwned, PlacesOwn,
       DirPlaces, Failing
  <2> QED
    BY <2>1, <2>2 DEF DirInv
<1>3. ASSUME NEW c \in Classes, Raises(c), dpc' = "done", UNCHANGED <<kernel, leaf, retained>>
      PROVE  DirInv'
  <2>1. PrimaryHonest' /\ Failing' /\ raised' \in Seq(FailureSet) /\ primary' \in FailureSet
    BY <1>1, <1>3, RaisesFirst
  <2>2. DirTypeInv' /\ OwnersOpen' /\ OpenOwned' /\ PlacesOwn'
    BY <1>1, <1>3, <2>1 DEF DirInv, DirTypeInv, OwnersOpen, OpenOwned, PlacesOwn, DirPlaces
  <2> QED
    BY <2>1, <2>2 DEF DirInv
<1> QED
  BY <1>1, <1>2, <1>3 DEF OpenRoot, DirGoes, Opened, owners

LEMMA OpenComponentStep == DirInv /\ OpenComponent => DirInv'
<1> SUFFICES ASSUME DirInv, OpenComponent PROVE DirInv'
  OBVIOUS
<1>1. dpc = "walk" /\ ~ Failing /\ UNCHANGED <<others, request, retained, cleanup, lost>>
  BY DEF OpenComponent, DirInv, PlacesOwn
<1>2. CASE /\ Opened /\ leaf' = Live(Min(Free)) /\ depth' = depth - 1
           /\ dpc' = IF depth = 1 THEN "validate" ELSE "step"
  <2>1. PrimaryHonest'
    BY <1>1, <1>2, Unfailing DEF DirInv, PrimaryHonest, Opened
  <2>2. depth \in 1..MaxDepth /\ depth' \in 0..MaxDepth /\ (depth # 1 => depth' # 0)
    BY <1>1, <1>2, SecureAssumption DEF DirInv, DirTypeInv, PlacesOwn
  <2>3. DirTypeInv' /\ OwnersOpen' /\ OpenOwned' /\ PlacesOwn'
    BY <1>1, <1>2, <2>2, OpenedIs DEF Opened, DirInv, DirTypeInv, OwnersOpen, OpenOwned, PlacesOwn,
       DirPlaces, Failing
  <2> QED
    BY <2>1, <2>3 DEF DirInv
<1>3. ASSUME NEW c \in Classes, Raises(c), dpc' = "release_parent", UNCHANGED <<kernel, leaf, depth>>
      PROVE  DirInv'
  <2>1. PrimaryHonest' /\ Failing' /\ raised' \in Seq(FailureSet) /\ primary' \in FailureSet
    BY <1>1, <1>3, RaisesFirst
  <2>2. DirTypeInv' /\ OwnersOpen' /\ OpenOwned' /\ PlacesOwn'
    BY <1>1, <1>3, <2>1 DEF DirInv, DirTypeInv, OwnersOpen, OpenOwned, PlacesOwn, DirPlaces
  <2> QED
    BY <2>1, <2>2 DEF DirInv
<1> QED
  BY <1>1, <1>2, <1>3 DEF OpenComponent, DirGoes, Opened

LEMMA StepDownStep == DirInv /\ StepDown => DirInv'
<1> SUFFICES ASSUME DirInv, StepDown PROVE DirInv'
  OBVIOUS
<1>1. /\ dpc = "step" /\ ~ Failing /\ retained.state = "live" /\ leaf.state = "live"
      /\ leaf.fd \in Descriptors /\ retained.fd \in Descriptors /\ retained.fd # leaf.fd
      /\ cleanup = <<>> /\ DirTypeInv
  BY DEF StepDown, DirInv, PlacesOwn, OwnersOpen, PrimaryHonest
<1>2. PICK result \in Results :
        /\ CloseOf(retained, result)
        /\ retained' = leaf /\ leaf' = NoDescriptor
        /\ IF result = NoFailure THEN dpc' = "walk" /\ UNCHANGED primary
           ELSE dpc' = "release_parent" /\ primary' = result
  BY DEF StepDown, DirGoes
<1>3. UNCHANGED <<others, request, depth, cleanup>>
  BY DEF StepDown
<1>4. /\ \/ result = NoFailure /\ raised' = raised
         \/ result \in FailureSet /\ result # NoFailure /\ raised' = Append(raised, result)
      /\ \/ kernel' = [kernel EXCEPT ![retained.fd] = "free"] /\ lost' = lost
         \/ result # NoFailure /\ kernel' = kernel /\ lost' = lost \cup {retained.fd}
  BY <1>1, <1>2, Closing
<1>5. NoDescriptor \in Owner /\ NoDescriptor.state = "none"
  BY DEF NoDescriptor, Owner
<1>6. kernel[retained.fd] = "this" /\ kernel[leaf.fd] = "this"
  BY <1>1 DEF DirInv, OwnersOpen, PlacesOwn
<1>7. CASE result = NoFailure
  <2>1. PrimaryHonest'
    BY <1>1, <1>2, <1>3, <1>4, <1>7, Unfailing DEF DirInv
  <2>2. DirTypeInv'
    BY <1>1, <1>2, <1>3, <1>4, <1>5, <1>7 DEF DirTypeInv, DirPlaces
  <2>3. OwnersOpen' /\ OpenOwned'
    BY <1>1, <1>2, <1>3, <1>4, <1>5, <1>6, <1>7 DEF DirInv, DirTypeInv, OwnersOpen, OpenOwned, PlacesOwn
  <2>4. PlacesOwn'
    BY <1>1, <1>2, <1>3, <1>4, <1>5, <1>7 DEF DirInv, PlacesOwn, Failing
  <2> QED
    BY <2>1, <2>2, <2>3, <2>4 DEF DirInv
<1>8. CASE result # NoFailure
  <2>1. PrimaryHonest' /\ Failing' /\ raised' \in Seq(FailureSet)
    BY <1>1, <1>2, <1>3, <1>4, <1>8, FirstFailure
  <2>2. DirTypeInv'
    BY <1>1, <1>2, <1>3, <1>4, <1>5, <1>8, <2>1 DEF DirTypeInv, DirPlaces
  <2>3. OwnersOpen' /\ OpenOwned'
    BY <1>1, <1>2, <1>3, <1>4, <1>5, <1>6, <1>8 DEF DirInv, DirTypeInv, OwnersOpen, OpenOwned, PlacesOwn
  <2>4. PlacesOwn'
    BY <1>1, <1>2, <1>3, <1>5, <1>8, <2>1 DEF DirInv, PlacesOwn
  <2> QED
    BY <2>1, <2>2, <2>3, <2>4 DEF DirInv
<1> QED
  BY <1>7, <1>8

LEMMA ValidateStep == DirInv /\ Validate => DirInv'
<1> SUFFICES ASSUME DirInv, Validate PROVE DirInv'
  OBVIOUS
<1>1. /\ dpc = "validate" /\ ~ Failing
      /\ UNCHANGED <<kernel, others, request, depth, retained, cleanup, lost>>
  BY DEF Validate, DirInv, PlacesOwn
<1>2. CASE /\ leaf' = [leaf EXCEPT !.state = "live"] /\ dpc' = AfterValidation
           /\ UNCHANGED <<primary, raised>>
  <2>1. PrimaryHonest'
    BY <1>1, <1>2, Unfailing DEF DirInv, PrimaryHonest
  <2>2. leaf' \in Owner /\ leaf'.fd = leaf.fd /\ leaf'.state = "live"
    BY <1>2 DEF DirInv, DirTypeInv, Owner
  <2>3. DirTypeInv'
    BY <1>1, <1>2, <2>2 DEF DirInv, DirTypeInv, AfterValidation, DirPlaces
  <2>4. OwnersOpen' /\ OpenOwned'
    BY <1>1, <2>2 DEF DirInv, OwnersOpen, OpenOwned, PlacesOwn
  <2>5. PlacesOwn'
    BY <1>1, <1>2, <2>2 DEF DirInv, DirTypeInv, PlacesOwn, AfterValidation, Failing, Requests
  <2> QED
    BY <2>1, <2>3, <2>4, <2>5 DEF DirInv
<1>3. ASSUME NEW c \in Classes, Raises(c), UNCHANGED leaf,
             dpc' = IF request = "fd" THEN "done" ELSE "release_leaf"
      PROVE  DirInv'
  <2>1. PrimaryHonest' /\ Failing' /\ raised' \in Seq(FailureSet) /\ primary' \in FailureSet
    BY <1>1, <1>3, RaisesFirst
  <2>2. DirTypeInv' /\ OwnersOpen' /\ OpenOwned' /\ PlacesOwn'
    BY <1>1, <1>3, <2>1 DEF DirInv, DirTypeInv, OwnersOpen, OpenOwned, PlacesOwn, DirPlaces
  <2> QED
    BY <2>1, <2>2 DEF DirInv
<1> QED
  BY <1>2, <1>3 DEF Validate, DirGoes

LEMMA SecureStep == DirInv /\ Secure => DirInv'
<1> SUFFICES ASSUME DirInv, Secure PROVE DirInv'
  OBVIOUS
<1>1. /\ dpc = "secure" /\ ~ Failing
      /\ UNCHANGED <<kernel, others, request, depth, retained, leaf, cleanup, lost>>
  BY DEF Secure, DirInv, PlacesOwn, owners
<1>2. CASE dpc' = "done" /\ UNCHANGED <<primary, raised>>
  <2>1. PrimaryHonest'
    BY <1>1, <1>2, Unfailing DEF DirInv, PrimaryHonest
  <2>2. DirTypeInv' /\ OwnersOpen' /\ OpenOwned' /\ PlacesOwn'
    BY <1>1, <1>2 DEF DirInv, DirTypeInv, OwnersOpen, OpenOwned, PlacesOwn, DirPlaces, Failing
  <2> QED
    BY <2>1, <2>2 DEF DirInv
<1>3. ASSUME NEW c \in Classes, Raises(c), dpc' = "release_leaf" PROVE DirInv'
  <2>1. PrimaryHonest' /\ Failing' /\ raised' \in Seq(FailureSet) /\ primary' \in FailureSet
    BY <1>1, <1>3, RaisesFirst
  <2>2. DirTypeInv' /\ OwnersOpen' /\ OpenOwned' /\ PlacesOwn'
    BY <1>1, <1>3, <2>1 DEF DirInv, DirTypeInv, OwnersOpen, OpenOwned, PlacesOwn, DirPlaces
  <2> QED
    BY <2>1, <2>2 DEF DirInv
<1> QED
  BY <1>2, <1>3 DEF Secure, DirGoes

LEMMA ReleasedIs ==
  ASSUME NEW owner \in Owner, owner.state = "live"
  PROVE  Released(owner) \in Owner /\ Released(owner).state = "released"
BY DEF Released, Owner

\* What an honest outcome is made of.
LEMMA OutcomeType ==
  ASSUME NEW s \in Seq(FailureSet), NEW p, Outcome(s, Len(s), p)
  PROVE  p \in FailureSet \cup {NoFailure}
BY DEF Outcome

LEMMA ReleaseLeafStep == DirInv /\ ReleaseLeaf => DirInv'
<1> SUFFICES ASSUME DirInv, ReleaseLeaf PROVE DirInv'
  OBVIOUS
<1>1. /\ dpc = "release_leaf" /\ Failing /\ leaf.state = "live" /\ leaf.fd \in Descriptors
      /\ cleanup = <<>> /\ DirTypeInv /\ PrimaryHonest /\ request # "fd"
      /\ leaf \in Owner
  BY DEF ReleaseLeaf, DirInv, PlacesOwn, OwnersOpen, PrimaryHonest, DirTypeInv
<1>2. PICK result \in Results :
        CloseOf(leaf, result) /\ primary' = Authoritative(primary, Failed(result))
  BY DEF ReleaseLeaf
<1>3. /\ leaf' = Released(leaf)
      /\ dpc' = IF retained.state = "live" THEN "release_parent" ELSE "done"
      /\ UNCHANGED <<others, request, depth, retained, cleanup>>
  BY DEF ReleaseLeaf, DirGoes
<1>4. /\ \/ result = NoFailure /\ raised' = raised
         \/ result \in FailureSet /\ result # NoFailure /\ raised' = Append(raised, result)
      /\ \/ kernel' = [kernel EXCEPT ![leaf.fd] = "free"] /\ lost' = lost
         \/ result # NoFailure /\ kernel' = kernel /\ lost' = lost \cup {leaf.fd}
  BY <1>1, <1>2, Closing
<1>5. leaf' \in Owner /\ leaf'.state = "released"
  BY <1>1, <1>3, ReleasedIs
<1> DEFINE c == cleanup \o Failed(result)
           k == Len(raised) - Len(cleanup)
<1>6. /\ raised' \in Seq(FailureSet) /\ c \in Seq(FailureSet) /\ k \in 0..Len(raised')
      /\ Len(c) = Len(raised') - k /\ \A i \in 1..Len(c) : c[i] = raised'[k + i]
      /\ Outcome(raised', k, primary) /\ Failing'
  BY <1>1, <1>4, ReleaseFailures
<1>7. c = Failed(result)
  BY <1>1, <1>4 DEF Failed
<1>8. Outcome(raised', Len(raised'), primary')
  <2> HIDE DEF c, k
  <2>1. Outcome(raised', Len(raised'), Authoritative(primary, c))
    BY <1>6, Precedence
  <2> QED
    BY <2>1, <1>2, <1>7
<1>9. PrimaryHonest'
  BY <1>1, <1>3, <1>6, <1>8 DEF PrimaryHonest
<1>10. DirTypeInv'
  BY <1>1, <1>3, <1>4, <1>5, <1>6, <1>8, OutcomeType DEF DirTypeInv, DirPlaces
<1>11. OwnersOpen' /\ OpenOwned'
  BY <1>1, <1>3, <1>4, <1>5 DEF DirInv, DirTypeInv, OwnersOpen, OpenOwned
<1>12. PlacesOwn'
  BY <1>1, <1>3, <1>5, <1>6 DEF DirInv, DirTypeInv, PlacesOwn
<1> QED
  BY <1>9, <1>10, <1>11, <1>12 DEF DirInv

LEMMA ReleaseParentStep == DirInv /\ ReleaseParent => DirInv'
<1> SUFFICES ASSUME DirInv, ReleaseParent PROVE DirInv'
  OBVIOUS
<1>1. /\ dpc = "release_parent" /\ retained.state = "live" /\ retained.fd \in Descriptors
      /\ (leaf.state = "live" <=> ~ Failing) /\ kernel[retained.fd] = "this"
      /\ cleanup = <<>> /\ DirTypeInv /\ PrimaryHonest /\ retained \in Owner
      /\ request = "secure_path"
  BY DEF ReleaseParent, DirInv, PlacesOwn, OwnersOpen, PrimaryHonest, DirTypeInv
<1>2. PICK result \in Results :
        /\ CloseOf(retained, result) /\ cleanup' = Failed(result)
        /\ dpc' = IF leaf.state = "live" /\ (primary # NoFailure \/ result # NoFailure)
                  THEN "release_adopted" ELSE "complete"
  BY DEF ReleaseParent, DirGoes
<1>3. retained' = Released(retained) /\ UNCHANGED <<others, request, depth, leaf, primary>>
  BY DEF ReleaseParent
<1>4. /\ \/ result = NoFailure /\ raised' = raised
         \/ result \in FailureSet /\ result # NoFailure /\ raised' = Append(raised, result)
      /\ \/ kernel' = [kernel EXCEPT ![retained.fd] = "free"] /\ lost' = lost
         \/ result # NoFailure /\ kernel' = kernel /\ lost' = lost \cup {retained.fd}
  BY <1>1, <1>2, Closing
<1>5. retained' \in Owner /\ retained'.state = "released"
  BY <1>1, <1>3, ReleasedIs
<1> DEFINE c == cleanup \o Failed(result)
           k == Len(raised) - Len(cleanup)
<1>6. /\ raised' \in Seq(FailureSet) /\ c \in Seq(FailureSet) /\ k \in 0..Len(raised')
      /\ Len(c) = Len(raised') - k /\ \A i \in 1..Len(c) : c[i] = raised'[k + i]
      /\ Outcome(raised', k, primary) /\ (Failing => Failing')
  BY <1>1, <1>4, ReleaseFailures
<1>7. c = cleanup'
  BY <1>1, <1>2, <1>4 DEF Failed
<1>8. primary = NoFailure <=> ~ Failing
  <2>1. Outcome(raised, Len(raised), primary)
    BY <1>1 DEF PrimaryHonest
  <2>2. \A i \in 1..Len(raised) : raised[i] # NoFailure
    <3>1. \A i \in 1..Len(raised) : raised[i] \in FailureSet
      BY <1>1 DEF DirTypeInv
    <3> QED
      BY <3>1 DEF FailureSet, NoFailure, Classes
  <2> QED
    BY <2>1, <2>2, <1>1 DEF Outcome, Failing, DirTypeInv
<1>9. (Failing' <=> Failing \/ result # NoFailure) /\ (~ Failing' => raised' = raised /\ lost' = lost)
  <2>1. raised \in Seq(FailureSet)
    BY <1>1 DEF DirTypeInv
  <2> QED
    BY <1>4, <2>1 DEF Failing
<1>10. PrimaryHonest'
  <2>1. cleanup' # <<>> => dpc' \in {"release_adopted", "complete"}
    BY <1>2
  <2>2. /\ Len(cleanup') <= Len(raised') /\ k = Len(raised') - Len(cleanup')
        /\ \A i \in 1..Len(cleanup') : cleanup'[i] = raised'[Len(raised') - Len(cleanup') + i]
        /\ Outcome(raised', Len(raised') - Len(cleanup'), primary')
    <3> HIDE DEF c, k
    <3>1. Len(raised') \in Nat /\ Len(c) \in Nat
      BY <1>6
    <3>2. k = Len(raised') - Len(c)
      BY <3>1, <1>6
    <3> QED
      BY <1>3, <1>6, <1>7, <3>1, <3>2
  <2> QED
    BY <2>1, <2>2 DEF PrimaryHonest
<1>11. DirTypeInv'
  BY <1>1, <1>2, <1>3, <1>4, <1>5, <1>6, <1>7 DEF DirTypeInv, DirPlaces
<1>12. OwnersOpen' /\ OpenOwned'
  BY <1>1, <1>3, <1>4, <1>5 DEF DirInv, DirTypeInv, OwnersOpen, OpenOwned
<1>13. PlacesOwn'
  BY <1>1, <1>2, <1>3, <1>5, <1>8, <1>9 DEF DirInv, DirTypeInv, PlacesOwn
<1> QED
  BY <1>10, <1>11, <1>12, <1>13 DEF DirInv

LEMMA ReleaseAdoptedStep == DirInv /\ ReleaseAdopted => DirInv'
<1> SUFFICES ASSUME DirInv, ReleaseAdopted PROVE DirInv'
  OBVIOUS
<1>1. /\ dpc = "release_adopted" /\ Failing /\ leaf.state = "live" /\ leaf.fd \in Descriptors
      /\ DirTypeInv /\ PrimaryHonest /\ retained.state # "live" /\ leaf \in Owner
      /\ request = "secure_path"
  BY DEF ReleaseAdopted, DirInv, PlacesOwn, OwnersOpen, DirTypeInv
<1>2. PICK result \in Results : CloseOf(leaf, result) /\ cleanup' = cleanup \o Failed(result)
  BY DEF ReleaseAdopted
<1>3. /\ leaf' = Released(leaf) /\ dpc' = "complete"
      /\ UNCHANGED <<others, request, depth, retained, primary>>
  BY DEF ReleaseAdopted, DirGoes
<1>4. /\ \/ result = NoFailure /\ raised' = raised
         \/ result \in FailureSet /\ result # NoFailure /\ raised' = Append(raised, result)
      /\ \/ kernel' = [kernel EXCEPT ![leaf.fd] = "free"] /\ lost' = lost
         \/ result # NoFailure /\ kernel' = kernel /\ lost' = lost \cup {leaf.fd}
  BY <1>1, <1>2, Closing
<1>5. leaf' \in Owner /\ leaf'.state = "released"
  BY <1>1, <1>3, ReleasedIs
<1> DEFINE c == cleanup \o Failed(result)
           k == Len(raised) - Len(cleanup)
<1>6. /\ raised' \in Seq(FailureSet) /\ c \in Seq(FailureSet) /\ k \in 0..Len(raised')
      /\ Len(c) = Len(raised') - k /\ \A i \in 1..Len(c) : c[i] = raised'[k + i]
      /\ Outcome(raised', k, primary) /\ Failing'
  BY <1>1, <1>4, ReleaseFailures
<1>7. c = cleanup'
  BY <1>2
<1>8. PrimaryHonest'
  <2>1. /\ Len(cleanup') <= Len(raised') /\ k = Len(raised') - Len(cleanup')
        /\ \A i \in 1..Len(cleanup') : cleanup'[i] = raised'[Len(raised') - Len(cleanup') + i]
        /\ Outcome(raised', Len(raised') - Len(cleanup'), primary')
    <3> HIDE DEF c, k
    <3>1. Len(raised') \in Nat /\ Len(c) \in Nat
      BY <1>6
    <3>2. k = Len(raised') - Len(c)
      BY <3>1, <1>6
    <3> QED
      BY <1>3, <1>6, <1>7, <3>1, <3>2
  <2> QED
    BY <2>1, <1>3 DEF PrimaryHonest
<1>9. DirTypeInv'
  BY <1>1, <1>3, <1>4, <1>5, <1>6, <1>7 DEF DirTypeInv, DirPlaces
<1>10. OwnersOpen' /\ OpenOwned'
  BY <1>1, <1>3, <1>4, <1>5 DEF DirInv, DirTypeInv, OwnersOpen, OpenOwned
<1>11. PlacesOwn'
  BY <1>1, <1>3, <1>5, <1>6 DEF DirInv, PlacesOwn
<1> QED
  BY <1>8, <1>9, <1>10, <1>11 DEF DirInv

LEMMA CompleteStep == DirInv /\ Complete => DirInv'
<1> SUFFICES ASSUME DirInv, Complete PROVE DirInv'
  OBVIOUS
<1>1. /\ dpc = "complete" /\ dpc' = "done" /\ cleanup' = <<>>
      /\ primary' = Authoritative(primary, cleanup)
      /\ UNCHANGED <<kernel, others, request, depth, retained, leaf, raised, lost>>
  BY DEF Complete, DirGoes, owners
<1>2. raised \in Seq(FailureSet) /\ cleanup \in Seq(FailureSet)
  BY DEF DirInv, DirTypeInv
<1> DEFINE k == Len(raised) - Len(cleanup)
<1>3. /\ k \in 0..Len(raised) /\ Len(cleanup) = Len(raised) - k
      /\ \A i \in 1..Len(cleanup) : cleanup[i] = raised[k + i]
      /\ Outcome(raised, k, primary)
  BY <1>2 DEF DirInv, PrimaryHonest
<1>4. Outcome(raised, Len(raised), primary')
  <2> HIDE DEF k
  <2> QED
    BY <1>1, <1>2, <1>3, Precedence
<1>5. PrimaryHonest'
  BY <1>1, <1>2, <1>4 DEF PrimaryHonest, Outcome
<1>6. DirTypeInv'
  BY <1>1, <1>2, <1>4, OutcomeType DEF DirInv, DirTypeInv, DirPlaces
<1>7. OwnersOpen' /\ OpenOwned' /\ PlacesOwn'
  BY <1>1 DEF DirInv, OwnersOpen, OpenOwned, PlacesOwn, Failing
<1> QED
  BY <1>5, <1>6, <1>7 DEF DirInv

LEMMA ForgetStep == DirInv /\ Forget => DirInv'
<1> SUFFICES ASSUME DirInv, Forget PROVE DirInv'
  OBVIOUS
<1>1. cleanup = <<>> /\ cleanup' = cleanup
  BY DEF Forget, DirInv, PrimaryHonest
<1>2. PrimaryHonest'
  BY <1>1 DEF Forget, PrimaryHonest, Outcome
<1>3. NoDescriptor \in Owner /\ NoDescriptor.state = "none"
  BY DEF NoDescriptor, Owner
<1>4. DirTypeInv'
  BY <1>3, SecureAssumption DEF Forget, DirGoes, DirInv, DirTypeInv, DirPlaces
<1>5. OwnersOpen' /\ OpenOwned' /\ PlacesOwn'
  BY <1>3 DEF Forget, DirGoes, DirInv, DirTypeInv, OwnersOpen, OpenOwned, PlacesOwn, Failing
<1> QED
  BY <1>2, <1>4, <1>5 DEF DirInv

LEMMA OtherStep == DirInv /\ (OtherOpens \/ OtherCloses) => DirInv'
<1> SUFFICES ASSUME DirInv, OtherOpens \/ OtherCloses PROVE DirInv'
  OBVIOUS
<1>1. UNCHANGED <<request, dpc, depth, retained, leaf, primary, cleanup, raised, lost>>
  BY DEF OtherOpens, OtherCloses, owners
<1>2. PrimaryHonest'
  BY <1>1 DEF DirInv, PrimaryHonest, Outcome
<1>3. CASE OtherOpens
  <2>1. /\ Min(Free) \in Descriptors /\ kernel[Min(Free)] = "free"
        /\ kernel' = [kernel EXCEPT ![Min(Free)] = "other"] /\ others' = {Min(Free)}
    BY <1>3, MinFree DEF OtherOpens, Free
  <2>2. DirTypeInv'
    BY <1>1, <2>1 DEF DirInv, DirTypeInv
  <2>3. OwnersOpen' /\ OpenOwned' /\ PlacesOwn'
    BY <1>1, <2>1 DEF DirInv, DirTypeInv, OwnersOpen, OpenOwned, PlacesOwn, Failing
  <2> QED
    BY <1>2, <2>2, <2>3 DEF DirInv
<1>4. CASE OtherCloses
  <2>1. PICK n \in others : kernel' = [kernel EXCEPT ![n] = "free"] /\ others' = others \ {n}
    BY <1>4 DEF OtherCloses
  <2>2. DirTypeInv'
    BY <1>1, <2>1 DEF DirInv, DirTypeInv
  <2>3. OwnersOpen' /\ OpenOwned' /\ PlacesOwn'
    BY <1>1, <2>1 DEF DirInv, DirTypeInv, OwnersOpen, OpenOwned, PlacesOwn, Failing
  <2> QED
    BY <1>2, <2>2, <2>3 DEF DirInv
<1> QED
  BY <1>3, <1>4

LEMMA DirStep == DirInv /\ [DirNext]_dirVars => DirInv'
<1> SUFFICES ASSUME DirInv, [DirNext]_dirVars PROVE DirInv'
  OBVIOUS
<1>1. CASE UNCHANGED dirVars
  BY <1>1 DEF dirVars, DirInv, DirTypeInv, OwnersOpen, OpenOwned, PlacesOwn, PrimaryHonest, Outcome,
     Failing
<1>2. CASE DirNext
  BY <1>2, AskStep, MakeDirectoryStep, OpenLeafStep, OpenRootStep, OpenComponentStep, StepDownStep,
     ValidateStep, SecureStep, ReleaseLeafStep, ReleaseParentStep, ReleaseAdoptedStep, CompleteStep,
     ForgetStep, OtherStep DEF DirNext
<1> QED
  BY <1>1, <1>2

\* The invariant says what was promised: nobody else's number is closed, nothing
\* is kept by a call that raises, and no failure is swallowed.
LEMMA DirInvSound == DirInv => DescriptorsAccounted
<1> SUFFICES ASSUME DirInv PROVE DescriptorsAccounted
  OBVIOUS
<1>1. OthersUntouched
  BY DEF DirInv, OwnersOpen, OthersUntouched
<1>2. NothingLeaks
  BY DEF DirInv, OpenOwned, PlacesOwn, Failing, NothingLeaks
<1>3. OutcomeHonest
  <2> SUFFICES ASSUME dpc = "done" PROVE Outcome(raised, Len(raised), primary)
    BY DEF OutcomeHonest
  <2>1. cleanup = <<>> /\ raised \in Seq(FailureSet)
    BY DEF DirInv, DirTypeInv, PrimaryHonest
  <2> QED
    BY <2>1 DEF DirInv, PrimaryHonest
<1> QED
  BY <1>1, <1>2, <1>3 DEF DescriptorsAccounted

\* Every variable of the walk, of the two owners and of the failures keeps its
\* type (filesystem/descriptors.py).
THEOREM DescriptorTypeCorrect == DirSpec => []DirTypeInv
<1>1. DirInv => DirTypeInv
  BY DEF DirInv
<1> QED
  BY <1>1, InitDir, DirStep, PTL DEF DirSpec

\* Whatever fails on the way, however many components the path has and whatever
\* numbers another thread of the process opens and closes meanwhile: each number
\* is closed at most once by its owner, a call that raises keeps nothing but what
\* a failed close left open, and what it raises takes precedence over all it met
\* (filesystem/descriptors.py, filesystem/cleanup.py).
THEOREM DescriptorsAlwaysAccounted == DirSpec => []DescriptorsAccounted
BY InitDir, DirStep, DirInvSound, PTL DEF DirSpec

-----------------------------------------------------------------------------
(* The artifact cache: what is mounted is right                            *)

ArtPlaces == {"idle", "fast", "lock", "recheck", "quarantine", "secure", "temporary", "create",
              "stream", "finalize", "verify", "publish", "permissions", "revalidate", "withdraw",
              "clean_hit", "clean_failed", "return"}
\* Where a launch has the lock of the identity.
Locked == ArtPlaces \ {"idle", "fast", "lock", "clean_failed", "return"}

ArtTypeInv ==
  /\ blob \in BlobStates /\ aholder \in Launches \cup {Unheld}
  /\ apc \in [Launches -> ArtPlaces] /\ atemp \in [Launches -> TempStates]
  /\ amapped \subseteq Launches /\ adisturbed \in BOOLEAN

\* One launch at a time is beyond the lock; what it is about to publish is
\* verified, what it has published is there, and it clears a right blob out of
\* the way only after an I/O error.
HolderRight ==
  \A p \in Launches :
    /\ apc[p] \in Locked => aholder = p
    /\ apc[p] = "quarantine" => (blob = "right" => adisturbed)
    /\ apc[p] = "publish" => atemp[p] = "right"
    /\ apc[p] \in {"permissions", "revalidate", "withdraw"} => blob = "right"

\* Whoever was told that the path is right, before the path is mounted as well.
UsedIsRight ==
  (amapped # {} \/ \E p \in Launches : apc[p] \in {"clean_hit", "return"}) =>
    blob = "right" \/ (adisturbed /\ blob = "absent")

ArtInv == ArtTypeInv /\ HolderRight /\ UsedIsRight

LEMMA InitArtifact == ArtifactInit => ArtInv
BY DEF ArtifactInit, ArtInv, ArtTypeInv, HolderRight, UsedIsRight, ArtPlaces, Locked, TempStates

\* A step of one launch that touches neither the blob nor what is mounted.
Private(p, place, temp) ==
  /\ apc' = [apc EXCEPT ![p] = place] /\ atemp' = [atemp EXCEPT ![p] = temp]
  /\ UNCHANGED <<blob, amapped>>

\* The places that say nothing of the blob or of the temporary.
Plain == ArtPlaces \ {"quarantine", "publish", "permissions", "revalidate", "withdraw",
                      "clean_hit", "return"}

LEMMA PrivateStep ==
  ASSUME ArtInv, NEW p \in Launches, NEW place \in Plain, NEW temp \in TempStates,
         Private(p, place, temp), UNCHANGED <<aholder, adisturbed>>, place \in Locked => aholder = p
  PROVE  ArtInv'
<1>1. ArtTypeInv'
  BY DEF ArtInv, ArtTypeInv, Private, Plain
<1>2. HolderRight'
  BY DEF ArtInv, ArtTypeInv, HolderRight, Private, Plain, Locked
<1>3. UsedIsRight'
  BY DEF ArtInv, ArtTypeInv, UsedIsRight, Private, Plain
<1> QED
  BY <1>1, <1>2, <1>3 DEF ArtInv

\* Where a step under the lock goes.
LEMMA OnwardGoes ==
  ASSUME ArtInv, NEW p \in Launches, apc[p] \in DOMAIN Pipeline, Onward(p)
  PROVE  apc' = [apc EXCEPT ![p] = Pipeline[apc[p]]]
BY DEF Onward, ArtifactGoes

\* What the pipeline does between the making of the temporary and its check, and
\* the steps that fail, touch only the temporary.
LEMMA TemporaryStep ==
  ASSUME ArtInv, NEW p \in Launches,
         StartLaunch(p) \/ SecureDir(p) \/ MakeTemporary(p) \/ CreateTemp(p) \/ Stream(p)
         \/ FinalizeTemp(p)
  PROVE  ArtInv'
<1>1. atemp[p] \in TempStates /\ atemp = [atemp EXCEPT ![p] = atemp[p]]
      /\ {"directory", "partial", "right", "wrong"} \subseteq TempStates
  BY DEF ArtInv, ArtTypeInv, TempStates
<1>2. {"fast", "temporary", "create", "stream", "finalize", "verify", "clean_failed"} \subseteq Plain
  BY DEF Plain, ArtPlaces
<1>3. UNCHANGED <<blob, amapped, aholder, adisturbed>>
  BY DEF StartLaunch, SecureDir, MakeTemporary, CreateTemp, Stream, FinalizeTemp
<1>4. apc[p] \in Locked => aholder = p
  BY DEF ArtInv, HolderRight
<1>5. \E place \in Plain, temp \in TempStates :
        Private(p, place, temp) /\ (place \in Locked => apc[p] \in Locked)
  <2>1. CASE StartLaunch(p)
    <3>1. Private(p, "fast", atemp[p]) /\ "fast" \notin Locked
      BY <2>1, <1>1, <1>3 DEF StartLaunch, ArtifactGoes, Private, Locked
    <3> QED
      BY <3>1, <1>1, <1>2
  <2>2. CASE SecureDir(p)
    <3>1. apc[p] \in Locked /\ (Private(p, "temporary", atemp[p]) \/ Private(p, "clean_failed", atemp[p]))
      BY <2>2, <1>1, <1>3 DEF SecureDir, Onward, Fails, Pipeline, ArtifactGoes, Private, Locked, ArtPlaces
    <3> QED
      BY <3>1, <1>1, <1>2
  <2>3. CASE MakeTemporary(p)
    <3>1. /\ apc[p] \in Locked
          /\ \/ Private(p, "create", "directory") \/ Private(p, "clean_failed", "directory")
             \/ Private(p, "clean_failed", atemp[p])
      BY <2>3, <1>1, <1>3 DEF MakeTemporary, TempBecomes, Onward, Fails, Pipeline, ArtifactGoes,
         Private, Locked, ArtPlaces
    <3> QED
      BY <3>1, <1>1, <1>2
  <2>4. CASE CreateTemp(p)
    <3>1. /\ apc[p] \in Locked
          /\ Private(p, "stream", "partial") \/ Private(p, "clean_failed", atemp[p])
      BY <2>4, <1>1, <1>3 DEF CreateTemp, TempBecomes, Onward, Fails, Pipeline, ArtifactGoes,
         Private, Locked, ArtPlaces
    <3> QED
      BY <3>1, <1>1, <1>2
  <2>5. CASE Stream(p)
    <3>1. /\ apc[p] \in Locked
          /\ \/ Private(p, "finalize", "right") \/ Private(p, "finalize", "wrong")
             \/ Private(p, "clean_failed", atemp[p])
      BY <2>5, <1>1, <1>3 DEF Stream, TempBecomes, Onward, Fails, Pipeline, ArtifactGoes,
         Private, Locked, ArtPlaces
    <3> QED
      BY <3>1, <1>1, <1>2
  <2>6. CASE FinalizeTemp(p)
    <3>1. apc[p] \in Locked /\ (Private(p, "verify", atemp[p]) \/ Private(p, "clean_failed", atemp[p]))
      BY <2>6, <1>1, <1>3 DEF FinalizeTemp, Onward, Fails, Pipeline, ArtifactGoes, Private, Locked, ArtPlaces
    <3> QED
      BY <3>1, <1>1, <1>2
  <2> QED
    BY <2>1, <2>2, <2>3, <2>4, <2>5, <2>6
<1> QED
  BY <1>3, <1>4, <1>5, PrivateStep

\* An inspection that was not disturbed finds what is there.
LEMMA HitIs == Hit <=> blob = "right"
BY DEF Hit, Inspect

LEMMA FastStep == \A p \in Launches : ArtInv /\ FastPath(p) => ArtInv'
<1> SUFFICES ASSUME NEW p \in Launches, ArtInv, FastPath(p) PROVE ArtInv'
  OBVIOUS
<1>1. /\ apc[p] = "fast" /\ UNCHANGED <<blob, aholder, atemp, amapped, adisturbed>>
      /\ \/ blob = "right" /\ apc' = [apc EXCEPT ![p] = "return"]
         \/ apc' = [apc EXCEPT ![p] = "lock"]
  BY HitIs DEF FastPath, ArtifactGoes
<1> QED
  BY <1>1 DEF ArtInv, ArtTypeInv, HolderRight, UsedIsRight, ArtPlaces, Locked

LEMMA AcquireStep == \A p \in Launches : ArtInv /\ AcquireIdentity(p) => ArtInv'
BY ArtifactAssumption DEF AcquireIdentity, Onward, Fails, Pipeline, ArtifactGoes, ArtInv, ArtTypeInv, HolderRight,
   UsedIsRight, ArtPlaces, Locked

LEMMA RecheckStep == \A p \in Launches : ArtInv /\ Recheck(p) => ArtInv'
<1> SUFFICES ASSUME NEW p \in Launches, ArtInv, Recheck(p) PROVE ArtInv'
  OBVIOUS
<1>1. apc[p] = "recheck" /\ UNCHANGED <<blob, aholder, atemp, amapped>>
  BY DEF Recheck
<1>2. \/ blob = "right" /\ apc' = [apc EXCEPT ![p] = "clean_hit"] /\ UNCHANGED adisturbed
      \/ /\ apc' = [apc EXCEPT ![p] = "quarantine"]
         /\ adisturbed' = (adisturbed \/ blob = "right")
  BY <1>1, HitIs DEF Recheck, Onward, Pipeline, ArtifactGoes
<1>3. adisturbed' \in BOOLEAN
  BY <1>2 DEF ArtInv, ArtTypeInv
<1>4. (adisturbed => adisturbed') /\ (apc'[p] = "quarantine" /\ blob = "right" => adisturbed')
  BY <1>1, <1>2 DEF ArtInv, ArtTypeInv
<1>5. ArtTypeInv'
  BY <1>1, <1>2, <1>3 DEF ArtInv, ArtTypeInv, ArtPlaces
<1>6. HolderRight'
  BY <1>1, <1>2, <1>4 DEF ArtInv, ArtTypeInv, HolderRight, ArtPlaces, Locked
<1>7. UsedIsRight'
  BY <1>1, <1>2, <1>4 DEF ArtInv, ArtTypeInv, UsedIsRight
<1> QED
  BY <1>5, <1>6, <1>7 DEF ArtInv

LEMMA QuarantineStep == \A p \in Launches : ArtInv /\ Quarantine(p) => ArtInv'
BY DEF Quarantine, Onward, Fails, Pipeline, ArtifactGoes, ArtInv, ArtTypeInv, HolderRight,
   UsedIsRight, ArtPlaces, Locked, BlobStates

LEMMA VerifyStep == \A p \in Launches : ArtInv /\ Verify(p) => ArtInv'
BY DEF Verify, Onward, Fails, Pipeline, ArtifactGoes, ArtInv, ArtTypeInv, HolderRight,
   UsedIsRight, ArtPlaces, Locked

LEMMA PublishStep == \A p \in Launches : ArtInv /\ PublishBlob(p) => ArtInv'
BY DEF PublishBlob, TempBecomes, Onward, Fails, Pipeline, ArtifactGoes, ArtInv, ArtTypeInv, HolderRight,
   UsedIsRight, ArtPlaces, Locked, BlobStates, TempStates

LEMMA PermissionsStep == \A p \in Launches : ArtInv /\ SetPermissions(p) => ArtInv'
BY DEF SetPermissions, Onward, Fails, Pipeline, ArtifactGoes, ArtInv, ArtTypeInv, HolderRight,
   UsedIsRight, ArtPlaces, Locked

LEMMA RevalidateStep == \A p \in Launches : ArtInv /\ Revalidate(p) => ArtInv'
BY DEF Revalidate, Hit, Inspect, Onward, Pipeline, ArtifactGoes, ArtInv, ArtTypeInv, HolderRight,
   UsedIsRight, ArtPlaces, Locked

LEMMA WithdrawStep == \A p \in Launches : ArtInv /\ Withdraw(p) => ArtInv'
<1> SUFFICES ASSUME NEW p \in Launches, ArtInv, Withdraw(p) PROVE ArtInv'
  OBVIOUS
<1>1. /\ apc[p] = "withdraw" /\ apc' = [apc EXCEPT ![p] = "clean_failed"]
      /\ blob' \in {blob, "absent"} /\ adisturbed' = (adisturbed \/ blob = "right")
      /\ UNCHANGED <<aholder, atemp, amapped>>
  BY HitIs DEF Withdraw, Fails, ArtifactGoes
<1>2. blob = "right" /\ \A q \in Launches : q # p => apc[q] \notin Locked
  BY <1>1 DEF ArtInv, HolderRight, Locked, ArtPlaces
<1>3. adisturbed' = TRUE
  BY <1>1, <1>2
<1>4. ArtTypeInv'
  BY <1>1, <1>2, <1>3 DEF ArtInv, ArtTypeInv, ArtPlaces, BlobStates
<1>5. HolderRight'
  BY <1>1, <1>2, <1>3 DEF ArtInv, ArtTypeInv, HolderRight, ArtPlaces, Locked
<1>6. UsedIsRight'
  BY <1>1, <1>2, <1>3 DEF UsedIsRight
<1> QED
  BY <1>4, <1>5, <1>6 DEF ArtInv

LEMMA CleanUpStep == \A p \in Launches : ArtInv /\ CleanUp(p) => ArtInv'
BY DEF CleanUp, TempBecomes, ArtifactGoes, ArtInv, ArtTypeInv, HolderRight,
   UsedIsRight, ArtPlaces, Locked, TempStates

LEMMA LeaveStep ==
  \A p \in Launches : ArtInv /\ (ReturnBlob(p) \/ EndLaunch(p) \/ LaunchKilled(p)) => ArtInv'
<1> SUFFICES ASSUME ArtInv, NEW p \in Launches PROVE
       (ReturnBlob(p) \/ EndLaunch(p) \/ LaunchKilled(p)) => ArtInv'
  OBVIOUS
<1>1. ReturnBlob(p) => ArtInv'
  BY DEF ReturnBlob, ArtifactGoes, ArtInv, ArtTypeInv, HolderRight, UsedIsRight, ArtPlaces, Locked
<1>2. EndLaunch(p) => ArtInv'
  BY DEF EndLaunch, ArtInv, ArtTypeInv, HolderRight, UsedIsRight
<1>3. LaunchKilled(p) => ArtInv'
  BY DEF LaunchKilled, TempBecomes, ArtifactGoes, ArtInv, ArtTypeInv, HolderRight, UsedIsRight,
     ArtPlaces, Locked, TempStates
<1> QED
  BY <1>1, <1>2, <1>3

LEMMA PowerFailStep == PowerFails => ArtInv'
<1> SUFFICES ASSUME PowerFails PROVE ArtInv'
  OBVIOUS
<1>1. /\ blob' \in BlobStates /\ aholder' = Unheld /\ amapped' = {} /\ adisturbed' = FALSE
      /\ \A p \in Launches : apc'[p] = "idle"
      /\ apc' = [p \in Launches |-> "idle"] /\ atemp' = [p \in Launches |-> "none"]
  BY DEF PowerFails
<1>2. ArtTypeInv'
  BY <1>1 DEF ArtTypeInv, ArtPlaces, TempStates
<1>3. HolderRight' /\ UsedIsRight'
  BY <1>1 DEF HolderRight, UsedIsRight, Locked
<1> QED
  BY <1>2, <1>3 DEF ArtInv

LEMMA ArtStep == ArtInv /\ [ArtifactNext]_artifactVars => ArtInv'
<1> SUFFICES ASSUME ArtInv, [ArtifactNext]_artifactVars PROVE ArtInv'
  OBVIOUS
<1>1. CASE UNCHANGED artifactVars
  BY <1>1 DEF artifactVars, ArtInv, ArtTypeInv, HolderRight, UsedIsRight
<1>2. CASE PowerFails
  BY <1>2, PowerFailStep
<1>3. ASSUME NEW p \in Launches, ArtifactStep(p) PROVE ArtInv'
  BY <1>3, TemporaryStep, FastStep, AcquireStep, RecheckStep, QuarantineStep, VerifyStep,
     PublishStep, PermissionsStep, RevalidateStep, WithdrawStep, CleanUpStep, LeaveStep
     DEF ArtifactStep
<1> QED
  BY <1>1, <1>2, <1>3 DEF ArtifactNext

\* The path, the lock, and every launch keep their types (artifact_cache.py).
THEOREM ArtifactTypeCorrect == ArtifactSpec => []ArtTypeInv
<1>1. ArtInv => ArtTypeInv
  BY DEF ArtInv
<1> QED
  BY <1>1, InitArtifact, ArtStep, PTL DEF ArtifactSpec

LEMMA MountedAlwaysRight == ArtifactSpec => []MountedIsRight
<1>1. ArtInv => MountedIsRight
  BY DEF ArtInv, UsedIsRight, MountedIsRight
<1> QED
  BY <1>1, InitArtifact, ArtStep, PTL DEF ArtifactSpec

-----------------------------------------------------------------------------
(* The response cache: what is served is whole and young                   *)

RespPlaces == {"idle", "disk", "fetch", "open", "write", "write_rest", "publish", "end"}
Numbers == 0..Len(fetched)
Halves == Numbers \X Numbers

RespTypeInv ==
  /\ clock \in 0..MaxClock /\ fetched \in Seq(Nat)
  /\ entries \in Seq(Halves) /\ temporary \in 0..Len(entries) /\ final \in 0..Len(entries)
  /\ cpc \in [Commands -> RespPlaces] /\ cnow \in [Commands -> Nat]
  /\ memory \in [Commands -> [halves : Halves, stamp : Nat]]
  /\ writing \in [Commands -> [inode : 0..Len(entries), response : Numbers]]
  /\ overlapped \in BOOLEAN

\* The now of a request is never ahead of the clock.
NowPast == \A c \in Commands : cnow[c] <= clock

\* Which inode a command writes, and how far it has come: with no overlap it is
\* alone there, and what it wrote is what the inode holds.
WritersPlaced ==
  \A c \in Commands : cpc[c] \in {"write", "write_rest"} => Written(c) # 0
WritersAlone ==
  ~ overlapped =>
    /\ \A c, d \in Commands : c # d /\ Written(c) # 0 => Written(c) # Written(d)
    /\ \A c \in Commands :
         /\ cpc[c] = "write" => entries[Written(c)] = <<0, 0>>
         /\ cpc[c] = "write_rest" => entries[Written(c)] = <<writing[c].response, 0>>
    /\ \A i \in 1..Len(entries) : entries[i][2] \in {0, entries[i][1]}

\* What a command remembers was at most one TTL old when it was stamped.
RememberedSound ==
  \A c \in Commands : memory[c].halves # <<0, 0>> =>
    LET halves == memory[c].halves IN
      /\ 0 \notin {halves[1], halves[2]}
      /\ halves[1] = halves[2] \/ overlapped
      /\ memory[c].stamp - fetched[halves[1]] <= TTL

RespInv == RespTypeInv /\ NowPast /\ WritersPlaced /\ WritersAlone /\ RememberedSound

LEMMA InitResponse == CacheInit => RespInv
<1> SUFFICES ASSUME CacheInit PROVE RespInv
  OBVIOUS
<1> USE DEF CacheInit, Nothing, NotWriting
<1>1. RespTypeInv
  <2>1. Len(fetched) = 0 /\ Len(entries) = 0 /\ Numbers = {0}
    BY DEF Numbers
  <2>2. << 0, 0 >> \in Halves
    BY <2>1 DEF Halves
  <2>3. /\ fetched \in Seq(Nat) /\ entries \in Seq(Halves) /\ temporary \in 0..Len(entries)
        /\ final \in 0..Len(entries) /\ clock \in 0..MaxClock
    BY <2>1, ResponseAssumption
  <2>4. memory \in [Commands -> [halves : Halves, stamp : Nat]]
    BY <2>2
  <2>5. writing \in [Commands -> [inode : 0..Len(entries), response : Numbers]]
    BY <2>1
  <2> QED
    BY <2>3, <2>4, <2>5 DEF RespTypeInv, RespPlaces
<1>2. NowPast /\ WritersPlaced /\ WritersAlone /\ RememberedSound
  BY DEF NowPast, WritersPlaced, WritersAlone, RememberedSound, Written
<1> QED
  BY <1>1, <1>2 DEF RespInv

\* Where the writers stand is not disturbed by a step that writes nothing and
\* brings no command to a place where it writes.
LEMMA WritersKept ==
  ASSUME RespInv, UNCHANGED <<entries, overlapped>>,
         \A c \in Commands : writing'[c] = writing[c] \/ writing'[c] = NotWriting,
         \A c \in Commands : cpc'[c] \in {"write", "write_rest"} =>
                               cpc'[c] = cpc[c] /\ writing'[c] = writing[c]
  PROVE  WritersPlaced' /\ WritersAlone'
<1>1. NotWriting.inode = 0
  BY DEF NotWriting
<1>2. \A c \in Commands : Written(c)' = Written(c) \/ Written(c)' = 0
  BY <1>1 DEF Written
<1>3. WritersPlaced'
  BY DEF RespInv, WritersPlaced, Written
<1>4. WritersAlone'
  <2> SUFFICES ASSUME ~ overlapped
               PROVE  /\ \A c, d \in Commands : c # d /\ Written(c)' # 0 => Written(c)' # Written(d)'
                      /\ \A c \in Commands :
                           /\ cpc'[c] = "write" => entries[Written(c)'] = << 0, 0 >>
                           /\ cpc'[c] = "write_rest" =>
                                entries[Written(c)'] = << writing'[c].response, 0 >>
                      /\ \A i \in 1..Len(entries) : entries[i][2] \in {0, entries[i][1]}
    BY DEF WritersAlone
  <2>1. \A c, d \in Commands : c # d /\ Written(c) # 0 => Written(c) # Written(d)
    BY DEF RespInv, WritersAlone
  <2>2. \A c, d \in Commands : c # d /\ Written(c)' # 0 => Written(c)' # Written(d)'
    BY <1>2, <2>1
  <2>3. ASSUME NEW c \in Commands, cpc'[c] \in {"write", "write_rest"}
        PROVE  cpc'[c] = cpc[c] /\ Written(c)' = Written(c) /\ writing'[c] = writing[c]
    BY <2>3 DEF Written
  <2>4. \A c \in Commands :
          /\ cpc[c] = "write" => entries[Written(c)] = << 0, 0 >>
          /\ cpc[c] = "write_rest" => entries[Written(c)] = << writing[c].response, 0 >>
    BY DEF RespInv, WritersAlone
  <2>5. \A i \in 1..Len(entries) : entries[i][2] \in {0, entries[i][1]}
    BY DEF RespInv, WritersAlone
  <2> QED
    BY <2>2, <2>3, <2>4, <2>5
<1> QED
  BY <1>3, <1>4

\* What is remembered stays sound when a command forgets, or keeps it.
LEMMA MemoryKept ==
  ASSUME RespInv, UNCHANGED <<fetched, overlapped>>,
         \A c \in Commands : memory'[c] = memory[c] \/ memory'[c] = Nothing
  PROVE  RememberedSound'
BY DEF RespInv, RememberedSound, Nothing

LEMMA RequestStep == \A c \in Commands : RespInv /\ Request(c) => RespInv'
<1> SUFFICES ASSUME NEW c \in Commands, RespInv, Request(c) PROVE RespInv'
  OBVIOUS
<1>1. /\ cnow' = [cnow EXCEPT ![c] = clock] /\ cpc' = [cpc EXCEPT ![c] = "disk"]
      /\ UNCHANGED <<clock, memory, fetched, entries, temporary, final, writing, overlapped>>
  BY DEF Request, CacheGoes, diskVars
<1>2. RespTypeInv'
  BY <1>1, ResponseAssumption DEF RespInv, RespTypeInv, RespPlaces, Numbers, Halves
<1>3. NowPast'
  BY <1>1, ResponseAssumption DEF RespInv, RespTypeInv, NowPast
<1>4. WritersPlaced' /\ WritersAlone'
  BY <1>1, WritersKept DEF RespInv, RespTypeInv
<1>5. RememberedSound'
  BY <1>1, MemoryKept
<1> QED
  BY <1>2, <1>3, <1>4, <1>5 DEF RespInv

\* What is read on disk is of one response, or of two that were written at once.
LEMMA OnDiskSound ==
  ASSUME RespInv, OnDisk
  PROVE  /\ final \in 1..Len(entries) /\ entries[final] \in Halves
         /\ entries[final][1] \in 1..Len(fetched) /\ entries[final][2] \in 1..Len(fetched)
         /\ entries[final][1] = entries[final][2] \/ overlapped
         /\ clock - fetched[entries[final][1]] <= TTL
<1>1. final \in 1..Len(entries)
  BY DEF OnDisk, RespInv, RespTypeInv
<1>2. entries[final] \in Halves
  BY <1>1 DEF RespInv, RespTypeInv
<1>3. entries[final][1] # 0 /\ entries[final][2] # 0
  BY DEF OnDisk
<1>4. entries[final][1] = entries[final][2] \/ overlapped
  BY <1>1, <1>3 DEF RespInv, WritersAlone
<1>5. entries[final][1] \in 0..Len(fetched) /\ entries[final][2] \in 0..Len(fetched)
  BY <1>2 DEF Halves, Numbers
<1>6. Len(fetched) \in Nat
  BY DEF RespInv, RespTypeInv
<1> QED
  BY <1>1, <1>2, <1>3, <1>4, <1>5, <1>6 DEF OnDisk

LEMMA FromDiskStep == \A c \in Commands : RespInv /\ FromDisk(c) => RespInv'
<1> SUFFICES ASSUME NEW c \in Commands, RespInv, FromDisk(c) PROVE RespInv'
  OBVIOUS
<1>1. cpc[c] = "disk" /\ UNCHANGED <<clock, cnow, fetched, entries, temporary, final, writing, overlapped>>
  BY DEF FromDisk, diskVars
<1>2. NowPast'
  BY <1>1 DEF RespInv, NowPast
<1>3. CASE ~ OnDisk
  <2>1. cpc' = [cpc EXCEPT ![c] = "fetch"] /\ memory' = memory
    BY <1>3 DEF FromDisk, CacheGoes
  <2>2. RespTypeInv'
    BY <1>1, <2>1 DEF RespInv, RespTypeInv, RespPlaces, Numbers, Halves
  <2>3. WritersPlaced' /\ WritersAlone'
    BY <1>1, <2>1, WritersKept DEF RespInv, RespTypeInv
  <2>4. RememberedSound'
    BY <1>1, <2>1, MemoryKept
  <2> QED
    BY <1>2, <2>2, <2>3, <2>4 DEF RespInv
<1>4. CASE OnDisk
  <2> DEFINE e == entries[final]
  <2>1. /\ cpc' = [cpc EXCEPT ![c] = "end"]
        /\ memory' = [memory EXCEPT ![c] = [halves |-> e, stamp |-> cnow[c]]]
    BY <1>4 DEF FromDisk, CacheGoes
  <2>2. /\ e \in Halves /\ e[1] \in 1..Len(fetched) /\ e[2] \in 1..Len(fetched)
        /\ e[1] = e[2] \/ overlapped
        /\ clock - fetched[e[1]] <= TTL
    BY <1>4, OnDiskSound
  <2> HIDE DEF e
  <2>3. RespTypeInv'
    BY <1>1, <2>1, <2>2 DEF RespInv, RespTypeInv, RespPlaces, Numbers, Halves
  <2>4. WritersPlaced' /\ WritersAlone'
    BY <1>1, <2>1, WritersKept DEF RespInv, RespTypeInv
  <2>5. cnow[c] - fetched[e[1]] <= TTL
    <3>1. cnow[c] <= clock /\ cnow[c] \in Nat
      BY DEF RespInv, RespTypeInv, NowPast
    <3>2. clock \in Nat /\ TTL \in Nat
      BY ResponseAssumption DEF RespInv, RespTypeInv
    <3>3. fetched \in Seq(Nat)
      BY DEF RespInv, RespTypeInv
    <3>4. fetched[e[1]] \in Nat
      BY <2>2, <3>3
    <3> QED
      BY <3>1, <3>2, <3>4, <2>2
  <2>6. RememberedSound'
    <3>1. memory'[c].halves = e /\ memory'[c].stamp = cnow[c]
      BY <2>1 DEF RespInv, RespTypeInv
    <3>2. \A d \in Commands : d # c => memory'[d] = memory[d]
      BY <2>1 DEF RespInv, RespTypeInv
    <3> QED
      BY <1>1, <2>2, <2>5, <3>1, <3>2 DEF RespInv, RememberedSound
  <2> QED
    BY <1>2, <2>3, <2>4, <2>6 DEF RespInv
<1> QED
  BY <1>3, <1>4

LEMMA FetchStep == \A c \in Commands : RespInv /\ Fetch(c) => RespInv'
<1> SUFFICES ASSUME NEW c \in Commands, RespInv, Fetch(c) PROVE RespInv'
  OBVIOUS
<1>1. cpc[c] = "fetch" /\ UNCHANGED <<clock, cnow, entries, temporary, final, overlapped>>
  BY DEF Fetch
<1>2. NowPast'
  BY <1>1 DEF RespInv, NowPast
<1>3. CASE cpc' = [cpc EXCEPT ![c] = "end"] /\ UNCHANGED <<fetched, memory, writing>>
  <2>1. RespTypeInv'
    BY <1>1, <1>3 DEF RespInv, RespTypeInv, RespPlaces, Numbers, Halves
  <2>2. WritersPlaced' /\ WritersAlone'
    BY <1>1, <1>3, WritersKept DEF RespInv, RespTypeInv
  <2>3. RememberedSound'
    BY <1>1, <1>3, MemoryKept
  <2> QED
    BY <1>2, <2>1, <2>2, <2>3 DEF RespInv
<1> DEFINE r == Len(fetched) + 1
<1>4. CASE /\ fetched' = Append(fetched, clock)
           /\ memory' = [memory EXCEPT ![c] = [halves |-> << r, r >>, stamp |-> cnow[c]]]
           /\ writing' = [writing EXCEPT ![c] = [inode |-> 0, response |-> r]]
           /\ \E place \in {"open", "end"} : cpc' = [cpc EXCEPT ![c] = place]
  <2>1. /\ fetched \in Seq(Nat) /\ clock \in Nat /\ Len(fetched) \in Nat /\ r \in Nat /\ r # 0
        /\ cnow[c] <= clock /\ cnow[c] \in Nat
    BY ResponseAssumption DEF RespInv, RespTypeInv, NowPast
  <2>2. /\ fetched' \in Seq(Nat) /\ Len(fetched') = r /\ fetched'[r] = clock
        /\ \A i \in 1..Len(fetched) : fetched'[i] = fetched[i]
    BY <1>4, <2>1
  <2>3. Numbers' = 0..r /\ Numbers \subseteq Numbers' /\ Halves \subseteq Halves'
    BY <2>1, <2>2 DEF Numbers, Halves
  <2>4. entries' \in Seq(Halves')
    <3>1. entries \in Seq(Halves)
      BY DEF RespInv, RespTypeInv
    <3>2. \A i \in 1..Len(entries) : entries[i] \in Halves'
      BY <3>1, <2>3
    <3> QED
      BY <1>1, <3>1, <3>2
  <2> HIDE DEF r
  <2>5. << r, r >> \in Halves' /\ r \in Numbers'
    BY <2>1, <2>3 DEF Halves
  <2>6. memory' \in [Commands -> [halves : Halves', stamp : Nat]]
    BY <1>4, <2>1, <2>3, <2>5 DEF RespInv, RespTypeInv
  <2>7. writing' \in [Commands -> [inode : 0..Len(entries), response : Numbers']]
    <3>1. Len(entries) \in Nat
      BY DEF RespInv, RespTypeInv
    <3>2. [inode |-> 0, response |-> r] \in [inode : 0..Len(entries), response : Numbers']
      BY <2>5, <3>1
    <3>3. [inode : 0..Len(entries), response : Numbers]
            \subseteq [inode : 0..Len(entries), response : Numbers']
      BY <2>3
    <3> QED
      BY <1>4, <3>2, <3>3 DEF RespInv, RespTypeInv
  <2>8. RespTypeInv'
    BY <1>1, <1>4, <2>2, <2>4, <2>6, <2>7 DEF RespInv, RespTypeInv, RespPlaces
  <2>9. \A d \in Commands : d # c => writing'[d] = writing[d] /\ cpc'[d] = cpc[d]
    BY <1>4 DEF RespInv, RespTypeInv
  <2>10. writing'[c].inode = 0 /\ cpc'[c] \notin {"write", "write_rest"}
    BY <1>4 DEF RespInv, RespTypeInv
  <2>11. WritersPlaced' /\ WritersAlone'
    <3>1. Written(c)' = 0 /\ \A d \in Commands : d # c => Written(d)' = Written(d)
      BY <2>9, <2>10 DEF Written
    <3>2. WritersPlaced'
      BY <2>9, <2>10, <3>1 DEF RespInv, WritersPlaced
    <3>3. WritersAlone'
      <4> SUFFICES ASSUME ~ overlapped
                   PROVE  /\ \A d, f \in Commands :
                               d # f /\ Written(d)' # 0 => Written(d)' # Written(f)'
                          /\ \A d \in Commands :
                               /\ cpc'[d] = "write" => entries[Written(d)'] = << 0, 0 >>
                               /\ cpc'[d] = "write_rest" =>
                                    entries[Written(d)'] = << writing'[d].response, 0 >>
                          /\ \A i \in 1..Len(entries) : entries[i][2] \in {0, entries[i][1]}
        BY <1>1 DEF WritersAlone
      <4>1. \A d, f \in Commands : d # f /\ Written(d) # 0 => Written(d) # Written(f)
        BY DEF RespInv, WritersAlone
      <4>2. \A d, f \in Commands : d # f /\ Written(d)' # 0 => Written(d)' # Written(f)'
        BY <3>1, <4>1
      <4>3. \A d \in Commands :
              /\ cpc[d] = "write" => entries[Written(d)] = << 0, 0 >>
              /\ cpc[d] = "write_rest" => entries[Written(d)] = << writing[d].response, 0 >>
        BY DEF RespInv, WritersAlone
      <4>4. \A i \in 1..Len(entries) : entries[i][2] \in {0, entries[i][1]}
        BY DEF RespInv, WritersAlone
      <4> QED
        BY <2>9, <2>10, <3>1, <4>2, <4>3, <4>4
    <3> QED
      BY <3>2, <3>3
  <2>12. RememberedSound'
    <3>1. memory'[c].halves = << r, r >> /\ memory'[c].stamp = cnow[c]
      BY <1>4 DEF RespInv, RespTypeInv
    <3>2. cnow[c] - clock <= TTL
      BY <2>1, ResponseAssumption
    <3>3. ASSUME NEW d \in Commands, d # c, memory[d].halves # << 0, 0 >>
          PROVE  memory[d].halves[1] \in 1..Len(fetched)
      <4>1. memory[d].halves \in Halves /\ memory[d].halves[1] # 0
        BY <3>3 DEF RespInv, RespTypeInv, RememberedSound
      <4> QED
        BY <4>1, <2>1 DEF Halves, Numbers
    <3>4. \A d \in Commands : d # c => memory'[d] = memory[d]
      BY <1>4 DEF RespInv, RespTypeInv
    <3>5. \A d \in Commands : memory[d].halves # << 0, 0 >> =>
            /\ 0 \notin {memory[d].halves[1], memory[d].halves[2]}
            /\ memory[d].halves[1] = memory[d].halves[2] \/ overlapped
            /\ memory[d].stamp - fetched[memory[d].halves[1]] <= TTL
      BY DEF RespInv, RememberedSound
    <3>6. ASSUME NEW d \in Commands, memory'[d].halves # << 0, 0 >>
          PROVE  /\ 0 \notin {memory'[d].halves[1], memory'[d].halves[2]}
                 /\ memory'[d].halves[1] = memory'[d].halves[2] \/ overlapped'
                 /\ memory'[d].stamp - fetched'[memory'[d].halves[1]] <= TTL
      <4>1. CASE d = c
        <5>1. memory'[d].halves[1] = r /\ memory'[d].halves[2] = r /\ memory'[d].stamp = cnow[c]
          BY <4>1, <3>1
        <5> QED
          BY <5>1, <2>1, <2>2, <3>2
      <4>2. CASE d # c
        <5>1. memory'[d] = memory[d]
          BY <4>2, <3>4
        <5>2. fetched'[memory[d].halves[1]] = fetched[memory[d].halves[1]]
          BY <5>1, <4>2, <3>3, <3>6, <2>2
        <5> QED
          BY <5>1, <5>2, <3>5, <3>6, <1>1
      <4> QED
        BY <4>1, <4>2
    <3> QED
      BY <3>6 DEF RememberedSound
  <2> QED
    BY <1>2, <2>8, <2>11, <2>12 DEF RespInv
<1> QED
  BY <1>3, <1>4 DEF Fetch, CacheGoes

LEMMA OpenTemporaryStep == \A c \in Commands : RespInv /\ OpenTemporary(c) => RespInv'
<1> SUFFICES ASSUME NEW c \in Commands, RespInv, OpenTemporary(c) PROVE RespInv'
  OBVIOUS
<1> DEFINE i == IF temporary = 0 THEN Len(entries) + 1 ELSE temporary
<1>1. /\ cpc[c] = "open" /\ cpc' = [cpc EXCEPT ![c] = "write"] /\ temporary' = i
      /\ writing' = [writing EXCEPT ![c].inode = i]
      /\ overlapped' = (overlapped \/ \E other \in Commands \ {c} : Written(other) = i)
      /\ UNCHANGED <<clock, cnow, memory, fetched, final>>
  BY DEF OpenTemporary, CacheGoes
<1>2. /\ entries \in Seq(Halves) /\ temporary \in 0..Len(entries) /\ Len(entries) \in Nat
      /\ << 0, 0 >> \in Halves /\ Numbers' = Numbers /\ Halves' = Halves
  BY <1>1 DEF RespInv, RespTypeInv, Halves, Numbers
<1>3. /\ entries' \in Seq(Halves) /\ i \in 1..Len(entries') /\ entries'[i] = << 0, 0 >>
      /\ Len(entries) <= Len(entries') /\ Len(entries') \in Nat
      /\ \A j \in 1..Len(entries') : j # i => j \in 1..Len(entries) /\ entries'[j] = entries[j]
  <2>1. CASE temporary = 0
    <3>1. entries' = Append(entries, << 0, 0 >>) /\ i = Len(entries) + 1
      BY <2>1 DEF OpenTemporary
    <3> QED
      BY <3>1, <1>2
  <2>2. CASE temporary # 0
    <3>1. entries' = [entries EXCEPT ![i] = << 0, 0 >>] /\ i = temporary
      BY <2>2 DEF OpenTemporary
    <3>2. i \in 1..Len(entries) /\ entries' \in Seq(Halves) /\ Len(entries') = Len(entries)
      BY <3>1, <1>2, <2>2
    <3> QED
      BY <3>1, <3>2, <1>2
  <2> QED
    BY <2>1, <2>2
<1>4. /\ \A d \in Commands : Written(d) \in 0..Len(entries)
      /\ writing'[c].inode = i /\ writing'[c].response = writing[c].response
      /\ \A d \in Commands : d # c => writing'[d] = writing[d] /\ cpc'[d] = cpc[d]
      /\ cpc'[c] = "write"
  BY <1>1 DEF RespInv, RespTypeInv, Written
<1> HIDE DEF i
<1>5. overlapped' \in BOOLEAN /\ (overlapped => overlapped')
  BY <1>1
<1>6. RespTypeInv'
  <2>1. writing' \in [Commands -> [inode : 0..Len(entries'), response : Numbers]]
    <3>1. 0..Len(entries) \subseteq 0..Len(entries') /\ i \in 0..Len(entries')
      BY <1>2, <1>3
    <3>2. ASSUME NEW d \in Commands
          PROVE  [writing[d] EXCEPT !.inode = i] \in [inode : 0..Len(entries'), response : Numbers]
                 /\ writing[d] \in [inode : 0..Len(entries'), response : Numbers]
      BY <3>1 DEF RespInv, RespTypeInv
    <3> QED
      BY <1>1, <3>2 DEF RespInv, RespTypeInv
  <2>2. final' \in 0..Len(entries') /\ temporary' \in 0..Len(entries')
    BY <1>1, <1>2, <1>3 DEF RespInv, RespTypeInv
  <2>3. cpc' \in [Commands -> RespPlaces]
    BY <1>1 DEF RespInv, RespTypeInv, RespPlaces
  <2> QED
    BY <1>1, <1>2, <1>3, <1>5, <2>1, <2>2, <2>3 DEF RespInv, RespTypeInv
<1>7. NowPast'
  BY <1>1 DEF RespInv, NowPast
<1>8. Written(c)' = i /\ \A d \in Commands : d # c => Written(d)' = Written(d)
  BY <1>4 DEF Written
<1>9. WritersPlaced'
  BY <1>3, <1>4, <1>8 DEF RespInv, WritersPlaced
<1>10. WritersAlone'
  <2> SUFFICES ASSUME ~ overlapped'
               PROVE  /\ \A d, f \in Commands : d # f /\ Written(d)' # 0 => Written(d)' # Written(f)'
                      /\ \A d \in Commands :
                           /\ cpc'[d] = "write" => entries'[Written(d)'] = << 0, 0 >>
                           /\ cpc'[d] = "write_rest" =>
                                entries'[Written(d)'] = << writing'[d].response, 0 >>
                      /\ \A j \in 1..Len(entries') : entries'[j][2] \in {0, entries'[j][1]}
    BY DEF WritersAlone
  <2>1. ~ overlapped /\ \A d \in Commands : d # c => Written(d) # i
    BY <1>1
  <2>2. \A d, f \in Commands : d # f /\ Written(d) # 0 => Written(d) # Written(f)
    BY <2>1 DEF RespInv, WritersAlone
  <2>3. \A d, f \in Commands : d # f /\ Written(d)' # 0 => Written(d)' # Written(f)'
    BY <1>8, <2>1, <2>2
  <2>4. ASSUME NEW d \in Commands
        PROVE  /\ cpc'[d] = "write" => entries'[Written(d)'] = << 0, 0 >>
               /\ cpc'[d] = "write_rest" => entries'[Written(d)'] = << writing'[d].response, 0 >>
    <3>1. CASE d = c
      BY <3>1, <1>3, <1>4, <1>8
    <3>2. CASE d # c
      <4>1. cpc[d] \in {"write", "write_rest"} => Written(d) \in 1..Len(entries)
        BY <1>2, <1>4 DEF RespInv, WritersPlaced
      <4>2. cpc[d] \in {"write", "write_rest"} => entries'[Written(d)] = entries[Written(d)]
        BY <4>1, <1>2, <1>3, <2>1, <3>2
      <4>3. /\ cpc[d] = "write" => entries[Written(d)] = << 0, 0 >>
            /\ cpc[d] = "write_rest" => entries[Written(d)] = << writing[d].response, 0 >>
        BY <2>1 DEF RespInv, WritersAlone
      <4> QED
        BY <3>2, <4>2, <4>3, <1>4, <1>8
    <3> QED
      BY <3>1, <3>2
  <2>5. ASSUME NEW j \in 1..Len(entries') PROVE entries'[j][2] \in {0, entries'[j][1]}
    <3>1. CASE j = i
      BY <3>1, <1>3
    <3>2. CASE j # i
      BY <3>2, <1>3, <2>1 DEF RespInv, WritersAlone
    <3> QED
      BY <3>1, <3>2
  <2> QED
    BY <2>3, <2>4, <2>5
<1>11. RememberedSound'
  BY <1>1, <1>5 DEF RespInv, RememberedSound
<1> QED
  BY <1>6, <1>7, <1>9, <1>10, <1>11 DEF RespInv

LEMMA WriteHalfStep == \A c \in Commands : RespInv /\ WriteHalf(c) => RespInv'
<1> SUFFICES ASSUME NEW c \in Commands, RespInv, WriteHalf(c) PROVE RespInv'
  OBVIOUS
<1> DEFINE i == Written(c)
           r == writing[c].response
<1>1. /\ cpc[c] \in {"write", "write_rest"}
      /\ UNCHANGED <<clock, cnow, memory, fetched, temporary, final, writing, overlapped>>
  BY DEF WriteHalf
<1>2. /\ entries \in Seq(Halves) /\ Len(entries) \in Nat /\ i \in 1..Len(entries)
      /\ r \in Numbers /\ entries[i] \in Halves /\ Numbers' = Numbers /\ Halves' = Halves
  <2>1. entries \in Seq(Halves) /\ Len(entries) \in Nat /\ r \in Numbers /\ i \in 0..Len(entries)
    BY DEF RespInv, RespTypeInv, Written
  <2>2. i # 0
    BY <1>1 DEF RespInv, WritersPlaced
  <2>3. i \in 1..Len(entries)
    BY <2>1, <2>2
  <2>4. entries[i] \in Halves
    BY <2>1, <2>3
  <2>5. Numbers' = Numbers /\ Halves' = Halves
    BY <1>1 DEF Halves, Numbers
  <2> QED
    BY <2>1, <2>3, <2>4, <2>5
<1>3. PICK h \in Halves : /\ entries' = [entries EXCEPT ![i] = h]
                          /\ cpc[c] = "write" => h = << r, entries[i][2] >>
                          /\ cpc[c] = "write_rest" => h = << entries[i][1], r >>
  <2>1. CASE cpc[c] = "write"
    <3>1. entries' = [entries EXCEPT ![i] = << r, entries[i][2] >>]
      BY <1>2, <2>1 DEF WriteHalf
    <3>2. << r, entries[i][2] >> \in Halves
      BY <1>2 DEF Halves
    <3> QED
      BY <2>1, <3>1, <3>2
  <2>2. CASE cpc[c] = "write_rest"
    <3>1. entries' = [entries EXCEPT ![i] = << entries[i][1], r >>]
      BY <1>2, <2>2 DEF WriteHalf
    <3>2. << entries[i][1], r >> \in Halves
      BY <1>2 DEF Halves
    <3> QED
      BY <2>2, <3>1, <3>2
  <2> QED
    BY <1>1, <2>1, <2>2
<1>4. /\ entries' \in Seq(Halves) /\ Len(entries') = Len(entries) /\ entries'[i] = h
      /\ \A j \in 1..Len(entries) : j # i => entries'[j] = entries[j]
  BY <1>2, <1>3
<1>5. /\ cpc' \in [Commands -> RespPlaces]
      /\ cpc[c] = "write" => cpc'[c] = "write_rest"
      /\ cpc[c] = "write_rest" => cpc'[c] = "publish"
      /\ \A d \in Commands : d # c => cpc'[d] = cpc[d]
  BY <1>1 DEF WriteHalf, CacheGoes, RespInv, RespTypeInv, RespPlaces
<1>6. \A d \in Commands : Written(d)' = Written(d) /\ Written(d) \in 0..Len(entries)
  BY <1>1 DEF Written, RespInv, RespTypeInv
<1>7. RespTypeInv'
  BY <1>1, <1>2, <1>4, <1>5 DEF RespInv, RespTypeInv
<1>8. NowPast' /\ RememberedSound'
  BY <1>1 DEF RespInv, NowPast, RememberedSound
<1>9. WritersPlaced'
  BY <1>1, <1>5, <1>6 DEF RespInv, WritersPlaced
<1>10. WritersAlone'
  <2> SUFFICES ASSUME ~ overlapped
               PROVE  /\ \A d, f \in Commands : d # f /\ Written(d) # 0 => Written(d) # Written(f)
                      /\ \A d \in Commands :
                           /\ cpc'[d] = "write" => entries'[Written(d)] = << 0, 0 >>
                           /\ cpc'[d] = "write_rest" =>
                                entries'[Written(d)] = << writing[d].response, 0 >>
                      /\ \A j \in 1..Len(entries) : entries'[j][2] \in {0, entries'[j][1]}
    BY <1>1, <1>4, <1>6 DEF WritersAlone
  <2>1. /\ \A d, f \in Commands : d # f /\ Written(d) # 0 => Written(d) # Written(f)
        /\ \A d \in Commands :
             /\ cpc[d] = "write" => entries[Written(d)] = << 0, 0 >>
             /\ cpc[d] = "write_rest" => entries[Written(d)] = << writing[d].response, 0 >>
        /\ \A j \in 1..Len(entries) : entries[j][2] \in {0, entries[j][1]}
    BY DEF RespInv, WritersAlone
  <2>2. /\ cpc[c] = "write" => h = << r, 0 >>
        /\ cpc[c] = "write_rest" => h = << r, r >>
    <3>1. cpc[c] = "write" => entries[i][2] = 0
      BY <2>1
    <3>2. cpc[c] = "write_rest" => entries[i][1] = r
      BY <2>1
    <3> QED
      BY <3>1, <3>2, <1>3
  <2>3. ASSUME NEW d \in Commands
        PROVE  /\ cpc'[d] = "write" => entries'[Written(d)] = << 0, 0 >>
               /\ cpc'[d] = "write_rest" => entries'[Written(d)] = << writing[d].response, 0 >>
    <3>1. CASE d = c
      BY <3>1, <1>1, <1>4, <1>5, <2>2
    <3>2. CASE d # c
      <4>1. cpc[d] \in {"write", "write_rest"} =>
              Written(d) \in 1..Len(entries) /\ Written(d) # i
        BY <3>2, <1>2, <1>6, <2>1 DEF RespInv, WritersPlaced
      <4> QED
        BY <3>2, <4>1, <1>4, <1>5, <2>1
    <3> QED
      BY <3>1, <3>2
  <2>4. ASSUME NEW j \in 1..Len(entries) PROVE entries'[j][2] \in {0, entries'[j][1]}
    <3>1. CASE j = i
      BY <3>1, <1>1, <1>4, <2>2
    <3>2. CASE j # i
      BY <3>2, <1>4, <2>1
    <3> QED
      BY <3>1, <3>2
  <2> QED
    BY <2>1, <2>3, <2>4
<1> QED
  BY <1>7, <1>8, <1>9, <1>10 DEF RespInv

\* The steps that rename, end, forget and clear leave the inodes as they are.
LEMMA QuietStep ==
  \A c \in Commands :
    RespInv /\ (PublishEntry(c) \/ EndRequest(c) \/ WriteFails(c) \/ CommandEnds(c) \/ ClearCache(c))
      => RespInv'
<1> SUFFICES ASSUME NEW c \in Commands, RespInv,
                    PublishEntry(c) \/ EndRequest(c) \/ WriteFails(c) \/ CommandEnds(c) \/ ClearCache(c)
             PROVE  RespInv'
  OBVIOUS
<1>0. NotWriting.inode = 0 /\ NotWriting.response = 0 /\ Nothing.stamp = 0
      /\ Nothing.halves = << 0, 0 >>
      /\ NotWriting \in [inode : 0..Len(entries), response : Numbers]
      /\ Nothing \in [halves : Halves, stamp : Nat]
  BY DEF NotWriting, Nothing, RespInv, RespTypeInv, Halves, Numbers
<1>1. /\ UNCHANGED <<clock, fetched, entries, overlapped>>
      /\ \A d \in Commands : d # c => cpc'[d] = cpc[d]
      /\ cpc'[c] \in {cpc[c], "end", "idle"} /\ (cpc'[c] = cpc[c] => cpc[c] \in {"end", "idle"})
      /\ \A d \in Commands : writing'[d] = writing[d] \/ writing'[d] = NotWriting
      /\ \A d \in Commands : d # c => writing'[d] = writing[d]
      /\ \A d \in Commands : memory'[d] = memory[d] \/ memory'[d] = Nothing
      /\ \A d \in Commands : cnow'[d] \in {cnow[d], 0}
      /\ temporary' \in {temporary, 0} /\ final' \in {final, temporary, 0}
  BY DEF PublishEntry, EndRequest, WriteFails, CommandEnds, ClearCache, CacheGoes, diskVars,
     RespInv, RespTypeInv
<1>2. /\ cpc' \in [Commands -> RespPlaces] /\ cnow' \in [Commands -> Nat]
      /\ memory' \in [Commands -> [halves : Halves, stamp : Nat]]
      /\ writing' \in [Commands -> [inode : 0..Len(entries), response : Numbers]]
  <2>1. /\ cpc \in [Commands -> RespPlaces] /\ cnow \in [Commands -> Nat]
        /\ memory \in [Commands -> [halves : Halves, stamp : Nat]]
        /\ writing \in [Commands -> [inode : 0..Len(entries), response : Numbers]]
        /\ "end" \in RespPlaces /\ "idle" \in RespPlaces
    BY DEF RespInv, RespTypeInv, RespPlaces
  <2>2. \E place \in RespPlaces : cpc' = cpc \/ cpc' = [cpc EXCEPT ![c] = place]
    BY <2>1 DEF PublishEntry, EndRequest, WriteFails, CommandEnds, ClearCache, CacheGoes
  <2>3. \E now \in Nat : cnow' = cnow \/ cnow' = [cnow EXCEPT ![c] = now]
    BY DEF PublishEntry, EndRequest, WriteFails, CommandEnds, ClearCache
  <2>4. memory' = memory \/ memory' = [memory EXCEPT ![c] = Nothing]
    BY DEF PublishEntry, EndRequest, WriteFails, CommandEnds, ClearCache
  <2>5. writing' = writing \/ writing' = [writing EXCEPT ![c] = NotWriting]
    BY DEF PublishEntry, EndRequest, WriteFails, CommandEnds, ClearCache, diskVars
  <2>6. cpc' \in [Commands -> RespPlaces]
    BY <2>1, <2>2
  <2>10. cnow' \in [Commands -> Nat]
    BY <2>1, <2>3
  <2>7. memory' \in [Commands -> [halves : Halves, stamp : Nat]]
    BY <1>0, <2>1, <2>4
  <2>8. writing' \in [Commands -> [inode : 0..Len(entries), response : Numbers]]
    BY <1>0, <2>1, <2>5
  <2> QED
    BY <2>6, <2>7, <2>8, <2>10
<1>3. Numbers' = Numbers /\ Halves' = Halves
  BY <1>1 DEF Numbers, Halves
<1>4. RespTypeInv'
  BY <1>1, <1>2, <1>3 DEF RespInv, RespTypeInv
<1>5. NowPast'
  <2>1. clock \in Nat /\ \A d \in Commands : cnow[d] <= clock
    BY ResponseAssumption DEF RespInv, RespTypeInv, NowPast
  <2>2. ASSUME NEW d \in Commands PROVE cnow'[d] <= clock'
    <3>1. cnow'[d] = cnow[d] \/ cnow'[d] = 0
      BY <1>1
    <3> QED
      BY <3>1, <2>1, <1>1
  <2> QED
    BY <2>2 DEF NowPast
<1>6. WritersPlaced' /\ WritersAlone'
  BY <1>1, WritersKept
<1>7. RememberedSound'
  BY <1>1, MemoryKept
<1> QED
  BY <1>4, <1>5, <1>6, <1>7 DEF RespInv

LEMMA TimeStep == RespInv /\ TimePasses => RespInv'
<1> SUFFICES ASSUME RespInv, TimePasses PROVE RespInv'
  OBVIOUS
<1>1. /\ clock' = clock + 1 /\ clock < MaxClock
      /\ UNCHANGED <<cnow, cpc, memory, fetched, entries, temporary, final, writing, overlapped>>
  BY DEF TimePasses, diskVars
<1>2. RespTypeInv' /\ NowPast'
  BY <1>1, ResponseAssumption DEF RespInv, RespTypeInv, NowPast, Numbers, Halves
<1>3. WritersPlaced' /\ WritersAlone'
  BY <1>1, WritersKept DEF RespInv, RespTypeInv
<1>4. RememberedSound'
  BY <1>1, MemoryKept
<1> QED
  BY <1>2, <1>3, <1>4 DEF RespInv

LEMMA RespStep == RespInv /\ [CacheNext]_cacheVars => RespInv'
<1> SUFFICES ASSUME RespInv, [CacheNext]_cacheVars PROVE RespInv'
  OBVIOUS
<1>1. CASE UNCHANGED cacheVars
  <2>1. UNCHANGED <<clock, fetched, entries, temporary, final, cpc, cnow, memory, writing, overlapped>>
    BY <1>1 DEF cacheVars
  <2> QED
    BY <2>1 DEF RespInv, RespTypeInv, NowPast, WritersPlaced, WritersAlone, RememberedSound, Written,
       Numbers, Halves
<1>2. ASSUME NEW c \in Commands, CacheStep(c) PROVE RespInv'
  BY <1>2, RequestStep, FromDiskStep, FetchStep, OpenTemporaryStep, WriteHalfStep, QuietStep
     DEF CacheStep
<1> QED
  BY <1>1, <1>2, TimeStep DEF CacheNext

\* What a command still serves was less than one TTL old in its memory, and at
\* most one TTL old when it was stamped.
LEMMA RespInvSound == RespInv => ServedSound
<1> SUFFICES ASSUME RespInv, NEW c \in Commands, Remembered(c)
             PROVE  LET halves == memory[c].halves IN
                      /\ halves[1] = halves[2] \/ overlapped
                      /\ clock - fetched[halves[1]] < 2 * TTL
  BY DEF ServedSound
<1> DEFINE halves == memory[c].halves
<1>1. halves # << 0, 0 >> /\ clock - memory[c].stamp < TTL
  BY DEF Remembered
<1>2. /\ 0 \notin {halves[1], halves[2]} /\ (halves[1] = halves[2] \/ overlapped)
      /\ memory[c].stamp - fetched[halves[1]] <= TTL
  BY <1>1 DEF RespInv, RememberedSound
<1>3. halves \in Halves /\ memory[c].stamp \in Nat /\ clock \in Nat /\ fetched \in Seq(Nat)
  BY ResponseAssumption DEF RespInv, RespTypeInv
<1>4. halves[1] \in 1..Len(fetched)
  BY <1>2, <1>3 DEF Halves, Numbers
<1>5. fetched[halves[1]] \in Nat
  BY <1>3, <1>4
<1>6. ASSUME NEW s \in Nat, NEW f \in Nat, clock - s < TTL, s - f <= TTL PROVE clock - f < 2 * TTL
  BY <1>3, <1>6, ResponseAssumption
<1>7. clock - fetched[halves[1]] < 2 * TTL
  <2> HIDE DEF halves
  <2> QED
    BY <1>1, <1>2, <1>3, <1>5, <1>6
<1> QED
  BY <1>2, <1>7

\* The clock, the responses, the inodes and every command keep their types
\* (cache.py).
THEOREM ResponseTypeCorrect == CacheSpec => []RespTypeInv
<1>1. RespInv => RespTypeInv
  BY DEF RespInv
<1> QED
  BY <1>1, InitResponse, RespStep, PTL DEF CacheSpec

LEMMA ServedAlwaysSound == CacheSpec => []ServedSound
BY InitResponse, RespStep, RespInvSound, PTL DEF CacheSpec

\* For any number of launches and of commands and any TTL: what is mounted is
\* the verified content, absent only after a locked recheck met an I/O error,
\* and what is served is one whole response, unless two commands wrote it at
\* once, and younger than twice the TTL (artifact_cache.py, cache.py).
THEOREM CachesAlwaysSound == ArtifactSpec /\ CacheSpec => []CachesSound
<1>1. MountedIsRight /\ ServedSound => CachesSound
  BY DEF CachesSound
<1> QED
  BY <1>1, MountedAlwaysRight, ServedAlwaysSound, PTL

=============================================================================
