-------------------------- MODULE AlgorithmsProofs --------------------------
(***************************************************************************)
(* What is proved of the algorithms, for every question that may be asked. *)
(* A question is answered once: the proof of a property is about the step  *)
(* that answers it (Answering).                                            *)
(***************************************************************************)
EXTENDS Algorithms, FiniteSetTheorems, WellFoundedInduction, TLAPS

others == <<stage, first, offset, found>>

-----------------------------------------------------------------------------
(* A question is put once, and its answer stays.                           *)
LEMMA ToldIs ==
    ASSUME NEW a, Reply(a)
    PROVE  answer' = {a} /\ Told' = a /\ topic' = topic /\ question' = question
  BY DEF Reply, Told

LEMMA Stays ==
    ASSUME [AlgorithmsNext]_planVars
    PROVE  /\ topic' = topic /\ question' = question
           /\ answer # {} => answer' = answer
<1>1. CASE PlanNext
  BY <1>1 DEF PlanNext, FindFirst, FindNone, FindAlternative, ChooseAnswer, Asked, Reply, enquiry
<1>2. CASE UNCHANGED planVars
  BY <1>2 DEF planVars, enquiry
<1>3. CASE \/ ChooseStop \/ LookAround \/ LinkStops
           \/ BuildNetwork \/ Flatten \/ CompareEditions
  BY <1>3 DEF ChooseStop, LookAround, LinkStops, BuildNetwork, Flatten, CompareEditions, Asked, Reply
<1>4. CASE \/ MatchStop \/ AttachTrips \/ Collapse \/ JoinSources \/ InterpolatePosition
           \/ Import \/ Export \/ MergeProviders
  BY <1>4 DEF MatchStop, AttachTrips, Collapse, JoinSources, InterpolatePosition, Import,
     Export, MergeProviders, Asked, Reply
<1> QED
  BY <1>1, <1>2, <1>3, <1>4 DEF AlgorithmsNext

LEMMA Answering ==
    ASSUME [AlgorithmsNext]_planVars
    PROVE  /\ topic = "stop" => ChooseStop \/ answer' = answer
           /\ topic = "around" => LookAround \/ answer' = answer
           /\ topic = "links" => LinkStops \/ answer' = answer
           /\ topic = "intercity" => BuildNetwork \/ answer' = answer
           /\ topic = "flatten" => Flatten \/ answer' = answer
           /\ topic = "match" => MatchStop \/ answer' = answer
           /\ topic = "attach" => AttachTrips \/ answer' = answer
           /\ topic = "merge" => MergeProviders \/ answer' = answer
           /\ topic = "import" => Import \/ answer' = answer
           /\ topic = "collapse" => Collapse \/ answer' = answer
           /\ topic = "export" => Export \/ answer' = answer
           /\ topic = "join" => JoinSources \/ answer' = answer
           /\ topic = "plan" => PlanNext \/ UNCHANGED planVars
<1>1. CASE PlanNext
  BY <1>1 DEF PlanNext, FindFirst, FindNone, FindAlternative, ChooseAnswer, Asked
<1>2. CASE UNCHANGED planVars
  BY <1>2 DEF planVars, enquiry
<1>3. CASE \/ ChooseStop \/ LookAround \/ LinkStops
           \/ BuildNetwork \/ Flatten \/ CompareEditions
  BY <1>3 DEF ChooseStop, LookAround, LinkStops, BuildNetwork, Flatten, CompareEditions, Asked
<1>4. CASE \/ MatchStop \/ AttachTrips \/ Collapse \/ JoinSources \/ InterpolatePosition
           \/ Import \/ Export \/ MergeProviders
  BY <1>4 DEF MatchStop, AttachTrips, Collapse, JoinSources, InterpolatePosition, Import,
     Export, MergeProviders, Asked
<1> QED
  BY <1>1, <1>2, <1>3, <1>4 DEF AlgorithmsNext

(* The question that was put is one of those that may be.                  *)
Questioned == topic \in DOMAIN Enquiries /\ question \in Enquiries[topic]

LEMMA QuestionedInit == PlanInit => Questioned /\ answer = {}
  BY DEF PlanInit, EnquiryInit, Questioned

LEMMA QuestionedStays == Questioned /\ [AlgorithmsNext]_planVars => Questioned'
  BY Stays DEF Questioned

-----------------------------------------------------------------------------
(* Numbers have least ones.                                                *)
LEMMA LeastOf ==
    ASSUME NEW T \in SUBSET Nat, T # {}
    PROVE  \E n \in T : \A m \in T : n <= m
<1>1. PICK n \in T : \A m \in T : ~(<<m, n>> \in OpToRel(<, Nat))
  BY NatLessThanWellFounded, WFMin
<1>2. ASSUME NEW m \in T
      PROVE  ~(m < n)
  <2>1. <<m, n>> \in Nat \X Nat
    OBVIOUS
  <2>2. m < n => <<m, n>> \in OpToRel(<, Nat)
    BY <2>1 DEF OpToRel
  <2> QED
    BY <1>1, <2>2
<1> QED
  BY <1>2

(* Induction, and recursion, up to a number.                               *)
LEMMA UpTo ==
    ASSUME NEW N \in Nat, NEW T, 0 \in T, \A n \in 1..N : n - 1 \in T => n \in T
    PROVE  \A n \in 0..N : n \in T
<1> DEFINE missing == {n \in 0..N : n \notin T}
<1> SUFFICES ASSUME missing # {}
             PROVE  FALSE
  OBVIOUS
<1>1. PICK n \in missing : \A m \in missing : n <= m
  <2>1. missing \in SUBSET Nat
    OBVIOUS
  <2> HIDE DEF missing
  <2> QED
    BY <2>1, LeastOf
<1>2. n \in 1..N /\ n - 1 \in 0..N /\ ~(n <= n - 1)
  BY <1>1
<1> QED
  BY <1>1, <1>2

LEMMA Recursion ==
    ASSUME NEW N \in Nat, NEW V, NEW base \in V, NEW step \in [(1..N) \X V -> V]
    PROVE  \E g \in [0..N -> V] :
              g[0] = base /\ \A n \in 1..N : g[n] = step[<<n, g[n - 1]>>]
<1> DEFINE solves(k, g) == g[0] = base /\ \A n \in 1..k : g[n] = step[<<n, g[n - 1]>>]
           T == {k \in 0..N : \E g \in [0..k -> V] : solves(k, g)}
<1>1. 0 \in T
  <2> DEFINE g == [n \in 0..0 |-> base]
  <2>1. g \in [0..0 -> V] /\ solves(0, g)
    OBVIOUS
  <2>2. 0 \in 0..N
    OBVIOUS
  <2> HIDE DEF g, solves
  <2> QED
    BY <2>1, <2>2
<1>2. ASSUME NEW k \in 1..N, k - 1 \in T
      PROVE  k \in T
  <2>1. PICK h \in [0..(k - 1) -> V] : solves(k - 1, h)
    BY <1>2
  <2> DEFINE g == [n \in 0..k |-> IF n = k THEN step[<<k, h[k - 1]>>] ELSE h[n]]
  <2>2. k \in 1..N /\ k - 1 \in 0..(k - 1) /\ h[k - 1] \in V
    OBVIOUS
  <2>3. step[<<k, h[k - 1]>>] \in V
    BY <2>2
  <2>4. \A n \in 0..k : n # k => n \in 0..(k - 1)
    OBVIOUS
  <2>5. g \in [0..k -> V]
    BY <2>3, <2>4
  <2>6. solves(k, g)
    <3>1. g[0] = base
      BY <2>1, <2>2
    <3>2. ASSUME NEW n \in 1..k
          PROVE  g[n] = step[<<n, g[n - 1]>>]
      <4>1. n \in 0..k /\ n - 1 \in 0..k /\ n - 1 # k
        BY <3>2
      <4>2. g[n - 1] = h[n - 1]
        BY <4>1
      <4>3. CASE n = k
        BY <4>1, <4>2, <4>3
      <4>4. CASE n # k
        <5>1. n \in 1..(k - 1) /\ g[n] = h[n]
          BY <4>1, <4>4
        <5> QED
          BY <2>1, <4>2, <5>1
      <4> QED
        BY <4>3, <4>4
    <3> QED
      BY <3>1, <3>2
  <2> HIDE DEF g, solves
  <2> QED
    BY <2>2, <2>5, <2>6
<1> HIDE DEF T
<1>3. N \in T
  BY <1>1, <1>2, UpTo
<1> QED
  BY <1>3 DEF T

-----------------------------------------------------------------------------
(* The stop a journey is planned from or to.                               *)
LEMMA FirstOfMembers ==
    ASSUME NEW classes, NEW n \in Nat, DOMAIN classes = 1..n, NEW s \in FirstOf(classes)
    PROVE  \E i \in 1..n :
              s \in classes[i] /\ \A k \in 1..n : k < i => classes[k] = {}
<1> DEFINE some == {i \in 1..n : classes[i] # {}}
<1>1. PICK i \in some : s \in classes[i] /\ \A k \in some : i <= k
  BY DEF FirstOf
<1>2. ASSUME NEW k \in 1..n, k < i
      PROVE  classes[k] = {}
  BY <1>1, <1>2
<1> QED
  BY <1>1, <1>2

LEMMA FirstOfAny ==
    ASSUME NEW classes, NEW n \in Nat, DOMAIN classes = 1..n,
           NEW j \in 1..n, classes[j] # {}
    PROVE  FirstOf(classes) # {}
<1> DEFINE some == {i \in 1..n : classes[i] # {}}
<1>1. some \in SUBSET Nat /\ some # {}
  OBVIOUS
<1>2. PICK i \in some : \A k \in some : i <= k
  BY <1>1, LeastOf
<1>3. classes[i] \subseteq FirstOf(classes) /\ classes[i] # {}
  BY <1>2 DEF FirstOf
<1> QED
  BY <1>3

LEMMA FirstExists ==
    ASSUME Questioned, topic = "stop", NEW S \in SUBSET question.stops, S # {}
    PROVE  First(S) # {}
<1>1. \A s \in S : s.distance \in Nat /\ s.id \in Nat
  BY StopChoiceAssumption DEF Questioned
<1> DEFINE D == {s.distance : s \in S}
           I == {s.id : s \in Closest(S)}
<1>2. PICK d \in D : \A m \in D : d <= m
  <2>1. D \in SUBSET Nat /\ D # {}
    BY <1>1
  <2> HIDE DEF D
  <2> QED
    BY <2>1, LeastOf
<1>3. Closest(S) # {} /\ Closest(S) \subseteq S
  BY <1>2 DEF Closest
<1>4. PICK n \in I : \A m \in I : n <= m
  <2>1. I \in SUBSET Nat /\ I # {}
    BY <1>1, <1>3
  <2> HIDE DEF I
  <2> QED
    BY <2>1, LeastOf
<1> QED
  BY <1>4 DEF First

Idle(s) == s.village /\ ~s.hub /\ ~(question.begins /\ s.origin)

LEMMA ByCoordinatesWell ==
    ASSUME NEW s \in ByCoordinates
    PROVE  s \in InReach /\ (Idle(s) => \A t \in InReach : t.village \/ ~t.indexed)
<1> DEFINE classes == <<Origin(Town(Found)), Origin(Found), Town(Found), Found>>
<1>1. s \in FirstOf(classes)
  BY DEF ByCoordinates, First, Closest
<1>2. DOMAIN classes = 1..4 /\ 4 \in Nat
  OBVIOUS
<1>3. PICK i \in 1..4 : s \in classes[i] /\ \A k \in 1..4 : k < i => classes[k] = {}
  <2> HIDE DEF classes
  <2> QED
    BY <1>1, <1>2, FirstOfMembers
<1>4. s \in Found /\ Found \subseteq InReach
  <2>1. i = 1 \/ i = 2 \/ i = 3 \/ i = 4
    BY <1>3
  <2> QED
    BY <1>3, <2>1 DEF Origin, Town, Found
<1>5. ASSUME Idle(s)
      PROVE  \A t \in InReach : t.village \/ ~t.indexed
  <2>1. i = 4
    <3>1. s \notin classes[1] /\ s \notin classes[2] /\ s \notin classes[3]
      BY <1>5 DEF Idle, Origin, Town
    <3> QED
      BY <1>3, <3>1
  <2>2. Town(Found) = {}
    BY <1>3, <2>1
  <2>3. ASSUME NEW t \in InReach, t.indexed
        PROVE  t.village
    <3>1. t \in Found
      BY <2>3 DEF Found
    <3> QED
      BY <2>2, <3>1 DEF Town
  <2> QED
    BY <2>3
<1> QED
  BY <1>4, <1>5

LEMMA PickedWell ==
    ASSUME Questioned, topic = "stop", NEW C \in SUBSET InReach, C # {}, NEW s \in Picked(C)
    PROVE  s \in InReach /\ (Idle(s) => \A t \in InReach : t.village \/ ~t.indexed)
<1> DEFINE named == <<Hub(Town(C)), Origin(Town(C)), Origin(C), Hub(C)>>
           instead == <<Hub(Town(InReach)), Hub(InReach), Origin(Town(InReach)),
                       Origin(InReach), Town(InReach)>>
<1>1. DOMAIN named = 1..4 /\ DOMAIN instead = 1..5 /\ 4 \in Nat /\ 5 \in Nat
  OBVIOUS
<1>2. CASE s \in PickedByName(C)
  <2>1. s \in FirstOf(named)
    BY <1>2 DEF PickedByName, Closest
  <2>2. PICK i \in 1..4 : s \in named[i]
    <3> HIDE DEF named
    <3> QED
      BY <1>1, <2>1, FirstOfMembers
  <2>3. s \in C /\ ~Idle(s)
    <3>1. i = 1 \/ i = 2 \/ i = 3 \/ i = 4
      BY <2>2
    <3> QED
      BY <2>2, <3>1 DEF Hub, Origin, Town, Idle
  <2> QED
    BY <2>3
<1>3. CASE s \in PickedInstead
  <2>1. s \in FirstOf(instead)
    BY <1>3 DEF PickedInstead, First, Closest
  <2>2. PICK i \in 1..5 : s \in instead[i]
    <3> HIDE DEF instead
    <3> QED
      BY <1>1, <2>1, FirstOfMembers
  <2>3. s \in InReach /\ ~Idle(s)
    <3>1. i = 1 \/ i = 2 \/ i = 3 \/ i = 4 \/ i = 5
      BY <2>2
    <3> QED
      BY <2>2, <3>1 DEF Hub, Origin, Town, Idle
  <2> QED
    BY <2>3
<1>4. CASE s \in Closest(C) /\ PickedInstead = {}
  <2>1. s \in InReach
    BY <1>4 DEF Closest
  <2>2. FirstOf(instead) = {}
    <3>1. FirstOf(instead) \subseteq question.stops
      <4> SUFFICES ASSUME NEW t \in FirstOf(instead)
                   PROVE  t \in question.stops
        OBVIOUS
      <4>1. PICK i \in 1..5 : t \in instead[i]
        <5> HIDE DEF instead
        <5> QED
          BY <1>1, FirstOfMembers
      <4>2. i = 1 \/ i = 2 \/ i = 3 \/ i = 4 \/ i = 5
        BY <4>1
      <4> QED
        BY <4>1, <4>2 DEF Hub, Origin, Town, InReach
    <3>2. First(FirstOf(instead)) = {}
      BY <1>4 DEF PickedInstead
    <3> HIDE DEF instead
    <3> QED
      BY <3>1, <3>2, FirstExists
  <2>3. Town(InReach) = {}
    <3>1. instead[5] = {}
      <4> HIDE DEF instead
      <4> SUFFICES ASSUME instead[5] # {}
                   PROVE  FALSE
        OBVIOUS
      <4>1. 5 \in 1..5
        OBVIOUS
      <4>2. FirstOf(instead) # {}
        BY <1>1, <4>1, FirstOfAny
      <4> QED
        BY <2>2, <4>2
    <3> QED
      BY <3>1
  <2> QED
    BY <2>1, <2>3 DEF Town
<1> QED
  BY <1>2, <1>3, <1>4 DEF Picked

LEMMA ChosenWell ==
    ASSUME Questioned, topic = "stop", NEW s \in Chosen
    PROVE  s \in InReach /\ (Idle(s) => \A t \in InReach : t.village \/ ~t.indexed)
<1>1. /\ \A how : Agreeing(how) \in SUBSET InReach
      /\ \/ s \in ByCoordinates
         \/ \E how : Agreeing(how) # {} /\ s \in Picked(Agreeing(how))
  <2>1. \A how : Agreeing(how) \in SUBSET InReach
    BY DEF Agreeing
  <2> QED
    BY <2>1 DEF Chosen
<1> QED
  BY <1>1, ByCoordinatesWell, PickedWell

(***************************************************************************)
(* Whatever the stops in reach, the stop of a village that is neither a    *)
(* terminal nor an origin is only chosen where the search sees no stop of  *)
(* a town.                                                                 *)
(***************************************************************************)
THEOREM VillagesComeLast == AlgorithmsSpec => []VillageLast
<1>1. PlanInit => Questioned /\ VillageLast
  BY QuestionedInit DEF VillageLast, Replied
<1>2. Questioned /\ VillageLast /\ [AlgorithmsNext]_planVars => VillageLast'
  <2> SUFFICES ASSUME Questioned, VillageLast, [AlgorithmsNext]_planVars, topic = "stop"
               PROVE  VillageLast'
    BY Stays DEF VillageLast, Replied
  <2>1. CASE answer' = answer
    BY <2>1, Stays DEF VillageLast, Replied, Told, InReach, Origin
  <2>2. CASE ChooseStop
    <3>1. PICK s : Reply(s) /\ (s \in Chosen \/ s = NoStop)
      BY <2>2 DEF ChooseStop
    <3>2. Told' = s /\ question' = question /\ NoStop' = NoStop
      BY <3>1, ToldIs DEF NoStop
    <3>3. CASE s = NoStop
      BY <3>2, <3>3 DEF VillageLast
    <3>4. CASE s \in Chosen
      <4>1. s \in InReach /\ (Idle(s) => \A t \in InReach : t.village \/ ~t.indexed)
        BY <3>4, ChosenWell
      <4>2. InReach' = InReach
        BY <3>2 DEF InReach
      <4> QED
        BY <3>2, <4>1, <4>2 DEF VillageLast, Idle, Origin
    <3> QED
      BY <3>1, <3>3, <3>4
  <2> QED
    BY <2>1, <2>2, Answering
<1> QED
  BY <1>1, <1>2, QuestionedStays, PTL DEF AlgorithmsSpec

-----------------------------------------------------------------------------
(* Grids: what is near is in a cell that is near.                          *)
LEMMA AtMost ==
    ASSUME NEW d \in Int, NEW e \in Int, NEW r \in Nat, d * d + e * e <= r * r
    PROVE  d <= r
<1>1. e * e >= 0
  OBVIOUS
<1>2. ASSUME d > r
      PROVE  d * d > r * r
  BY <1>2
<1> QED
  BY <1>1, <1>2

LEMMA DivFacts ==
    ASSUME NEW x \in Int, NEW w \in Nat \ {0}
    PROVE  x \div w \in Int /\ w * (x \div w) <= x /\ x < w * (x \div w) + w
  OBVIOUS

LEMMA CellsApart ==
    ASSUME NEW x \in Int, NEW y \in Int, NEW w \in Nat \ {0}, NEW n \in Nat, x - y <= n * w
    PROVE  x \div w - y \div w <= n
<1> DEFINE a == x \div w
           b == y \div w
<1>1. a \in Int /\ b \in Int /\ w * a <= x /\ y < w * b + w
  BY DivFacts
<1> HIDE DEF a, b
<1>2. ASSUME a - b >= n + 1
      PROVE  FALSE
  <2>1. w * (a - b) >= w * (n + 1)
    BY <1>1, <1>2
  <2>2. w * (a - b) = w * a - w * b /\ w * (n + 1) = n * w + w
    BY <1>1
  <2> QED
    BY <1>1, <2>1, <2>2
<1> QED
  BY <1>1, <1>2 DEF a, b

LEMMA WithinFacts ==
    ASSUME NEW a, NEW b, IsPoint(a), IsPoint(b), NEW r \in Nat, Within(a, b, r)
    PROVE  /\ Within(b, a, r)
           /\ a.x - b.x <= r /\ b.x - a.x <= r /\ a.y - b.y <= r /\ b.y - a.y <= r
<1>1. PICK d \in Int, e \in Int : d = a.x - b.x /\ e = a.y - b.y
  BY DEF IsPoint
<1>2. b.x - a.x = -d /\ b.y - a.y = -e
  BY <1>1 DEF IsPoint
<1>3. /\ d * d + e * e <= r * r /\ e * e + d * d <= r * r
      /\ (-d) * (-d) + (-e) * (-e) <= r * r /\ (-e) * (-e) + (-d) * (-d) <= r * r
  BY <1>1 DEF Within
<1>4. d <= r /\ e <= r /\ -d <= r /\ -e <= r
  <2>1. -d \in Int /\ -e \in Int
    OBVIOUS
  <2> QED
    BY <1>3, <2>1, AtMost
<1> QED
  BY <1>1, <1>2, <1>3, <1>4 DEF Within

(* Of two stops within the side of a square one is in the cell of the      *)
(* other or in one of the four neighbours that are looked at.              *)
LEMMA NeighboursMeet ==
    ASSUME NEW a, NEW b, IsPoint(a), IsPoint(b), NEW r \in 0..Square, Within(a, b, r)
    PROVE  \/ \E o \in Offsets : CellOf(b) = <<CellOf(a)[1] + o[1], CellOf(a)[2] + o[2]>>
           \/ \E o \in Offsets : CellOf(a) = <<CellOf(b)[1] + o[1], CellOf(b)[2] + o[2]>>
<1> DEFINE i == a.y \div Square
           j == a.x \div Square
           k == b.y \div Square
           l == b.x \div Square
<1>1. i \in Int /\ j \in Int /\ k \in Int /\ l \in Int
  BY WalkGridAssumption, DivFacts DEF IsPoint
<1>2. i - k <= 1 /\ k - i <= 1 /\ j - l <= 1 /\ l - j <= 1
  <2>1. /\ a.x - b.x <= 1 * Square /\ b.x - a.x <= 1 * Square
        /\ a.y - b.y <= 1 * Square /\ b.y - a.y <= 1 * Square
    <3>1. Square \in Nat /\ r \in Nat /\ r <= Square
      BY WalkGridAssumption
    <3> QED
      BY <3>1, WithinFacts DEF IsPoint
  <2> QED
    BY <2>1, WalkGridAssumption, CellsApart DEF IsPoint
<1>3. CellOf(a) = <<i, j>> /\ CellOf(b) = <<k, l>>
  BY DEF CellOf
<1> HIDE DEF i, j, k, l
<1>4. \A p, q : <<p, q>>[1] = p /\ <<p, q>>[2] = q
  OBVIOUS
<1>5. /\ <<0, 0>> \in Offsets /\ <<1, 0>> \in Offsets /\ <<0, 1>> \in Offsets
      /\ <<1, 1>> \in Offsets /\ <<1, -1>> \in Offsets
  BY DEF Offsets
<1>6. CASE (k = i /\ l = j) \/ (k = i + 1 /\ l = j) \/ (k = i /\ l = j + 1)
           \/ (k = i + 1 /\ l = j + 1) \/ (k = i + 1 /\ l = j - 1)
  <2>1. \E o \in Offsets : k = i + o[1] /\ l = j + o[2]
    BY <1>1, <1>4, <1>5, <1>6
  <2> QED
    BY <1>3, <2>1
<1>7. CASE (i = k + 1 /\ j = l) \/ (i = k /\ j = l + 1)
           \/ (i = k + 1 /\ j = l + 1) \/ (i = k + 1 /\ j = l - 1)
  <2>1. \E o \in Offsets : i = k + o[1] /\ j = l + o[2]
    BY <1>1, <1>4, <1>5, <1>7
  <2> QED
    BY <1>3, <2>1
<1>8. (k = i - 1 \/ k = i \/ k = i + 1) /\ (l = j - 1 \/ l = j \/ l = j + 1)
  BY <1>1, <1>2
<1>9. /\ k = i - 1 => i = k + 1
      /\ l = j - 1 => j = l + 1
      /\ l = j + 1 => j = l - 1
      /\ k = i => i = k
      /\ l = j => j = l
  BY <1>1
<1>10. \/ \/ (k = i /\ l = j) \/ (k = i + 1 /\ l = j) \/ (k = i /\ l = j + 1)
          \/ (k = i + 1 /\ l = j + 1) \/ (k = i + 1 /\ l = j - 1)
       \/ \/ (i = k + 1 /\ j = l) \/ (i = k /\ j = l + 1)
          \/ (i = k + 1 /\ j = l + 1) \/ (i = k + 1 /\ j = l - 1)
  BY <1>8, <1>9, Zenon
<1> QED
  BY <1>6, <1>7, <1>10, Zenon

LEMMA LinksWell ==
    ASSUME Questioned, topic = "links"
    PROVE  WalkTransfers(question.stops, question.links, question.reach)
              = question.links \cup
                  {<<p[1].id, p[2].id>> :
                      p \in {r \in question.stops \X question.stops :
                              /\ r[1] # r[2] /\ ~r[1].provisional /\ ~r[2].provisional
                              /\ Within(r[1], r[2], question.reach)}}
<1> DEFINE stops == question.stops
           reach == question.reach
           met(p) == \E o \in Offsets :
                        CellOf(p[2]) = <<CellOf(p[1])[1] + o[1], CellOf(p[1])[2] + o[2]>>
           near == {r \in stops \X stops :
                        /\ r[1] # r[2] /\ ~r[1].provisional /\ ~r[2].provisional
                        /\ Within(r[1], r[2], reach)}
           pairs == {p \in stops \X stops :
                        /\ p[1] # p[2] /\ ~p[1].provisional /\ ~p[2].provisional
                        /\ met(p)
                        /\ Within(p[1], p[2], reach)}
<1>1. reach \in 0..Square /\ reach \in Nat /\ \A s \in stops : IsPoint(s)
  BY WalkGridAssumption DEF Questioned
<1>2. ASSUME NEW p \in near
      PROVE  <<p[2], p[1]>> \in near /\ (p \in pairs \/ <<p[2], p[1]>> \in pairs)
  <2>1. PICK a \in stops, b \in stops : p = <<a, b>>
    OBVIOUS
  <2>2. /\ a # b /\ ~a.provisional /\ ~b.provisional /\ Within(a, b, reach)
        /\ IsPoint(a) /\ IsPoint(b)
    BY <1>1, <2>1
  <2>3. Within(b, a, reach)
    BY <1>1, <2>2, WithinFacts
  <2>4. met(<<a, b>>) \/ met(<<b, a>>)
    BY <1>1, <2>2, NeighboursMeet
  <2> HIDE DEF met
  <2> QED
    BY <2>1, <2>2, <2>3, <2>4
<1>3. pairs \subseteq near
  OBVIOUS
<1>4. WalkTransfers(stops, question.links, reach)
        = question.links \cup {<<p[1].id, p[2].id>> : p \in pairs}
                         \cup {<<p[2].id, p[1].id>> : p \in pairs}
  BY DEF WalkTransfers
<1> HIDE DEF pairs
<1>5. {<<p[1].id, p[2].id>> : p \in pairs} \cup {<<p[2].id, p[1].id>> : p \in pairs}
        = {<<p[1].id, p[2].id>> : p \in near}
  <2>1. ASSUME NEW p \in near
        PROVE  \/ \E q \in pairs : <<p[1].id, p[2].id>> = <<q[1].id, q[2].id>>
               \/ \E q \in pairs : <<p[1].id, p[2].id>> = <<q[2].id, q[1].id>>
    <3>1. CASE p \in pairs
      BY <3>1
    <3>2. CASE <<p[2], p[1]>> \in pairs
      BY <3>2
    <3> QED
      BY <1>2, <3>1, <3>2
  <2>2. ASSUME NEW p \in pairs
        PROVE  \E q \in near : <<p[2].id, p[1].id>> = <<q[1].id, q[2].id>>
    <3>1. <<p[2], p[1]>> \in near
      BY <1>2, <1>3
    <3> QED
      BY <3>1
  <2> HIDE DEF near
  <2> QED
    BY <1>3, <2>1, <2>2
<1> QED
  BY <1>4, <1>5

(***************************************************************************)
(* Wherever the borders of the squares run, the footpaths that are added   *)
(* are those between all stops in reach of one another.                    *)
(***************************************************************************)
THEOREM AllLinksAreFound == AlgorithmsSpec => []LinksComplete
<1>1. PlanInit => Questioned /\ LinksComplete
  BY QuestionedInit DEF LinksComplete, Replied
<1>2. Questioned /\ LinksComplete /\ [AlgorithmsNext]_planVars => LinksComplete'
  <2> SUFFICES ASSUME Questioned, LinksComplete, [AlgorithmsNext]_planVars, topic = "links"
               PROVE  LinksComplete'
    BY Stays DEF LinksComplete, Replied
  <2>1. CASE answer' = answer
    BY <2>1, Stays DEF LinksComplete, Replied, Told
  <2>2. CASE LinkStops
    BY <2>2, ToldIs, LinksWell DEF LinkStops, LinksComplete
  <2> QED
    BY <2>1, <2>2, Answering
<1> QED
  BY <1>1, <1>2, QuestionedStays, PTL DEF AlgorithmsSpec

(* What an answer of the index has to be.                                  *)
FindsAll(q, told) ==
    LET near  == {s \in q.stops : HasPosition(s)}
        north == {s \in near : s.y >= 0}
    IN /\ \A s \in told.nearest : s \in near /\ Within(q.at, s, q.reach)
       /\ q.reach <= Cells(q.reach) * Wide =>
            /\ {s \in north : Within(q.at, s, q.reach)} \subseteq told.nearest
            /\ \A s, t \in north :
                 s.id # t.id /\ Within(s, t, q.reach) =>
                     Cardinality({p \in told.pairs : {p[1], p[2]} = {s, t}}) = 1

LEMMA CeilFacts ==
    ASSUME NEW r \in Nat, NEW t \in Nat \ {0}
    PROVE  (r + t - 1) \div t + 1 \in Nat /\ r <= ((r + t - 1) \div t + 1) * t
  OBVIOUS

(* What is in reach is in the cells that are looked at, if these are wide  *)
(* enough together and it is not south of the equator; they are tall       *)
(* enough.                                                                 *)
LEMMA WithinIsAround ==
    ASSUME NEW a, NEW b, IsPoint(a), IsPoint(b), NEW r \in Nat, Within(a, b, r),
           r <= Cells(r) * Wide, b.y >= 0
    PROVE  Around(a, b, r)
<1> DEFINE n == Cells(r)
<1>1. /\ Tall \in Nat \ {0} /\ Wide \in Nat \ {0}
      /\ a.x \in Int /\ a.y \in Int /\ b.x \in Int /\ b.y \in Int
  BY WalkGridAssumption DEF IsPoint
<1>2. n \in Nat /\ r <= n * Tall
  BY <1>1, CeilFacts DEF Cells
<1>3. a.x - b.x <= r /\ b.x - a.x <= r /\ a.y - b.y <= r /\ b.y - a.y <= r
  BY WithinFacts
<1> HIDE DEF n
<1>4. r <= n * Wide /\ n * Wide \in Int /\ n * Tall \in Int
  BY <1>1, <1>2 DEF n
<1>5. /\ a.x - b.x <= n * Wide /\ b.x - a.x <= n * Wide
      /\ a.y - b.y <= n * Tall /\ b.y - a.y <= n * Tall
  BY <1>1, <1>2, <1>3, <1>4
<1>6. /\ a.x \div Wide - b.x \div Wide <= n /\ b.x \div Wide - a.x \div Wide <= n
      /\ a.y \div Tall - b.y \div Tall <= n /\ b.y \div Tall - a.y \div Tall <= n
  BY <1>1, <1>2, <1>5, CellsApart
<1>7. /\ a.x \div Wide \in Int /\ b.x \div Wide \in Int
      /\ a.y \div Tall \in Int /\ b.y \div Tall \in Int
  BY <1>1, DivFacts
<1>8. \A u \in Int, v \in Int : u - v <= n /\ v - u <= n => v - u \in -n..n
  BY <1>2
<1>9. b.y \div Tall >= 0
  <2>1. b.y \in Nat
    BY <1>1
  <2> QED
    BY <2>1, <1>1
<1>10. KeyColumn(b) = b.x \div Wide
  BY <1>7, <1>9 DEF KeyColumn, Row, Column
<1> QED
  BY <1>6, <1>7, <1>8, <1>10 DEF Around, Row, Column, n

LEMMA NearestWell ==
    ASSUME Questioned, topic = "around", NEW at, IsPoint(at),
           question.reach <= Cells(question.reach) * Wide
    PROVE  \A s \in question.stops :
              s.y >= 0 => (s \in IndexNearest(at, question.stops, question.reach)
                             <=> HasPosition(s) /\ Within(at, s, question.reach))
<1>1. question.reach \in Nat /\ \A s \in question.stops : IsPoint(s)
  BY WalkGridAssumption DEF Questioned
<1> QED
  BY <1>1, WithinIsAround DEF IndexNearest

LEMMA PairsWell ==
    ASSUME Questioned, topic = "around",
           question.reach <= Cells(question.reach) * Wide,
           NEW s \in question.stops, NEW t \in question.stops, HasPosition(s), HasPosition(t),
           s.y >= 0, t.y >= 0, s.id # t.id, Within(s, t, question.reach)
    PROVE  Cardinality({p \in NearbyPairs(question.stops, question.reach) :
                            {p[1], p[2]} = {s, t}}) = 1
<1> DEFINE reach == question.reach
           pairs == NearbyPairs(question.stops, reach)
<1>1. reach \in Nat /\ \A u \in question.stops : IsPoint(u) /\ u.id \in Int
  BY WalkGridAssumption DEF Questioned
<1>2. Within(t, s, reach)
  BY <1>1, WithinFacts
<1>3. ASSUME NEW a \in question.stops, NEW b \in question.stops, b.y >= 0
      PROVE  <<a, b>> \in pairs <=>
                a.id < b.id /\ HasPosition(a) /\ HasPosition(b) /\ Within(a, b, reach)
  <2>1. b \in IndexNearest(a, question.stops, question.reach)
           <=> HasPosition(b) /\ Within(a, b, question.reach)
    BY <1>1, <1>3, NearestWell
  <2>2. <<a, b>> \in pairs <=>
           a.id < b.id /\ HasPosition(a) /\ b \in IndexNearest(a, question.stops, question.reach)
    BY DEF NearbyPairs
  <2> QED
    BY <2>1, <2>2
<1>4. \A p \in pairs : \E a \in question.stops, b \in question.stops : p = <<a, b>>
  BY DEF NearbyPairs
<1> HIDE DEF pairs
<1>5. ASSUME NEW a, NEW b, {a, b} = {s, t}, a.id < b.id
      PROVE  {p \in pairs : {p[1], p[2]} = {s, t}} = {<<a, b>>}
  <2>1. a \in question.stops /\ b \in question.stops /\ <<a, b>> \in pairs
    BY <1>2, <1>3, <1>5
  <2>2. ASSUME NEW p \in pairs, {p[1], p[2]} = {s, t}
        PROVE  p = <<a, b>>
    <3>1. PICK c \in question.stops, d \in question.stops : p = <<c, d>>
      BY <1>4
    <3>3. {c, d} = {a, b}
      BY <1>5, <2>2, <3>1
    <3>2. c.id < d.id
      BY <1>3, <1>5, <2>2, <3>1, <3>3
    <3>4. c = a /\ d = b
      <4>1. a.id \in Int /\ b.id \in Int
        BY <1>1, <2>1
      <4> QED
        BY <1>5, <3>2, <3>3, <4>1
    <3> QED
      BY <3>1, <3>4
  <2> QED
    BY <1>5, <2>1, <2>2
<1>6. PICK a, b : {a, b} = {s, t} /\ a.id < b.id
  <2>1. s.id < t.id \/ t.id < s.id
    BY <1>1
  <2> QED
    BY <2>1
<1>7. {p \in pairs : {p[1], p[2]} = {s, t}} = {<<a, b>>}
  BY <1>5, <1>6
<1>8. Cardinality({<<a, b>>}) = 1
  BY FS_Singleton
<1> QED
  BY <1>7, <1>8 DEF pairs

(***************************************************************************)
(* Whatever the stops and the place asked about, the index tells of none   *)
(* out of reach, and where its cells are wide enough together for the      *)
(* reach it finds all in reach that are not south of the equator and each  *)
(* pair of them once.                                                      *)
(***************************************************************************)
THEOREM AllNearAreFound == AlgorithmsSpec => []IndexFindsAll
<1>1. PlanInit => Questioned /\ IndexFindsAll
  BY QuestionedInit DEF IndexFindsAll, Replied
<1>2. Questioned /\ IndexFindsAll /\ [AlgorithmsNext]_planVars => IndexFindsAll'
  <2> SUFFICES ASSUME Questioned, IndexFindsAll, [AlgorithmsNext]_planVars, topic = "around"
               PROVE  IndexFindsAll'
    BY Stays DEF IndexFindsAll, Replied
  <2>1. CASE answer' = answer
    <3>1. /\ question' = question /\ Told' = Told
          /\ Replied("around")' <=> Replied("around")
      BY <2>1, Stays DEF Replied, Told
    <3>2. Replied("around") => FindsAll(question, Told)
      BY DEF IndexFindsAll, FindsAll
    <3>3. Replied("around")' => FindsAll(question', Told')
      BY <3>1, <3>2
    <3> QED
      BY <3>3 DEF IndexFindsAll, FindsAll
  <2>2. CASE LookAround
    <3>1. /\ question' = question
          /\ Told' = [nearest |-> IndexNearest(question.at, question.stops, question.reach),
                      pairs |-> NearbyPairs(question.stops, question.reach)]
      BY <2>2, ToldIs DEF LookAround
    <3>2. IsPoint(question.at)
      BY WalkGridAssumption DEF Questioned
    <3>3. FindsAll(question, Told')
      BY <3>1, <3>2, NearestWell, PairsWell DEF FindsAll, IndexNearest
    <3>4. FindsAll(question', Told')
      BY <3>1, <3>3
    <3> QED
      BY <3>4 DEF IndexFindsAll, FindsAll
  <2> QED
    BY <2>1, <2>2, Answering
<1> QED
  BY <1>1, <1>2, QuestionedStays, PTL DEF AlgorithmsSpec

-----------------------------------------------------------------------------
(* Sequences and least numbers.                                            *)
LEMMA SeqFacts ==
    ASSUME NEW S, NEW x \in Seq(S)
    PROVE  DOMAIN x \subseteq Nat /\ \A e \in DOMAIN x : x[e] \in S
  OBVIOUS

LEMMA MinIn ==
    ASSUME NEW T \in SUBSET Nat, T # {}
    PROVE  Min(T) \in T
<1>1. \E n \in T : \A m \in T : n <= m
  BY LeastOf
<1> QED
  BY <1>1 DEF Min

-----------------------------------------------------------------------------
(* The decision about a stop.                                              *)
LEMMA NormalizedIn ==
    ASSUME NEW a, NEW b
    PROVE  NormalizedSimilarity(a, b) \in {30, 90, 100}
  BY DEF NormalizedSimilarity, Unlike

LEMMA SimilarityIn ==
    ASSUME NEW a, NEW b
    PROVE  Similarity(a, b) \in {30, 90, 95, 100}
<1>1. ASSUME NEW ca, NEW cb, NEW whole \in {30, 90, 100}
      PROVE  OfCores(ca, cb, whole) \in {30, 90, 95, 100}
  BY DEF OfCores, Unlike
<1> QED
  BY <1>1, NormalizedIn DEF Similarity

LEMMA TrustIn ==
    ASSUME NEW a, NEW b
    PROVE  /\ Trust(a, b) \in {4, 6, 7, 10}
           /\ Trust(a, b) = 10 => Voice(a) # Voice(b) \/ a = "manual"
  BY DEF Trust, Voice

LEMMA PercentIn ==
    ASSUME NEW yes
    PROVE  Percent(yes) \in {0, 100}
  BY DEF Percent

LEMMA GeometryIn ==
    ASSUME NEW a, NEW b, a.place \in Int, b.place \in Int
    PROVE  Geometry(a, b) \in {0, 25, 60, 100}
<1>1. Apart(a, b) \in Int /\ GeoThreshold \in Int
  BY StopMatchAssumption DEF Apart
<1> QED
  BY <1>1 DEF Geometry

LEMMA MeanIn ==
    ASSUME NEW w, NEW f, NEW factor \in Int,
           w.name \in Nat, w.geom \in Nat, w.settlement \in Nat, w.transport \in Nat,
           w.name > 0,
           f.name \in Int, f.geom \in Int, f.settlement \in Int, f.transport \in Int
    PROVE  Mean(w, f, factor) \in Int
<1>1. PICK n \in Int : n = factor * (w.name * f.name + w.geom * f.geom
                + w.settlement * f.settlement + w.transport * f.transport)
  OBVIOUS
<1>2. PICK d \in Int :
        d = w.name + w.geom + w.settlement + w.transport /\ d > 0
  OBVIOUS
<1>3. n \div d \in Int
  BY <1>2
<1> QED
  BY <1>1, <1>2, <1>3 DEF Mean

LEMMA ScoreIn ==
    ASSUME NEW a, NEW b, a.place \in Int, b.place \in Int
    PROVE  ScorePair(a, b) \in Int
<1> DEFINE w == Weights(a, b)
           f == Features(a, b)
<1>1. /\ w.name \in Nat /\ w.geom \in Nat /\ w.settlement \in Nat /\ w.transport \in Nat
      /\ w.name > 0
  BY DEF Weights
<1>2. /\ f.name \in Int /\ f.geom \in Int /\ f.settlement \in Int /\ f.transport \in Int
  <2>1. /\ f.name = Similarity(a.name, b.name) /\ f.geom = Geometry(a, b)
        /\ f.settlement = Percent(SameSettlement(a.settlement, b.settlement))
        /\ f.transport = Percent(a.transport \cap b.transport # {})
    BY DEF Features
  <2>2. /\ Similarity(a.name, b.name) \in Int /\ Geometry(a, b) \in Int
        /\ \A yes : Percent(yes) \in Int
    BY SimilarityIn, GeometryIn, PercentIn
  <2> QED
    BY <2>1, <2>2
<1> HIDE DEF w, f
<1>3. Trust(a.source, b.source) \in Int
  BY TrustIn
<1>4. Mean(w, f, 10 * Trust(a.source, b.source)) \in Int
  BY <1>1, <1>2, <1>3, MeanIn
<1> QED
  BY <1>3, <1>4 DEF ScorePair, Weighted, w, f

LEMMA GreatestOf ==
    ASSUME NEW n \in Nat, NEW scores \in [1..n -> Int], n > 0
    PROVE  \E m \in 1..n : \A j \in 1..n : scores[j] <= scores[m]
<1> DEFINE upTo(k) == \E m \in 1..n : \A j \in 1..k : scores[j] <= scores[m]
           short == {k \in 1..n : ~upTo(k)}
<1> SUFFICES ASSUME ~upTo(n)
             PROVE  FALSE
  OBVIOUS
<1>1. PICK k \in short : \A l \in short : k <= l
  <2>1. short \in SUBSET Nat /\ n \in short
    OBVIOUS
  <2> HIDE DEF short
  <2> QED
    BY <2>1, LeastOf
<1>2. CASE k = 1
  BY <1>1, <1>2
<1>3. CASE k # 1
  <2> USE <1>1
  <2>0. k \in 1..n
    OBVIOUS
  <2>1. k - 1 \in 1..n /\ upTo(k - 1)
    <3>1. k - 1 \in 1..n /\ ~(k <= k - 1)
      BY <1>3
    <3> HIDE DEF upTo
    <3> QED
      BY <1>1, <3>1
  <2>2. PICK m \in 1..n : \A j \in 1..(k - 1) : scores[j] <= scores[m]
    BY <2>1
  <2>3. \A j \in 1..k : j = k \/ j \in 1..(k - 1)
    BY <1>1
  <2>4. CASE scores[k] <= scores[m]
    BY <1>1, <2>2, <2>3, <2>4
  <2>5. CASE scores[m] < scores[k]
    <3>1. ASSUME NEW j \in 1..k
          PROVE  scores[j] <= scores[k]
      <4> HIDE DEF upTo, short
      <4>1. j \in 1..n /\ m \in 1..n /\ k \in 1..n
        BY <2>0, <2>2
      <4>4. scores[j] \in Int /\ scores[k] \in Int /\ scores[m] \in Int
        BY <4>1
      <4>2. CASE j = k
        BY <4>4, <4>2
      <4>3. CASE j \in 1..(k - 1)
        <5>1. scores[j] <= scores[m]
          BY <2>2, <4>3
        <5> QED
          BY <2>5, <4>4, <5>1
      <4> QED
        BY <2>3, <4>2, <4>3
    <3> QED
      BY <1>1, <3>1
  <2> QED
    BY <1>1, <2>2, <2>4, <2>5
<1> QED
  BY <1>2, <1>3

LEMMA BestIn ==
    ASSUME NEW n \in Nat, NEW D \in SUBSET (1..n), D # {}, NEW scores \in [D -> Int]
    PROVE  Best(scores) \in D
<1>1. PICK m \in D : \A j \in D : scores[j] <= scores[m]
  <2>1. PICK d \in D : TRUE
    OBVIOUS
  <2>2. n > 0
    BY <2>1
  <2> DEFINE all == [i \in 1..n |-> IF i \in D THEN scores[i] ELSE scores[d]]
  <2>3. all \in [1..n -> Int]
    BY <2>1
  <2>4. PICK m \in 1..n : \A j \in 1..n : all[j] <= all[m]
    <3> HIDE DEF all
    <3> QED
      BY <2>2, <2>3, GreatestOf
  <2>5. /\ \A j \in D : j \in 1..n /\ all[j] = scores[j]
        /\ m \notin D => all[m] = scores[d]
    OBVIOUS
  <2> HIDE DEF all
  <2>6. CASE m \in D
    BY <2>4, <2>5, <2>6
  <2>7. CASE m \notin D
    BY <2>1, <2>4, <2>5, <2>7
  <2> QED
    BY <2>6, <2>7
<1> DEFINE top == {i \in D : scores[i] = scores[m]}
<1>2. PICK i \in top : \A j \in top : i <= j
  <2>1. top \in SUBSET D /\ D \in SUBSET Nat /\ m \in top
    OBVIOUS
  <2> HIDE DEF top
  <2> QED
    BY <2>1, LeastOf
<1>3. \A j \in D : scores[i] > scores[j] \/ (scores[i] = scores[j] /\ i <= j)
  <2> TAKE j \in D
  <2>1. scores[i] = scores[m] /\ scores[j] <= scores[m] /\ scores[i] \in Int /\ scores[j] \in Int
    BY <1>1, <1>2
  <2> QED
    BY <1>2, <2>1
<1> QED
  BY <1>2, <1>3 DEF Best

LEMMA MatchQuestion ==
    ASSUME Questioned, topic = "match"
    PROVE  /\ question.stop.place \in Int
           /\ question.terms \in Seq(Range(question.terms))
           /\ \A i \in DOMAIN question.terms : question.terms[i].place \in Int
<1>1. question \in Enquiries.match
  BY DEF Questioned
<1> QED
  BY <1>1, StopMatchAssumption

(* A stop that is verified has a terminal, a score and a ground.           *)
LEMMA VerifiedWell ==
    ASSUME NEW stop, stop.place \in Int, NEW n \in Nat, NEW terms, DOMAIN terms \subseteq 1..n,
           \A i \in DOMAIN terms : terms[i].place \in Int,
           NEW class, NEW d, d = Decision(stop, terms, class), d.decision = "verified"
    PROVE  /\ d.best \in DOMAIN terms
           /\ Guard(stop, terms[d.best], class)
           /\ ScorePair(stop, terms[d.best]) >= Threshold
<1> DEFINE D == DOMAIN terms
           scores == Scores(stop, terms)
           best == Best(scores)
<1>2. D # {} /\ d = Band(stop, terms, class, scores, best)
  <2>1. "rejected" # "verified"
    OBVIOUS
  <2> QED
    BY <2>1 DEF Decision, BandOfBest
<1>3. scores \in [D -> Int]
  BY ScoreIn DEF Scores
<1>4. best \in D
  <2> HIDE DEF scores
  <2> QED
    BY <1>2, <1>3, BestIn
<1>5. scores[best] = ScorePair(stop, terms[best])
  BY <1>4 DEF Scores
<1> HIDE DEF scores, best
<1>6. d.best = best /\ scores[best] >= Threshold /\ Guard(stop, terms[best], class)
  BY <1>2 DEF Band
<1> QED
  BY <1>4, <1>5, <1>6

LEMMA DecisionIn ==
    ASSUME NEW stop, NEW terms, NEW class
    PROVE  Decision(stop, terms, class).decision
              \in {"verified", "duplicate_ambiguous", "low_confidence", "rejected"}
<1>1. \A scores, best : Band(stop, terms, class, scores, best).decision
              \in {"verified", "duplicate_ambiguous", "low_confidence", "rejected"}
  BY DEF Band
<1> QED
  BY <1>1 DEF Decision, BandOfBest

(* What an answer about a stop has to be.                                  *)
HasGround(q, told) ==
    told.decision = "verified" =>
        LET stop == q.stop
            best == q.terms[told.best]
        IN /\ \/ CodesEqual(stop, best)
              \/ Located(stop) /\ Located(best) /\ Apart(stop, best) <= GeoThreshold
              \/ /\ q.class # "urban"
                 /\ Voice(stop.source) # Voice(best.source) \/ stop.source = "manual"
           /\ told.covered # {}

LEMMA GuardIsGround ==
    ASSUME NEW a, NEW b, NEW class, Guard(a, b, class)
    PROVE  \/ CodesEqual(a, b)
           \/ Located(a) /\ Located(b) /\ Apart(a, b) <= GeoThreshold
           \/ /\ class # "urban"
              /\ Voice(a.source) # Voice(b.source) \/ a.source = "manual"
  BY TrustIn DEF Guard

LEMMA MatchWell ==
    ASSUME Threshold >= 4000, Questioned, topic = "match",
           NEW d, d = Decision(question.stop, question.terms, question.class)
    PROVE  HasGround(question, [decision |-> d.decision, best |-> d.best,
                covered |-> Covered(<<question.stop>>, question.terms, 4000)])
<1> SUFFICES ASSUME d.decision = "verified"
             PROVE  /\ \/ CodesEqual(question.stop, question.terms[d.best])
                       \/ /\ Located(question.stop) /\ Located(question.terms[d.best])
                          /\ Apart(question.stop, question.terms[d.best]) <= GeoThreshold
                       \/ /\ question.class # "urban"
                          /\ \/ Voice(question.stop.source) # Voice(question.terms[d.best].source)
                             \/ question.stop.source = "manual"
                    /\ Covered(<<question.stop>>, question.terms, 4000) # {}
  BY DEF HasGround
<1>1. /\ d.best \in DOMAIN question.terms
      /\ Guard(question.stop, question.terms[d.best], question.class)
      /\ ScorePair(question.stop, question.terms[d.best]) >= Threshold
  <2>1. /\ question.stop.place \in Int
        /\ question.terms \in Seq(Range(question.terms))
        /\ \A i \in DOMAIN question.terms : question.terms[i].place \in Int
    BY MatchQuestion
  <2>2. PICK n \in Nat : DOMAIN question.terms \subseteq 1..n
    BY <2>1
  <2> QED
    BY <2>1, <2>2, VerifiedWell
<1>2. 1 \in Covered(<<question.stop>>, question.terms, 4000)
  <2>1. question.stop.place \in Int /\ question.terms[d.best].place \in Int
    BY <1>1, MatchQuestion
  <2>2. ScorePair(question.stop, question.terms[d.best]) \in Int /\ Threshold \in Int
    BY <2>1, ScoreIn, StopMatchAssumption
  <2>3. /\ ScorePair(question.stop, question.terms[d.best]) >= 4000
        /\ ScorePair(question.stop, question.terms[d.best]) > 0
    BY <1>1, <2>2
  <2>4. 1 \in DOMAIN <<question.stop>> /\ <<question.stop>>[1] = question.stop
    OBVIOUS
  <2> QED
    BY <1>1, <2>3, <2>4 DEF Covered
<1> QED
  BY <1>1, <1>2, GuardIsGround

(***************************************************************************)
(* Whatever the names, places and sources, a stop is only verified on one  *)
(* of the three grounds, and then counts as covered if the threshold is    *)
(* not below the one of the coverage, forty of a hundred.                  *)
(***************************************************************************)
THEOREM MatchesHaveGround ==
    ASSUME Threshold >= 4000
    PROVE  AlgorithmsSpec => []VerifiedHasGround
<1>1. PlanInit => Questioned /\ VerifiedHasGround
  BY QuestionedInit DEF VerifiedHasGround, Replied
<1>2. Questioned /\ VerifiedHasGround /\ [AlgorithmsNext]_planVars => VerifiedHasGround'
  <2> SUFFICES ASSUME Questioned, VerifiedHasGround, [AlgorithmsNext]_planVars, topic = "match"
               PROVE  VerifiedHasGround'
    BY Stays DEF VerifiedHasGround, Replied
  <2>1. Replied("match")' => HasGround(question', Told')
    <3>1. CASE answer' = answer
      <4>1. /\ question' = question /\ Told' = Told
            /\ Replied("match")' <=> Replied("match")
        BY <3>1, Stays DEF Replied, Told
      <4>2. Replied("match") => HasGround(question, Told)
        BY DEF VerifiedHasGround, HasGround
      <4> QED
        BY <4>1, <4>2
    <3>2. CASE MatchStop
      <4>1. PICK d : /\ d = Decision(question.stop, question.terms, question.class)
                     /\ Reply([decision |-> d.decision, best |-> d.best,
                               covered |-> Covered(<<question.stop>>, question.terms, 4000)])
        BY <3>2 DEF MatchStop
      <4>2. /\ question' = question
            /\ Told' = [decision |-> d.decision, best |-> d.best,
                        covered |-> Covered(<<question.stop>>, question.terms, 4000)]
        BY <4>1, ToldIs
      <4> QED
        BY <4>1, <4>2, MatchWell
    <3> QED
      BY <3>1, <3>2, Answering
  <2> QED
    BY <2>1 DEF VerifiedHasGround, HasGround
<1> QED
  BY <1>1, <1>2, QuestionedStays, PTL DEF AlgorithmsSpec

-----------------------------------------------------------------------------
(* The answers of the planner.  The first journey keeps to the time of the *)
(* question, and of a question about a departure so do all that are found: *)
(* any of them may take its place.                                         *)
AnswerInvariant ==
    topic = "plan" /\ stage = "others" =>
        /\ offset \in Nat
        /\ IF question.byArrival
           THEN first.arr <= question.time
           ELSE first.dep >= question.time /\ \A j \in found : j.dep >= question.time

OffsetKnown == stage = "search" => offset = 0

LEMMA PlanQuestion ==
    ASSUME Questioned, topic = "plan"
    PROVE  /\ question.time \in Int /\ question.access \in Nat
           /\ question.egress \in Nat /\ question.gap \in Nat
           /\ \A r \in question.rides : r.dep \in Nat /\ r.arr \in Nat
           /\ Later \in Nat
<1>1. question \in Enquiries.plan
  BY DEF Questioned
<1> QED
  BY <1>1, PlanAnswerAssumption

LEMMA FirstKeeps ==
    ASSUME Questioned, topic = "plan", NEW j,
           (\E p \in Search(question.time) : j = DoorToDoor(p)) \/ j = OnFoot
    PROVE  IF question.byArrival THEN j.arr <= question.time ELSE j.dep >= question.time
<1> USE PlanQuestion
<1>1. CASE j = OnFoot
  BY <1>1 DEF OnFoot
<1>2. ASSUME NEW p \in Search(question.time), j = DoorToDoor(p), question.byArrival
      PROVE  j.arr <= question.time
  <2>1. p[2] \in question.rides /\ InTime(p[2], question.time)
    BY <1>2 DEF Search, ByArrival
  <2>2. j.arr = p[2].arr + question.egress
    BY <1>2 DEF DoorToDoor
  <2> QED
    BY <2>1, <2>2 DEF InTime, Latest
<1>3. ASSUME NEW p \in Search(question.time), j = DoorToDoor(p), ~question.byArrival
      PROVE  j.dep >= question.time
  BY <1>3 DEF DoorToDoor
<1> QED
  BY <1>1, <1>2, <1>3

LEMMA AlternativeKeeps ==
    ASSUME Questioned, topic = "plan", offset \in Nat, ~question.byArrival,
           NEW p \in Search(LaterTime)
    PROVE  StopToStop(p[2]).dep >= question.time
<1> USE PlanQuestion
<1> DEFINE r == p[2]
<1>1. r \in question.rides /\ r.dep >= LaterTime + question.access
  BY DEF Search, ByDeparture, Earliest
<1>2. (offset + 1) * Later \in Nat
  OBVIOUS
<1>3. StopToStop(r).dep = r.dep - question.access
  BY DEF StopToStop
<1> HIDE DEF r
<1> QED
  BY <1>1, <1>2, <1>3 DEF LaterTime, r

LEMMA AnswerKept ==
    Questioned /\ OffsetKnown /\ AnswerInvariant /\ HonoursTime /\ [AlgorithmsNext]_planVars
        => (OffsetKnown /\ AnswerInvariant /\ HonoursTime)'
<1> SUFFICES ASSUME Questioned, OffsetKnown, AnswerInvariant, HonoursTime,
                    [AlgorithmsNext]_planVars
             PROVE  (OffsetKnown /\ AnswerInvariant /\ HonoursTime)'
  OBVIOUS
<1>1. CASE topic # "plan"
  <2>1. OffsetKnown'
    <3>1. CASE PlanNext
      BY <1>1, <3>1 DEF PlanNext, FindFirst, FindNone, FindAlternative, ChooseAnswer, Asked
    <3>2. CASE UNCHANGED others
      BY <3>2 DEF others, OffsetKnown
    <3> QED
      BY <3>1, <3>2 DEF AlgorithmsNext, planVars, others
  <2> QED
    BY <1>1, <2>1, Stays DEF AnswerInvariant, HonoursTime, Answered, Replied
<1>2. CASE topic = "plan" /\ FindFirst
  <2>1. /\ stage = "search" /\ stage' = "others" /\ found' = {first'} /\ answer = {}
        /\ UNCHANGED <<topic, question, answer, offset>>
        /\ (\E p \in Search(question.time) : first' = DoorToDoor(p)) \/ first' = OnFoot
    BY <1>2 DEF FindFirst, enquiry, Asked
  <2>2. IF question.byArrival THEN first'.arr <= question.time ELSE first'.dep >= question.time
    BY <1>2, <2>1, FirstKeeps
  <2>3. offset = 0
    BY <2>1 DEF OffsetKnown
  <2> QED
    BY <2>1, <2>2, <2>3 DEF OffsetKnown, AnswerInvariant, HonoursTime, Answered, Replied
<1>3. CASE topic = "plan" /\ FindNone
  <2>1. Told'.journey = NoJourney /\ stage = "search"
    BY <1>3, ToldIs DEF FindNone
  <2>2. UNCHANGED <<topic, question, stage, first, offset, found>> /\ NoJourney' = NoJourney
    BY <1>3 DEF FindNone, Reply, NoJourney
  <2> QED
    BY <2>1, <2>2 DEF OffsetKnown, AnswerInvariant, HonoursTime, Answered
<1>4. CASE topic = "plan" /\ FindAlternative
  <2>1. /\ stage = "others" /\ offset' = offset + 1 /\ answer = {}
        /\ UNCHANGED <<topic, question, answer, stage, first>>
    BY <1>4 DEF FindAlternative, enquiry, Asked
  <2>2. offset \in Nat
    BY <1>4, <2>1 DEF AnswerInvariant
  <2>3. ASSUME ~question.byArrival, NEW j \in found'
        PROVE  j.dep >= question.time
    <3>1. \A k \in found : k.dep >= question.time
      BY <1>4, <2>1, <2>3 DEF AnswerInvariant
    <3>2. CASE found' = found
      BY <2>3, <3>1, <3>2
    <3>3. ASSUME NEW p \in Search(LaterTime), found' = Add(StopToStop(p[2]))
          PROVE  j.dep >= question.time
      <4>1. j \in found \/ j = StopToStop(p[2])
        BY <2>3, <3>3 DEF Add
      <4> QED
        BY <1>4, <2>2, <2>3, <3>1, <4>1, AlternativeKeeps
    <3> QED
      BY <1>4, <3>2, <3>3 DEF FindAlternative
  <2> QED
    BY <1>4, <2>1, <2>2, <2>3 DEF OffsetKnown, AnswerInvariant, HonoursTime, Answered, Replied
<1>5. CASE topic = "plan" /\ ChooseAnswer
  <2>1. /\ stage = "others" /\ UNCHANGED <<topic, question, stage, first, offset, found>>
    BY <1>5 DEF ChooseAnswer, Reply
  <2>2. \/ /\ Told'.journey = first
        \/ /\ question.preference = "transfers"
           /\ Told'.journey \in Alternatives
    <3>1. ASSUME NEW j \in Alternatives, TakesPlace(j),
                 Reply([journey |-> j, others |-> {first} \cup (Alternatives \ {j})])
          PROVE  Told'.journey \in Alternatives /\ question.preference = "transfers"
      BY <3>1, ToldIs DEF TakesPlace
    <3>2. ASSUME Reply([journey |-> first, others |-> Alternatives])
          PROVE  Told'.journey = first
      BY <3>2, ToldIs
    <3> QED
      BY <1>5, <3>1, <3>2 DEF ChooseAnswer
  <2>3. Alternatives \subseteq found
    BY DEF Alternatives, Top
  <2>4. IF question.byArrival
        THEN question.preference = "arrival" => Told'.journey.arr <= question.time
        ELSE Told'.journey.dep >= question.time
    <3>1. "arrival" # "transfers"
      OBVIOUS
    <3> QED
      BY <1>5, <2>1, <2>2, <2>3, <3>1 DEF AnswerInvariant
  <2> QED
    BY <2>1, <2>4 DEF OffsetKnown, AnswerInvariant, HonoursTime
<1>6. CASE UNCHANGED planVars
  BY <1>6 DEF planVars, enquiry, OffsetKnown, AnswerInvariant, HonoursTime, Answered, Replied,
     Told, NoJourney
<1> QED
  BY <1>1, <1>2, <1>3, <1>4, <1>5, <1>6, Answering DEF PlanNext

(***************************************************************************)
(* Whatever rides the engine finds, a journey that was asked for by a      *)
(* deadline is there by then if the earliest arrival is preferred, and one *)
(* that was asked for from a time never leaves before it.                  *)
(***************************************************************************)
THEOREM AnswersHonourTime == AlgorithmsSpec => []HonoursTime
<1>1. PlanInit => Questioned /\ OffsetKnown /\ AnswerInvariant /\ HonoursTime
  BY QuestionedInit DEF PlanInit, OffsetKnown, AnswerInvariant, HonoursTime, Answered, Replied
<1> QED
  BY <1>1, AnswerKept, QuestionedStays, PTL DEF AlgorithmsSpec

-----------------------------------------------------------------------------
(* A recursion that stays within V has a solution.                         *)
Recurs(g, N, base, step) == g[0] = base /\ \A n \in 1..N : g[n] = step[<<n, g[n - 1]>>]

LEMMA Solvable ==
    \A N \in Nat : \A V : \A base \in V : \A step \in [(1..N) \X V -> V] :
        \E g \in [0..N -> V] : Recurs(g, N, base, step)
  BY Recursion DEF Recurs

(* A list, and how long it is.                                             *)
Counts(list, N) == Len(list) = N /\ DOMAIN list = 1..N

LEMMA MaxIn ==
    ASSUME NEW N \in Nat, NEW T \in SUBSET (1..N), T # {}
    PROVE  Max(T) \in T /\ \A k \in T : k <= Max(T)
<1> DEFINE U == {N - k : k \in T}
<1>1. U \in SUBSET Nat /\ U # {}
  <2>1. \A k \in T : N - k \in Nat
    OBVIOUS
  <2> QED
    BY <2>1
<1> HIDE DEF U
<1>2. PICK m \in U : \A l \in U : m <= l
  BY <1>1, LeastOf
<1>3. PICK k \in T : m = N - k
  BY <1>2 DEF U
<1>4. \A l \in T : l <= k
  <2> SUFFICES ASSUME NEW l \in T
               PROVE  l <= k
    OBVIOUS
  <2>1. N - l \in U
    BY DEF U
  <2> QED
    BY <1>2, <1>3, <2>1
<1> QED
  BY <1>4 DEF Max

LEMMA SeqCounts ==
    ASSUME NEW list, list \in Seq(Range(list))
    PROVE  \E N \in Nat : Counts(list, N)
  BY DEF Counts

-----------------------------------------------------------------------------
(* The trips of the register.                                              *)
TimelyCalls(S) ==
    {c \in Seq([stop : S, arr : Nat, dep : Nat]) :
        \A i \in DOMAIN c :
            /\ c[i].dep - c[i].arr \in 0..(Day - 1)
            /\ i > 1 => c[i].arr - c[i - 1].dep \in 0..(Day - 1)}

LEMMA NotBeforeIs ==
    ASSUME NEW t \in Nat, NEW p \in Nat, t - p < Day
    PROVE  NotBefore(t, p) \in Nat /\ NotBefore(t, p) - p \in 0..(Day - 1) /\ NotBefore(t, p) >= t
<1>1. Day \in Nat \ {0}
  BY IntercityAssumption
<1>2. CASE t >= p
  <2>1. NotBefore(t, p) = t
    BY <1>1, <1>2 DEF NotBefore
  <2> QED
    BY <1>1, <1>2, <2>1
<1>3. CASE ~(t >= p)
  <2> DEFINE k == (p - t + Day - 1) \div Day
  <2>1. k \in Int /\ Day * k <= p - t + Day - 1 /\ p - t + Day - 1 < Day * k + Day
    BY <1>1, DivFacts
  <2>2. NotBefore(t, p) = t + Day * k
    BY <1>3 DEF NotBefore
  <2> HIDE DEF k
  <2>3. PICK m \in Int : m = Day * k
    BY <1>1, <2>1
  <2> QED
    BY <1>1, <1>3, <2>1, <2>2, <2>3
<1> QED
  BY <1>2, <1>3

LEMMA NotBeforeFirst ==
    ASSUME NEW t \in 0..(Day - 1)
    PROVE  NotBefore(t, -1) = t
  BY IntercityAssumption DEF NotBefore

LEMMA WithCallTimely ==
    ASSUME NEW S, NEW c \in TimelyCalls(S), NEW s \in S,
           NEW arr \in {NoTime} \cup 0..(Day - 1), NEW dep \in {NoTime} \cup 0..(Day - 1),
           arr # NoTime \/ dep # NoTime
    PROVE  WithCall(c, s, arr, dep) \in TimelyCalls(S)
<1> DEFINE R == [stop : S, arr : Nat, dep : Nat]
           last == IF c = <<>> THEN -1 ELSE c[Len(c)].dep
           ta == IF arr = NoTime THEN dep ELSE arr
           td == IF dep = NoTime THEN arr ELSE dep
           a == NotBefore(ta, last)
           d == NotBefore(td + (a - ta), a)
           call == [stop |-> s, arr |-> a, dep |-> d]
<1>1. /\ c \in Seq(R)
      /\ \A i \in DOMAIN c :
            /\ c[i].dep - c[i].arr \in 0..(Day - 1)
            /\ i > 1 => c[i].arr - c[i - 1].dep \in 0..(Day - 1)
  BY DEF TimelyCalls
<1>2. ta \in 0..(Day - 1) /\ td \in 0..(Day - 1) /\ Day \in Nat
  BY IntercityAssumption
<1>3. c # <<>> => Len(c) \in 1..Len(c) /\ c[Len(c)] \in R /\ last \in Nat
  <2>2. \A r \in R : r.dep \in Nat
    OBVIOUS
  <2> HIDE DEF R
  <2>1. c # <<>> => Len(c) \in 1..Len(c) /\ c[Len(c)] \in R
    <3>1. Len(c) \in Nat /\ DOMAIN c = 1..Len(c) /\ (c # <<>> => Len(c) # 0)
      BY <1>1
    <3> QED
      BY <1>1, <3>1
  <2> QED
    BY <2>1, <2>2
<1> HIDE DEF ta, td
<1>4. a \in Nat /\ a >= ta /\ (c # <<>> => a - last \in 0..(Day - 1))
  <2>1. CASE c = <<>>
    <3>1. a = ta
      BY <1>2, <2>1, NotBeforeFirst
    <3> QED
      BY <1>2, <2>1, <3>1
  <2>2. CASE c # <<>>
    <3> HIDE DEF last
    <3>1. ta \in Nat /\ last \in Nat /\ ta - last < Day
      BY <1>2, <1>3, <2>2
    <3> QED
      BY <2>2, <3>1, NotBeforeIs
  <2> QED
    BY <2>1, <2>2
<1>5. d \in Nat /\ d - a \in 0..(Day - 1)
  <2> HIDE DEF a
  <2>1. PICK t \in Int : t = td + (a - ta)
    BY <1>2, <1>4
  <2>2. t \in Nat /\ t - a < Day
    BY <1>2, <1>4, <2>1
  <2>3. NotBefore(t, a) \in Nat /\ NotBefore(t, a) - a \in 0..(Day - 1)
    BY <1>4, <2>2, NotBeforeIs
  <2> QED
    BY <2>1, <2>3
<1>6. WithCall(c, s, arr, dep) = Append(c, call)
  BY DEF WithCall, ta, td
<1>7. c # <<>> => last = c[Len(c)].dep
  OBVIOUS
<1> HIDE DEF a, d, last
<1>8. call \in R /\ call.arr = a /\ call.dep = d
  BY <1>4, <1>5
<1> HIDE DEF call, R
<1>9. /\ Append(c, call) \in Seq(R) /\ Len(c) \in Nat
      /\ DOMAIN Append(c, call) = 1..(Len(c) + 1)
      /\ DOMAIN c = 1..Len(c)
      /\ Append(c, call)[Len(c) + 1] = call
      /\ \A i \in 1..Len(c) : Append(c, call)[i] = c[i]
  BY <1>1, <1>8
<1>10. ASSUME NEW i \in 1..(Len(c) + 1)
       PROVE  /\ Append(c, call)[i].dep - Append(c, call)[i].arr \in 0..(Day - 1)
              /\ i > 1 => Append(c, call)[i].arr - Append(c, call)[i - 1].dep \in 0..(Day - 1)
  <2>1. CASE i \in 1..Len(c)
    <3>1. i > 1 => i - 1 \in 1..Len(c)
      BY <1>9, <2>1
    <3> QED
      BY <1>1, <1>9, <2>1, <3>1
  <2>2. CASE i = Len(c) + 1
    <3>1. i > 1 => i - 1 = Len(c) /\ Len(c) \in 1..Len(c) /\ c # <<>>
      BY <1>9, <2>2
    <3> QED
      BY <1>4, <1>5, <1>7, <1>8, <1>9, <2>2, <3>1
  <2> QED
    BY <1>9, <2>1, <2>2
<1> QED
  BY <1>6, <1>9, <1>10 DEF TimelyCalls, R

LEMMA FlatCallsIn ==
    ASSUME NEW schedule, NEW blocks, NEW run, NEW V, <<>> \in V, NEW N \in Nat, Len(blocks) = N,
           \A n \in 1..N, v \in V :
              (IF Untimed(blocks[n], run) THEN v
               ELSE WithCall(v, schedule.stops[n].stop,
                          CellAt(blocks[n].arr, run).time, CellAt(blocks[n].dep, run).time)) \in V
    PROVE  FlatCalls(schedule, blocks, run) \in V
<1> DEFINE Body(n, v) == 
              IF Untimed(blocks[n], run) THEN v
               ELSE WithCall(v, schedule.stops[n].stop,
                          CellAt(blocks[n].arr, run).time, CellAt(blocks[n].dep, run).time)
           step == [p \in (1..N) \X V |-> Body(p[1], p[2])]
<1>1. PICK g \in [0..N -> V] : g[0] = <<>> /\ \A n \in 1..N : g[n] = Body(n, g[n - 1])
  <2>1. step \in [(1..N) \X V -> V]
    OBVIOUS
  <2>2. \A n \in 1..N, v \in V : step[<<n, v>>] = Body(n, v)
    OBVIOUS
  <2> HIDE DEF step, Body
  <2>3. PICK g \in [0..N -> V] : g[0] = <<>> /\ \A n \in 1..N : g[n] = step[<<n, g[n - 1]>>]
    <3> DEFINE base == <<>>
    <3>1. base \in V
      OBVIOUS
    <3> HIDE DEF base
    <3>2. \E g \in [0..N -> V] :
              g[0] = base /\ \A n \in 1..N : g[n] = step[<<n, g[n - 1]>>]
      BY <2>1, <3>1, Recursion
    <3> QED
      BY <3>2 DEF base
  <2>4. ASSUME NEW n \in 1..N
        PROVE  g[n] = Body(n, g[n - 1])
    <3>1. n - 1 \in 0..N
      OBVIOUS
    <3>2. g[n - 1] \in V
      BY <3>1
    <3> QED
      BY <2>2, <2>3, <3>2
  <2> QED
    BY <2>3, <2>4
<1>2. g = [n \in 0..N |-> IF n = 0 THEN <<>> ELSE Body(n, g[n - 1])]
  <2>1. \A n \in 0..N : n = 0 \/ n \in 1..N
    OBVIOUS
  <2> HIDE DEF Body
  <2> QED
    BY <1>1, <2>1
<1> DEFINE calls[n \in 0..N] ==
              IF n = 0 THEN <<>>
              ELSE IF Untimed(blocks[n], run) THEN calls[n - 1]
               ELSE WithCall(calls[n - 1], schedule.stops[n].stop,
                          CellAt(blocks[n].arr, run).time, CellAt(blocks[n].dep, run).time)
<1>3. calls = [n \in 0..N |-> IF n = 0 THEN <<>> ELSE Body(n, calls[n - 1])]
  BY <1>2 DEF calls
<1>4. FlatCalls(schedule, blocks, run) = calls[N]
  BY DEF FlatCalls
<1> HIDE DEF calls, Body
<1>5. \A n \in 0..N : calls[n] = IF n = 0 THEN <<>> ELSE Body(n, calls[n - 1])
  BY <1>3
<1>6. ASSUME NEW n \in 1..N, calls[n - 1] \in V
      PROVE  calls[n] \in V
  <2>1. calls[n] = Body(n, calls[n - 1])
    BY <1>5
  <2> QED
    BY <1>6, <2>1 DEF Body
<1>7. calls[N] \in V
  <2> DEFINE T == {n \in 0..N : calls[n] \in V}
  <2>1. 0 \in T
    BY <1>5
  <2>2. \A n \in 1..N : n - 1 \in T => n \in T
    BY <1>6
  <2>4. N \in 0..N
    OBVIOUS
  <2> HIDE DEF T
  <2>3. N \in T
    BY <2>1, <2>2, <2>4, UpTo
  <2> QED
    BY <2>3 DEF T
<1> QED
  BY <1>4, <1>7

(* The blocks of a question's schedule.                                    *)
LEMMA BlocksOf ==
    ASSUME Questioned, topic = "flatten"
    PROVE  LET schedule == question.schedule
               blocks == PeriodOf(schedule)
           IN /\ Len(blocks) \in Nat /\ DOMAIN blocks = 1..Len(blocks)
              /\ DOMAIN schedule.stops = 1..Len(blocks)
              /\ \A i \in 1..Len(blocks) : OfTheClock(blocks[i])
<1> DEFINE stops == question.schedule.stops
           blocks == PeriodOf(question.schedule)
<1>1. question \in Enquiries.flatten
  BY DEF Questioned
<1>2. /\ stops \in Seq(Range(stops))
      /\ \A i \in DOMAIN stops : OfTheClock(stops[i].winter) /\ OfTheClock(stops[i].summer)
  BY <1>1, ReestrAssumption
<1> HIDE DEF stops
<1>3. DOMAIN stops = 1..Len(stops) /\ Len(stops) \in Nat
  BY <1>2
<1>4. PICK winter : blocks = [i \in DOMAIN stops |-> IF winter THEN stops[i].winter ELSE stops[i].summer]
  BY DEF PeriodOf, stops
<1>5. /\ DOMAIN blocks = 1..Len(stops)
      /\ \A i \in 1..Len(stops) : OfTheClock(blocks[i])
  BY <1>2, <1>3, <1>4
<1>6. Len(blocks) = Len(stops)
  <2>1. blocks \in Seq({blocks[i] : i \in 1..Len(stops)})
    BY <1>3, <1>4
  <2> HIDE DEF blocks
  <2> QED
    BY <1>3, <1>5, <2>1
<1> QED
  BY <1>3, <1>5, <1>6 DEF stops

LEMMA TimesOfTheClock ==
    ASSUME NEW b, OfTheClock(b), NEW run, ~Untimed(b, run)
    PROVE  /\ CellAt(b.arr, run).time \in {NoTime} \cup 0..(Day - 1)
           /\ CellAt(b.dep, run).time \in {NoTime} \cup 0..(Day - 1)
           /\ CellAt(b.arr, run).time # NoTime \/ CellAt(b.dep, run).time # NoTime
<1>1. NoCell.time = NoTime
  BY DEF NoCell
<1> QED
  BY <1>1 DEF OfTheClock, Untimed, CellAt

LEMMA FlatCallsTimely ==
    ASSUME Questioned, topic = "flatten", NEW run
    PROVE  \E S : FlatCalls(question.schedule, PeriodOf(question.schedule), run) \in TimelyCalls(S)
<1> DEFINE schedule == question.schedule
           blocks == PeriodOf(schedule)
           N == Len(blocks)
           S == {schedule.stops[i].stop : i \in DOMAIN schedule.stops}
           V == TimelyCalls(S)
<1>1. /\ N \in Nat /\ DOMAIN schedule.stops = 1..N
      /\ \A i \in 1..N : OfTheClock(blocks[i])
  BY BlocksOf
<1>2. <<>> \in V
  BY DEF TimelyCalls
<1> HIDE DEF blocks, V, schedule
<1>3. ASSUME NEW n \in 1..N, NEW v \in V
      PROVE  (IF Untimed(blocks[n], run) THEN v
              ELSE WithCall(v, schedule.stops[n].stop,
                          CellAt(blocks[n].arr, run).time, CellAt(blocks[n].dep, run).time)) \in V
  <2>1. schedule.stops[n].stop \in S
    BY <1>1
  <2> HIDE DEF S
  <2>2. CASE ~Untimed(blocks[n], run)
    <3>1. /\ CellAt(blocks[n].arr, run).time \in {NoTime} \cup 0..(Day - 1)
          /\ CellAt(blocks[n].dep, run).time \in {NoTime} \cup 0..(Day - 1)
          /\ CellAt(blocks[n].arr, run).time # NoTime \/ CellAt(blocks[n].dep, run).time # NoTime
      BY <1>1, <2>2, TimesOfTheClock
    <3>2. WithCall(v, schedule.stops[n].stop, CellAt(blocks[n].arr, run).time,
                   CellAt(blocks[n].dep, run).time) \in V
      BY <2>1, <3>1, WithCallTimely DEF V
    <3> QED
      BY <2>2, <3>2
  <2> QED
    BY <2>2
<1>4. FlatCalls(schedule, blocks, run) \in V
  <2> HIDE DEF N
  <2>1. N = Len(blocks)
    BY DEF N
  <2> QED
    BY <1>1, <1>2, <1>3, <2>1, FlatCallsIn
<1> QED
  BY <1>4 DEF V, blocks, schedule

(* What a trip of the register has to be.                                  *)
Serviceable(q, f) ==
    ~f.frequencyOnly /\ f.untimed = {} =>
        LET blocks == PeriodOf(q.schedule)
        IN /\ \A d \in (IF f.weekdays = {} THEN AllWeek ELSE f.weekdays) :
                \A i \in DOMAIN blocks : d \in DaysAt(blocks[i], f.run)
           /\ \A i \in DOMAIN f.calls :
                /\ f.calls[i].dep - f.calls[i].arr \in 0..(Day - 1)
                /\ i > 1 => f.calls[i].arr - f.calls[i - 1].dep \in 0..(Day - 1)

LEMMA FlattenWell ==
    ASSUME Questioned, topic = "flatten", NEW f \in FlattenTrips(question.schedule)
    PROVE  Serviceable(question, f)
<1> DEFINE schedule == question.schedule
           blocks == PeriodOf(schedule)
<1> SUFFICES ASSUME ~f.frequencyOnly, f.untimed = {}
             PROVE  /\ \A d \in (IF f.weekdays = {} THEN AllWeek ELSE f.weekdays) :
                        \A i \in DOMAIN blocks : d \in DaysAt(blocks[i], f.run)
                    /\ \A i \in DOMAIN f.calls :
                        /\ f.calls[i].dep - f.calls[i].arr \in 0..(Day - 1)
                        /\ i > 1 => f.calls[i].arr - f.calls[i - 1].dep \in 0..(Day - 1)
  BY DEF Serviceable
<1>1. HasPeriod(schedule)
  BY DEF FlattenTrips
<1>2. PICK r, g :
        /\ r \in 1..RunCount(blocks) /\ g = FlatRun(schedule, r) /\ Kept(g)
        /\ f = [g EXCEPT !.weekdays = IF g.untimed = {} THEN Weekdays(g) ELSE {}]
  BY <1>1 DEF FlattenTrips
<1>3. /\ g.run = r /\ g.calls = FlatCalls(schedule, blocks, r)
      /\ g.untimed = {schedule.stops[i].stop : i \in {j \in DOMAIN blocks : Untimed(blocks[j], r)}}
      /\ g.weekdays = {d \in AllWeek : \A i \in DOMAIN blocks :
                        ~Untimed(blocks[i], r) => d \in DaysAt(blocks[i], r)}
      /\ DOMAIN g = {"run", "calls", "untimed", "weekdays", "frequencyOnly"}
  BY <1>2 DEF FlatRun
<1>4. /\ f.run = r /\ f.calls = FlatCalls(schedule, blocks, r)
      /\ g.untimed = {} /\ f.weekdays = Weekdays(g)
  <2>1. f.run = g.run /\ f.calls = g.calls /\ f.untimed = g.untimed
    BY <1>2, <1>3
  <2>2. f.weekdays = IF g.untimed = {} THEN Weekdays(g) ELSE {}
    BY <1>2, <1>3
  <2> QED
    BY <1>3, <2>1, <2>2
<1>5. ASSUME NEW i \in DOMAIN blocks
      PROVE  ~Untimed(blocks[i], r)
  <2> HIDE DEF blocks, schedule
  <2> SUFFICES ASSUME Untimed(blocks[i], r)
               PROVE  FALSE
    OBVIOUS
  <2>1. schedule.stops[i].stop \in g.untimed
    BY <1>3
  <2> QED
    BY <1>4, <2>1
<1>6. g.weekdays # {}
  BY <1>2, <1>4 DEF Kept
<1>7. \A d \in (IF f.weekdays = {} THEN AllWeek ELSE f.weekdays) : d \in g.weekdays
  BY <1>4, <1>6 DEF Weekdays
<1>8. PICK S : f.calls \in TimelyCalls(S)
  BY <1>4, FlatCallsTimely
<1> HIDE DEF blocks, schedule
<1>9. \A d \in (IF f.weekdays = {} THEN AllWeek ELSE f.weekdays) :
        \A i \in DOMAIN blocks : d \in DaysAt(blocks[i], f.run)
  BY <1>3, <1>4, <1>5, <1>7
<1> QED
  BY <1>8, <1>9 DEF TimelyCalls

(***************************************************************************)
(* Whatever blocks and times a schedule has, a trip whose stops are all    *)
(* timed is only offered on days on which every one of them is served, and *)
(* its times run forward, never by a day or more at once.                  *)
(***************************************************************************)
THEOREM TripsServedOnTheirDays == AlgorithmsSpec => []ServedOnItsDays
<1>1. PlanInit => Questioned /\ ServedOnItsDays
  BY QuestionedInit DEF ServedOnItsDays, Replied
<1>2. Questioned /\ ServedOnItsDays /\ [AlgorithmsNext]_planVars => ServedOnItsDays'
  <2> SUFFICES ASSUME Questioned, ServedOnItsDays, [AlgorithmsNext]_planVars, topic = "flatten"
               PROVE  ServedOnItsDays'
    BY Stays DEF ServedOnItsDays, Replied
  <2>1. ASSUME Replied("flatten")', NEW f \in Told'
        PROVE  Serviceable(question', f)
    <3>1. CASE answer' = answer
      <4>1. question' = question /\ Told' = Told /\ Replied("flatten")
        BY <2>1, <3>1, Stays DEF Replied, Told
      <4>2. Serviceable(question, f)
        BY <2>1, <4>1 DEF ServedOnItsDays, Serviceable
      <4> QED
        BY <4>1, <4>2
    <3>2. CASE Flatten
      <4>1. question' = question /\ Told' = FlattenTrips(question.schedule)
        BY <3>2, ToldIs DEF Flatten
      <4> QED
        BY <2>1, <4>1, FlattenWell
    <3> QED
      BY <3>1, <3>2, Answering
  <2> QED
    BY <2>1 DEF ServedOnItsDays, Serviceable
<1> QED
  BY <1>1, <1>2, QuestionedStays, PTL DEF AlgorithmsSpec

-----------------------------------------------------------------------------
(* The trips of a day.                                                     *)
Called(schedule, run, v, n) ==
    LET arr == TimeAt(Period(schedule)[n].arr, run)
        dep == TimeAt(Period(schedule)[n].dep, run)
    IN IF arr = NoTime /\ dep = NoTime THEN v
       ELSE WithCall(v, schedule.stops[n].stop, arr, dep)

LEMMA CalledIn ==
    ASSUME NEW schedule, NEW run, NEW n, NEW S, NEW v \in TimelyCalls(S),
           schedule.stops[n].stop \in S, ClockTimes(Period(schedule)[n])
    PROVE  Called(schedule, run, v, n) \in TimelyCalls(S)
<1>1. PICK arr, dep : /\ arr = TimeAt(Period(schedule)[n].arr, run)
                      /\ dep = TimeAt(Period(schedule)[n].dep, run)
  OBVIOUS
<1>2. arr \in {NoTime} \cup 0..(Day - 1) /\ dep \in {NoTime} \cup 0..(Day - 1)
  BY <1>1 DEF ClockTimes, TimeAt
<1>3. Called(schedule, run, v, n) =
        IF arr = NoTime /\ dep = NoTime THEN v ELSE WithCall(v, schedule.stops[n].stop, arr, dep)
  BY <1>1 DEF Called
<1> QED
  BY <1>2, <1>3, WithCallTimely

LEMMA CallsIn ==
    ASSUME NEW schedule, NEW run, NEW V, <<>> \in V, NEW N \in Nat, Counts(Period(schedule), N),
           \A n \in 1..N, v \in V : Called(schedule, run, v, n) \in V
    PROVE  Calls(schedule, run) \in V
<1> DEFINE step == [p \in (1..N) \X V |-> Called(schedule, run, p[2], p[1])]
           none == <<>>
<1>1. PICK g \in [0..N -> V] :
        g[0] = none /\ \A n \in 1..N : g[n] = Called(schedule, run, g[n - 1], n)
  <2>1. step \in [(1..N) \X V -> V]
    OBVIOUS
  <2>2. \A n \in 1..N, v \in V : step[<<n, v>>] = Called(schedule, run, v, n)
    OBVIOUS
  <2>3. none \in V
    OBVIOUS
  <2> HIDE DEF step, none
  <2>4. PICK g \in [0..N -> V] : g[0] = none /\ \A n \in 1..N : g[n] = step[<<n, g[n - 1]>>]
    <3>1. \E g \in [0..N -> V] : Recurs(g, N, none, step)
      BY <2>1, <2>3, Solvable
    <3> QED
      BY <3>1 DEF Recurs
  <2>5. ASSUME NEW n \in 1..N
        PROVE  g[n] = Called(schedule, run, g[n - 1], n)
    <3>1. n - 1 \in 0..N
      OBVIOUS
    <3>2. g[n - 1] \in V
      BY <3>1
    <3> QED
      BY <2>2, <2>4, <3>2
  <2> QED
    BY <2>4, <2>5
<1> HIDE DEF step
<1>2. g = [n \in 0..N |-> IF n = 0 THEN none ELSE Called(schedule, run, g[n - 1], n)]
  <2>1. \A n \in 0..N : n = 0 \/ n \in 1..N
    OBVIOUS
  <2> HIDE DEF none
  <2> QED
    BY <1>1, <2>1
<1> DEFINE calls[n \in 0..N] ==
              IF n = 0 THEN none ELSE Called(schedule, run, calls[n - 1], n)
<1>3. calls = [n \in 0..N |-> IF n = 0 THEN none ELSE Called(schedule, run, calls[n - 1], n)]
  <2> HIDE DEF none
  <2> QED
    BY <1>2 DEF calls
<1>4. Calls(schedule, run) = calls[N]
  BY DEF Calls, Called, Counts
<1> HIDE DEF calls, none
<1>5. \A n \in 0..N : calls[n] = IF n = 0 THEN none ELSE Called(schedule, run, calls[n - 1], n)
  BY <1>3
<1> DEFINE T == {n \in 0..N : calls[n] \in V}
<1>6. 0 \in T
  BY <1>5 DEF none
<1>7. ASSUME NEW n \in 1..N, n - 1 \in T
      PROVE  n \in T
  BY <1>5, <1>7
<1> HIDE DEF T
<1>8. N \in T
  <2>1. N \in 0..N
    OBVIOUS
  <2> QED
    BY <1>6, <1>7, <2>1, UpTo
<1> QED
  BY <1>4, <1>8 DEF T

LEMMA RunsTimely ==
    ASSUME Questioned, topic = "intercity", NEW r \in Runs
    PROVE  \E S : r.calls \in TimelyCalls(S)
<1>1. PICK i \in DOMAIN question.schedules : r \in RunsOf(question.schedules[i])
  BY DEF Runs, ActiveSchedules
<1>2. PICK schedule : schedule = question.schedules[i]
  OBVIOUS
<1>3. PICK run : r.calls = Calls(schedule, run)
  BY <1>1, <1>2 DEF RunsOf
<1>4. /\ schedule.stops \in Seq(Range(schedule.stops))
      /\ \A n \in DOMAIN schedule.stops :
            ClockTimes(schedule.stops[n].winter) /\ ClockTimes(schedule.stops[n].summer)
  <2>1. question \in Enquiries.intercity
    BY DEF Questioned
  <2> QED
    BY <1>2, <2>1, IntercityAssumption
<1>5. PICK N \in Nat : Counts(schedule.stops, N)
  BY <1>4, SeqCounts
<1>6. PICK winter : Period(schedule) = [n \in DOMAIN schedule.stops |->
                        IF winter THEN schedule.stops[n].winter ELSE schedule.stops[n].summer]
  BY DEF Period
<1>7. Counts(Period(schedule), N) /\ \A n \in 1..N : ClockTimes(Period(schedule)[n])
  <2>1. DOMAIN Period(schedule) = 1..N /\ \A n \in 1..N : ClockTimes(Period(schedule)[n])
    BY <1>4, <1>5, <1>6 DEF Counts
  <2>2. Period(schedule) = [n \in 1..N |-> Period(schedule)[n]]
    BY <1>5, <1>6 DEF Counts
  <2>3. Period(schedule) \in Seq({Period(schedule)[n] : n \in 1..N})
    BY <2>2
  <2>4. Len(Period(schedule)) = N
    BY <2>1, <2>3
  <2> QED
    BY <2>1, <2>4 DEF Counts
<1> DEFINE S == {schedule.stops[n].stop : n \in DOMAIN schedule.stops}
<1>8. \A n \in 1..N : schedule.stops[n].stop \in S
  BY <1>5 DEF Counts
<1> HIDE DEF S
<1>9. <<>> \in TimelyCalls(S)
  BY DEF TimelyCalls
<1>10. \A n \in 1..N, v \in TimelyCalls(S) : Called(schedule, run, v, n) \in TimelyCalls(S)
  BY <1>7, <1>8, CalledIn
<1>11. Calls(schedule, run) \in TimelyCalls(S)
  BY <1>7, <1>9, <1>10, CallsIn
<1> QED
  BY <1>3, <1>11

TimesForward(calls) ==
    \A i \in DOMAIN calls :
        /\ calls[i].dep - calls[i].arr \in 0..(Day - 1)
        /\ i > 1 => calls[i].arr - calls[i - 1].dep \in 0..(Day - 1)

LEMMA RunsInTime ==
    ASSUME Questioned, topic = "intercity", NEW r \in Runs
    PROVE  TimesForward(r.calls) /\ \A h \in HopsOfRun(r) : h.trip = r.trip /\ h.arr - h.dep \in 0..(Day - 1)
<1>1. PICK S : r.calls \in TimelyCalls(S)
  BY RunsTimely
<1>2. TimesForward(r.calls)
  BY <1>1 DEF TimelyCalls, TimesForward
<1>3. PICK c : c = r.calls
  OBVIOUS
<1>4. DOMAIN c = 1..Len(c) /\ Len(c) \in Nat
  BY <1>1, <1>3 DEF TimelyCalls
<1>5. ASSUME NEW h \in HopsOfRun(r)
      PROVE  h.trip = r.trip /\ h.arr - h.dep \in 0..(Day - 1)
  <2>1. PICK i \in 1..(Len(c) - 1) : /\ h.trip = r.trip
                                     /\ h.dep = c[i].dep /\ h.arr = c[i + 1].arr
    BY <1>3 DEF HopsOfRun
  <2>2. i + 1 \in DOMAIN c /\ i + 1 > 1 /\ (i + 1) - 1 = i
    BY <1>4
  <2>3. c[i + 1].arr - c[(i + 1) - 1].dep \in 0..(Day - 1)
    BY <1>2, <1>3, <2>2 DEF TimesForward
  <2> QED
    BY <2>1, <2>2, <2>3
<1> QED
  BY <1>2, <1>5

(* One trip of every name is kept, and it is one of the runs.              *)
LEMMA OneIsKept ==
    ASSUME NEW trips \in Trips, NEW r \in Runs
    PROVE  \E t \in trips : t \in Runs /\ t.trip = r.trip
<1>1. trips \subseteq Runs /\ Cardinality({k \in trips : k.trip = r.trip}) = 1
  BY DEF Trips
<1>2. {k \in trips : k.trip = r.trip} # {}
  <2>1. Cardinality({}) = 0
    BY FS_EmptySet
  <2> QED
    BY <1>1, <2>1
<1> QED
  BY <1>1, <1>2

KeepsTime(trips, hops, single) ==
    /\ \A t \in trips : TimesForward(t.calls)
    /\ \A h \in hops :
        /\ h.arr - h.dep \in 0..(Day - 1)
        /\ \E t \in trips : t.trip = h.trip /\ (single => h \in HopsOfRun(t))

LEMMA NetworkKeepsTime ==
    ASSUME Questioned, topic = "intercity", NEW trips \in Trips, NEW hops,
           hops = {h \in UNION {HopsOfRun(r) : r \in Runs} : ~Implausible(h)}
    PROVE  /\ KeepsTime(trips, hops, OneOfEachName)
           /\ \A t \in trips : \A h \in HopsOfRun(t) : h \in hops \/ Implausible(h)
<1>1. trips \subseteq Runs
  BY DEF Trips
<1>2. \A t \in trips : TimesForward(t.calls)
  BY <1>1, RunsInTime
<1>3. ASSUME NEW h \in hops
      PROVE  /\ h.arr - h.dep \in 0..(Day - 1)
             /\ \E t \in trips : t.trip = h.trip /\ (OneOfEachName => h \in HopsOfRun(t))
  <2>1. PICK r \in Runs : h \in HopsOfRun(r)
    OBVIOUS
  <2>2. h.trip = r.trip /\ h.arr - h.dep \in 0..(Day - 1)
    BY <2>1, RunsInTime
  <2>3. PICK t \in trips : t \in Runs /\ t.trip = r.trip
    BY OneIsKept
  <2>4. OneOfEachName => t = r
    BY <2>3 DEF OneOfEachName
  <2> QED
    BY <2>1, <2>2, <2>3, <2>4
<1>4. \A t \in trips : \A h \in HopsOfRun(t) : h \in hops \/ Implausible(h)
  BY <1>1
<1> QED
  BY <1>2, <1>3, <1>4 DEF KeepsTime

LEMMA SameRuns ==
    ASSUME question' = question
    PROVE  Runs' = Runs /\ (OneOfEachName' <=> OneOfEachName)
           /\ \A h : Implausible(h)' <=> Implausible(h)
<1>1. \A s : Exceptions(s)' = Exceptions(s)
  BY DEF Exceptions
<1>2. \A id : Active(id)' <=> Active(id)
  BY <1>1 DEF Active
<1>3. Runs' = Runs
  BY <1>2 DEF Runs, ActiveSchedules
<1> QED
  BY <1>3 DEF OneOfEachName, Implausible

(***************************************************************************)
(* Whatever blocks and times the schedules of a day have, and through      *)
(* however many midnights they run, the times of every trip and hop of the *)
(* network go forward by less than a day, and what is ridden is what the   *)
(* trips show.                                                             *)
(***************************************************************************)
THEOREM RunsKeepTheirTime == AlgorithmsSpec => []RunsKeepTime
<1>1. PlanInit => Questioned /\ RunsKeepTime
  BY QuestionedInit DEF RunsKeepTime, Replied
<1>2. Questioned /\ RunsKeepTime /\ [AlgorithmsNext]_planVars => RunsKeepTime'
  <2> SUFFICES ASSUME Questioned, RunsKeepTime, [AlgorithmsNext]_planVars, topic = "intercity"
               PROVE  RunsKeepTime'
    BY Stays DEF RunsKeepTime, Replied
  <2>0. question' = question
    BY Stays
  <2>1. CASE answer' = answer
    <3>1. Told' = Told /\ (Replied("intercity")' <=> Replied("intercity"))
      BY <2>1, Stays DEF Replied, Told
    <3> QED
      BY <2>0, <3>1, SameRuns DEF RunsKeepTime
  <2>2. CASE BuildNetwork
    <3>1. PICK trips, hops :
            /\ trips \in Trips
            /\ hops = {h \in UNION {HopsOfRun(r) : r \in Runs} : ~Implausible(h)}
            /\ Told'.trips = trips /\ Told'.hops = hops
      BY <2>2, ToldIs DEF BuildNetwork
    <3>2. /\ KeepsTime(trips, hops, OneOfEachName)
          /\ \A t \in trips : \A h \in HopsOfRun(t) : h \in hops \/ Implausible(h)
      BY <3>1, NetworkKeepsTime
    <3>3. /\ OneOfEachName' <=> OneOfEachName
          /\ \A h : Implausible(h)' <=> Implausible(h)
      BY <2>0, SameRuns
    <3>4. /\ KeepsTime(Told'.trips, Told'.hops, OneOfEachName')
          /\ \A t \in Told'.trips : \A h \in HopsOfRun(t) : h \in Told'.hops \/ Implausible(h)'
      BY <3>1, <3>2, <3>3 DEF KeepsTime
    <3> QED
      BY <3>4 DEF RunsKeepTime, KeepsTime, TimesForward
  <2> QED
    BY <2>1, <2>2, Answering
<1> QED
  BY <1>1, <1>2, QuestionedStays, PTL DEF AlgorithmsSpec

-----------------------------------------------------------------------------
(* The trips of an import.  A matched stop has one of n terminals.         *)
AtTerminals(n) == [stop : Nat, terminal : 1..n, arr : Int, dep : Int]

Notes(n) ==
    [matched : Seq(AtTerminals(n)), unmatched : SUBSET Nat,
     worst : {"incomplete_trip", "low_confidence", "duplicate_ambiguous"}]

(* Terminals and stops whose data are what they say.                       *)
AreTerminals(terms) ==
    /\ DOMAIN terms = 1..Len(terms) /\ Len(terms) \in Nat
    /\ \A i \in DOMAIN terms : terms[i].place \in Int

IsStop(stop) == stop.place \in Int /\ stop.arr \in Int /\ stop.dep \in Int

LEMMA NotedIn ==
    ASSUME NEW n \in Nat, NEW acc \in Notes(n), NEW i \in Nat, NEW stop, IsStop(stop),
           NEW terms, NEW match,
           match.decision \in {"verified", "duplicate_ambiguous", "low_confidence", "rejected"},
           match.decision = "verified" => TerminalAt(match.best, terms) \in 1..n
    PROVE  Noted(acc, i, stop, terms, match) \in Notes(n)
<1>1. CASE match.decision = "verified"
  <2> DEFINE m == [stop |-> i, terminal |-> TerminalAt(match.best, terms),
                   arr |-> stop.arr, dep |-> stop.dep]
             M == Append(acc.matched, m)
  <2>1. m \in AtTerminals(n)
    BY <1>1 DEF AtTerminals, IsStop
  <2>2. acc.matched \in Seq(AtTerminals(n))
    BY DEF Notes
  <2> HIDE DEF m
  <2>3. M \in Seq(AtTerminals(n))
    BY <2>1, <2>2
  <2>4. Noted(acc, i, stop, terms, match) = [acc EXCEPT !.matched = M]
    <3>1. acc = [acc EXCEPT !.matched = acc.matched]
      BY DEF Notes
    <3> QED
      BY <1>1 DEF Noted, m
  <2> HIDE DEF M
  <2> QED
    BY <2>3, <2>4 DEF Notes
<1>2. CASE match.decision # "verified"
  <2>1. PICK u, w : /\ u = acc.unmatched \cup {i}
                    /\ w \in {"incomplete_trip", "low_confidence", "duplicate_ambiguous"}
                    /\ Noted(acc, i, stop, terms, match) = [acc EXCEPT !.unmatched = u, !.worst = w]
    <3> DEFINE reason == IF match.decision = "rejected" THEN "incomplete_trip" ELSE match.decision
               u == acc.unmatched \cup {i}
               w == IF Rank(reason) > Rank(acc.worst) THEN reason ELSE acc.worst
    <3>1. reason \in {"incomplete_trip", "low_confidence", "duplicate_ambiguous"}
      BY <1>2
    <3>2. w \in {"incomplete_trip", "low_confidence", "duplicate_ambiguous"}
      <4> HIDE DEF reason
      <4> QED
        BY <3>1 DEF Notes
    <3>3. Noted(acc, i, stop, terms, match) = [acc EXCEPT !.unmatched = u, !.worst = w]
      BY <1>2 DEF Noted
    <3> QED
      BY <3>2, <3>3
  <2>2. u \in SUBSET Nat
    BY <2>1 DEF Notes
  <2> QED
    BY <2>1, <2>2 DEF Notes
<1> QED
  BY <1>1, <1>2

LEMMA TurnIn ==
    ASSUME NEW source, NEW stop, NEW term, stop.place \in Int, term.place \in Int
    PROVE  Turn(source, stop, term) \in 0..5
<1>1. term.place \div Cell \in Int /\ stop.place \div Cell \in Int
  BY TripAttachAssumption, DivFacts
<1>2. \A d \in -1..1 : d + 1 \in 0..5
  OBVIOUS
<1> QED
  BY <1>1, <1>2 DEF Turn

LEMMA TerminalAtIn ==
    ASSUME NEW terms, Len(terms) \in Nat, Len(terms) > 0, NEW turn \in Int
    PROVE  TerminalAt(turn, terms) \in 1..Len(terms)
<1>1. (turn - 1) % Len(terms) \in 0..(Len(terms) - 1)
  OBVIOUS
<1> QED
  BY <1>1 DEF TerminalAt

LEMMA PoolIn ==
    ASSUME NEW source, NEW stop, stop.place \in Int, NEW terms, AreTerminals(terms),
           NEW free \in SUBSET (DOMAIN terms),
           NEW pool, pool = Pool(source, stop, terms, free)
    PROVE  /\ DOMAIN pool \subseteq 1..(6 * Len(terms))
           /\ \A turn \in DOMAIN pool :
                pool[turn].place \in Int /\ TerminalAt(turn, terms) \in 1..Len(terms)
<1> DEFINE n == Len(terms)
<1>1. n \in Nat /\ DOMAIN terms = 1..n
  BY DEF AreTerminals
<1>2. DOMAIN pool = {Turn(source, stop, terms[i]) * n + i : i \in free}
  BY DEF Pool
<1>3. ASSUME NEW i \in free
      PROVE  Turn(source, stop, terms[i]) * n + i \in 1..(6 * n) /\ n > 0
  <2>1. PICK t \in 0..5 : t = Turn(source, stop, terms[i])
    BY TurnIn DEF AreTerminals
  <2>2. i \in 1..n
    BY <1>1
  <2> HIDE DEF n
  <2>3. t = 0 \/ t = 1 \/ t = 2 \/ t = 3 \/ t = 4 \/ t = 5
    BY <2>1
  <2>4. t * n + i \in 1..(6 * n)
    BY <1>1, <2>2, <2>3
  <2> QED
    BY <1>1, <2>1, <2>2, <2>4
<1>4. DOMAIN pool \subseteq 1..(6 * n)
  BY <1>2, <1>3
<1>5. ASSUME NEW turn \in DOMAIN pool
      PROVE  pool[turn].place \in Int /\ TerminalAt(turn, terms) \in 1..n
  <2>1. n > 0 /\ turn \in Int
    BY <1>2, <1>3, <1>4, <1>5
  <2>2. TerminalAt(turn, terms) \in 1..n
    BY <1>1, <2>1, TerminalAtIn
  <2>3. pool[turn] = terms[TerminalAt(turn, terms)]
    BY <1>5 DEF Pool
  <2> QED
    BY <1>1, <2>2, <2>3 DEF AreTerminals
<1> QED
  BY <1>4, <1>5

LEMMA MatchNextIn ==
    ASSUME NEW source, NEW terms, AreTerminals(terms), NEW acc \in Notes(Len(terms)),
           NEW i \in Nat, NEW n, NEW stop, IsStop(stop)
    PROVE  MatchNext(source, acc, i, n, stop, terms) \in Notes(Len(terms))
<1> DEFINE free == {t \in Candidates(source, stop, terms) : Free(t, i, n, acc.matched)}
           item == PairItem(source, stop)
<1>1. PICK pool : pool = Pool(source, stop, terms, free)
  OBVIOUS
<1>2. PICK match : match = Decision(item, pool, Class(stop))
  OBVIOUS
<1>3. free \in SUBSET (DOMAIN terms)
  BY DEF Candidates
<1>4. item.place \in Int
  BY DEF PairItem, IsStop
<1>5. MatchNext(source, acc, i, n, stop, terms) = Noted(acc, i, stop, terms, match)
  BY <1>1, <1>2 DEF MatchNext
<1> HIDE DEF free, item
<1>6. /\ DOMAIN pool \subseteq 1..(6 * Len(terms))
      /\ \A turn \in DOMAIN pool :
            pool[turn].place \in Int /\ TerminalAt(turn, terms) \in 1..Len(terms)
  BY <1>1, <1>3, PoolIn DEF IsStop
<1>7. Len(terms) \in Nat /\ 6 * Len(terms) \in Nat
  BY DEF AreTerminals
<1>8. match.decision = "verified" => TerminalAt(match.best, terms) \in 1..Len(terms)
  BY <1>2, <1>4, <1>6, <1>7, VerifiedWell
<1>9. match.decision \in {"verified", "duplicate_ambiguous", "low_confidence", "rejected"}
  BY <1>2, DecisionIn
<1> QED
  BY <1>5, <1>7, <1>8, <1>9, NotedIn

LEMMA MatchStopsThrough ==
    ASSUME NEW source, NEW stops, NEW terms, NEW N \in Nat, Len(stops) = N,
           NEW V, NoneYet \in V,
           \A n \in 1..N, v \in V : MatchNext(source, v, n, N, stops[n], terms) \in V
    PROVE  MatchStops(source, stops, terms) \in V
<1> DEFINE Body(n, v) == MatchNext(source, v, n, N, stops[n], terms)
           step == [p \in (1..N) \X V |-> Body(p[1], p[2])]
<1>1. PICK g \in [0..N -> V] : g[0] = NoneYet /\ \A n \in 1..N : g[n] = Body(n, g[n - 1])
  <2>1. step \in [(1..N) \X V -> V]
    OBVIOUS
  <2>2. \A n \in 1..N, v \in V : step[<<n, v>>] = Body(n, v)
    OBVIOUS
  <2> HIDE DEF step, Body
  <2>3. PICK g \in [0..N -> V] : g[0] = NoneYet /\ \A n \in 1..N : g[n] = step[<<n, g[n - 1]>>]
    <3>1. NoneYet \in V
      OBVIOUS
    <3> QED
      BY <2>1, <3>1, Recursion
  <2>4. ASSUME NEW n \in 1..N
        PROVE  g[n] = Body(n, g[n - 1])
    <3>1. n - 1 \in 0..N
      OBVIOUS
    <3>2. g[n - 1] \in V
      BY <3>1
    <3> QED
      BY <2>2, <2>3, <3>2
  <2> QED
    BY <2>3, <2>4
<1>2. g = [n \in 0..N |-> IF n = 0 THEN NoneYet ELSE Body(n, g[n - 1])]
  <2>1. \A n \in 0..N : n = 0 \/ n \in 1..N
    OBVIOUS
  <2> HIDE DEF Body
  <2> QED
    BY <1>1, <2>1
<1> DEFINE noted[n \in 0..N] ==
        IF n = 0 THEN NoneYet ELSE MatchNext(source, noted[n - 1], n, N, stops[n], terms)
<1>3. noted = [n \in 0..N |-> IF n = 0 THEN NoneYet ELSE Body(n, noted[n - 1])]
  BY <1>2 DEF noted
<1>4. MatchStops(source, stops, terms) = noted[N]
  BY DEF MatchStops
<1> HIDE DEF noted, Body
<1>5. \A n \in 0..N : noted[n] = IF n = 0 THEN NoneYet ELSE Body(n, noted[n - 1])
  BY <1>3
<1>6. ASSUME NEW n \in 1..N, noted[n - 1] \in V
      PROVE  noted[n] \in V
  <2>1. noted[n] = Body(n, noted[n - 1])
    BY <1>5
  <2> QED
    BY <1>6, <2>1 DEF Body
<1>7. noted[N] \in V
  <2> DEFINE T == {n \in 0..N : noted[n] \in V}
  <2>1. 0 \in T
    BY <1>5
  <2>2. \A n \in 1..N : n - 1 \in T => n \in T
    BY <1>6
  <2>4. N \in 0..N
    OBVIOUS
  <2> HIDE DEF T
  <2>3. N \in T
    BY <2>1, <2>2, <2>4, UpTo
  <2> QED
    BY <2>3 DEF T
<1> QED
  BY <1>4, <1>7

LEMMA CollapseThrough ==
    ASSUME NEW matched, NEW N \in Nat, Len(matched) = N,
           NEW V, <<>> \in V,
           \A n \in 1..N, v \in V : WithStop(v, matched[n]) \in V
    PROVE  CollapseConsecutive(matched) \in V
<1> DEFINE Body(n, v) == WithStop(v, matched[n])
           step == [p \in (1..N) \X V |-> Body(p[1], p[2])]
<1>1. PICK g \in [0..N -> V] : g[0] = <<>> /\ \A n \in 1..N : g[n] = Body(n, g[n - 1])
  <2>1. step \in [(1..N) \X V -> V]
    OBVIOUS
  <2>2. \A n \in 1..N, v \in V : step[<<n, v>>] = Body(n, v)
    OBVIOUS
  <2> HIDE DEF step, Body
  <2>3. PICK g \in [0..N -> V] : g[0] = <<>> /\ \A n \in 1..N : g[n] = step[<<n, g[n - 1]>>]
    <3> DEFINE base == <<>>
    <3>1. base \in V
      OBVIOUS
    <3> HIDE DEF base
    <3>2. \E g \in [0..N -> V] :
              g[0] = base /\ \A n \in 1..N : g[n] = step[<<n, g[n - 1]>>]
      BY <2>1, <3>1, Recursion
    <3> QED
      BY <3>2 DEF base
  <2>4. ASSUME NEW n \in 1..N
        PROVE  g[n] = Body(n, g[n - 1])
    <3>1. n - 1 \in 0..N
      OBVIOUS
    <3>2. g[n - 1] \in V
      BY <3>1
    <3> QED
      BY <2>2, <2>3, <3>2
  <2> QED
    BY <2>3, <2>4
<1>2. g = [n \in 0..N |-> IF n = 0 THEN <<>> ELSE Body(n, g[n - 1])]
  <2>1. \A n \in 0..N : n = 0 \/ n \in 1..N
    OBVIOUS
  <2> HIDE DEF Body
  <2> QED
    BY <1>1, <2>1
<1> DEFINE out[n \in 0..N] ==
        IF n = 0 THEN <<>> ELSE WithStop(out[n - 1], matched[n])
<1>3. out = [n \in 0..N |-> IF n = 0 THEN <<>> ELSE Body(n, out[n - 1])]
  BY <1>2 DEF out
<1>4. CollapseConsecutive(matched) = out[N]
  BY DEF CollapseConsecutive
<1> HIDE DEF out, Body
<1>5. \A n \in 0..N : out[n] = IF n = 0 THEN <<>> ELSE Body(n, out[n - 1])
  BY <1>3
<1>6. ASSUME NEW n \in 1..N, out[n - 1] \in V
      PROVE  out[n] \in V
  <2>1. out[n] = Body(n, out[n - 1])
    BY <1>5
  <2> QED
    BY <1>6, <2>1 DEF Body
<1>7. out[N] \in V
  <2> DEFINE T == {n \in 0..N : out[n] \in V}
  <2>1. 0 \in T
    BY <1>5
  <2>2. \A n \in 1..N : n - 1 \in T => n \in T
    BY <1>6
  <2>4. N \in 0..N
    OBVIOUS
  <2> HIDE DEF T
  <2>3. N \in T
    BY <2>1, <2>2, <2>4, UpTo
  <2> QED
    BY <2>3 DEF T
<1> QED
  BY <1>4, <1>7

LEMMA MatchStopsIn ==
    ASSUME NEW source, NEW terms, AreTerminals(terms), NEW stops, NEW N \in Nat, Len(stops) = N,
           \A i \in 1..N : IsStop(stops[i])
    PROVE  MatchStops(source, stops, terms) \in Notes(Len(terms))
<1> DEFINE V == Notes(Len(terms))
<1>1. NoneYet \in V
  BY DEF Notes, NoneYet
<1>2. \A n \in 1..N, v \in V : MatchNext(source, v, n, N, stops[n], terms) \in V
  BY MatchNextIn
<1> HIDE DEF V
<1>3. MatchStops(source, stops, terms) \in V
  BY <1>1, <1>2, MatchStopsThrough
<1> QED
  BY <1>3 DEF V

LEMMA WithStopIn ==
    ASSUME NEW n, NEW out \in Seq(AtTerminals(n)), NEW m \in AtTerminals(n)
    PROVE  WithStop(out, m) \in Seq(AtTerminals(n))
<1>1. CASE out # <<>> /\ out[Len(out)].terminal = m.terminal
  <2> DEFINE l == Len(out)
             x == [out[l] EXCEPT !.dep = m.dep]
  <2>1. l \in Nat /\ DOMAIN out = 1..l /\ (out # <<>> => l # 0)
    OBVIOUS
  <2>2. l \in 1..l
    BY <1>1, <2>1
  <2>3. x \in AtTerminals(n)
    <3>1. out[l] \in AtTerminals(n)
      BY <2>1, <2>2
    <3> QED
      BY <3>1 DEF AtTerminals
  <2>4. WithStop(out, m) = [out EXCEPT ![l] = x]
    BY <1>1 DEF WithStop
  <2> HIDE DEF x
  <2>5. out \in [1..l -> AtTerminals(n)]
    BY <2>1
  <2> HIDE DEF l
  <2>6. [out EXCEPT ![l] = x] \in [1..l -> AtTerminals(n)]
    BY <2>3, <2>5
  <2>7. l \in Nat
    BY <2>1
  <2> QED
    BY <2>4, <2>6, <2>7
<1>2. CASE ~(out # <<>> /\ out[Len(out)].terminal = m.terminal)
  BY <1>2 DEF WithStop
<1> QED
  BY <1>1, <1>2

LEMMA CollapseIn ==
    ASSUME NEW n, NEW matched \in Seq(AtTerminals(n))
    PROVE  CollapseConsecutive(matched) \in Seq(AtTerminals(n))
<1> DEFINE V == Seq(AtTerminals(n))
<1>1. PICK N \in Nat : Len(matched) = N
  OBVIOUS
<1>2. <<>> \in V /\ \A i \in 1..N : matched[i] \in AtTerminals(n)
  BY <1>1
<1>3. \A i \in 1..N, v \in V : WithStop(v, matched[i]) \in V
  BY <1>2, WithStopIn
<1> HIDE DEF V
<1>4. CollapseConsecutive(matched) \in V
  BY <1>1, <1>2, <1>3, CollapseThrough
<1> QED
  BY <1>4 DEF V

(* No stop is left before it is reached, whatever lies between two stops.  *)
LEMMA RunsForward ==
    ASSUME NEW n, NEW times \in Seq(AtTerminals(n)), Monotonic(times),
           NEW i \in DOMAIN times, NEW j \in DOMAIN times, i < j
    PROVE  times[i].arr <= times[i].dep /\ times[i].dep <= times[j].arr
<1>1. PICK l \in Nat : DOMAIN times = 1..l
  OBVIOUS
<1>2. \A k \in 1..l : /\ times[k].arr \in Int /\ times[k].dep \in Int
                      /\ times[k].arr <= times[k].dep
                      /\ k > 1 => times[k - 1].dep <= times[k].arr
  <2>1. \A k \in 1..l : times[k] \in AtTerminals(n)
    BY <1>1
  <2> QED
    BY <1>1, <2>1 DEF Monotonic, AtTerminals
<1> DEFINE T == {k \in 0..l : k > i => times[i].dep <= times[k].arr}
<1>3. 0 \in T
  BY <1>1
<1>4. ASSUME NEW k \in 1..l, k - 1 \in T
      PROVE  k \in T
  <2>1. CASE k - 1 > i
    <3>1. k - 1 \in 1..l /\ i \in 1..l
      BY <1>1, <2>1
    <3>2. /\ times[i].dep <= times[k - 1].arr
          /\ times[k - 1].arr <= times[k - 1].dep
          /\ times[k - 1].dep <= times[k].arr
      BY <1>1, <1>2, <1>4, <2>1, <3>1
    <3>3. PICK p, q, r, s \in Int : /\ p = times[i].dep /\ q = times[k - 1].arr
                                   /\ r = times[k - 1].dep /\ s = times[k].arr
      BY <1>2, <3>1
    <3>4. p <= s
      BY <3>2, <3>3
    <3> QED
      BY <3>3, <3>4
  <2>2. CASE k - 1 = i
    BY <1>1, <1>2, <2>2
  <2>3. CASE k - 1 < i
    BY <1>1, <2>3
  <2> QED
    BY <1>1, <2>1, <2>2, <2>3
<1> HIDE DEF T
<1>5. j \in 0..l
  BY <1>1
<1>6. j \in T
  BY <1>3, <1>4, <1>5, UpTo
<1> QED
  BY <1>1, <1>2, <1>6 DEF T

(* What is promoted, of a trip's times at terminals.                       *)
Drivable(times, terms) ==
    \A i, j \in DOMAIN times : i < j =>
        /\ times[i].arr <= times[i].dep /\ times[i].dep <= times[j].arr
        /\ j = i + 1 /\ Located(terms[times[i].terminal]) /\ Located(terms[times[j].terminal]) =>
              \/ Apart(terms[times[i].terminal], terms[times[j].terminal]) < 50
              \/ Apart(terms[times[i].terminal], terms[times[j].terminal]) * 60
                    <= MaxSpeed * 1000 * (times[j].arr - times[i].dep)

LEMMA SlowEnough ==
    ASSUME NEW terms, AreTerminals(terms), NEW times \in Seq(AtTerminals(Len(terms))),
           Monotonic(times), TooFast(times, terms) = {}
    PROVE  Drivable(times, terms)
<1> SUFFICES ASSUME NEW i \in DOMAIN times, NEW j \in DOMAIN times, i < j
             PROVE  /\ times[i].arr <= times[i].dep /\ times[i].dep <= times[j].arr
                    /\ j = i + 1 /\ Located(terms[times[i].terminal])
                       /\ Located(terms[times[j].terminal]) =>
                        \/ Apart(terms[times[i].terminal], terms[times[j].terminal]) < 50
                        \/ Apart(terms[times[i].terminal], terms[times[j].terminal]) * 60
                              <= MaxSpeed * 1000 * (times[j].arr - times[i].dep)
  BY DEF Drivable
<1>1. times[i].arr <= times[i].dep /\ times[i].dep <= times[j].arr
  BY RunsForward
<1>2. ASSUME j = i + 1, Located(terms[times[i].terminal]), Located(terms[times[j].terminal])
      PROVE  \/ Apart(terms[times[i].terminal], terms[times[j].terminal]) < 50
             \/ Apart(terms[times[i].terminal], terms[times[j].terminal]) * 60
                   <= MaxSpeed * 1000 * (times[j].arr - times[i].dep)
  <2>1. PICK a, b : a = terms[times[i].terminal] /\ b = terms[times[j].terminal]
    OBVIOUS
  <2>0. times[i] \in AtTerminals(Len(terms)) /\ times[j] \in AtTerminals(Len(terms))
    OBVIOUS
  <2>2. PICK dur \in Int : dur = times[j].arr - times[i].dep
    <3>1. times[j].arr \in Int /\ times[i].dep \in Int
      BY <2>0 DEF AtTerminals
    <3> QED
      BY <3>1
  <2>3. a.place \in Int /\ b.place \in Int
    <3>1. times[i].terminal \in DOMAIN terms /\ times[j].terminal \in DOMAIN terms
      BY <2>0 DEF AtTerminals, AreTerminals
    <3> QED
      BY <2>1, <3>1 DEF AreTerminals
  <2>4. PICK apart \in Int : apart = Apart(a, b)
    BY <2>3 DEF Apart
  <2>5. j \in 2..Len(times) /\ j - 1 = i
    BY <1>2
  <2>6. ~ (IF dur <= 0 THEN apart >= 50 ELSE apart * 60 > MaxSpeed * 1000 * dur)
    <3>1. j \notin TooFast(times, terms)
      OBVIOUS
    <3> QED
      BY <1>2, <2>1, <2>2, <2>4, <2>5, <3>1 DEF TooFast
  <2>7. PICK most \in Int : most = MaxSpeed * 1000 * dur
    BY <2>2, TripAttachAssumption
  <2>8. apart < 50 \/ apart * 60 <= most
    BY <2>2, <2>4, <2>6, <2>7
  <2> QED
    BY <2>1, <2>2, <2>4, <2>7, <2>8
<1> QED
  BY <1>1, <1>2

(* A fate that is a promotion is one of a trip that can be driven.         *)
LEMMA MatchedWell ==
    ASSUME NEW terms, AreTerminals(terms), NEW match \in Notes(Len(terms)), NEW stops,
           NEW f, f = Matched(match, stops, terms), f.fate = "promoted"
    PROVE  Drivable(f.times, terms)
<1> DEFINE times == CollapseConsecutive(match.matched)
<1>1. times \in Seq(AtTerminals(Len(terms)))
  BY CollapseIn DEF Notes
<1> HIDE DEF times
<1>2. f = Validate(times, terms)
  BY DEF Matched, Fate, times
<1>3. Monotonic(times) /\ TooFast(times, terms) = {} /\ f = Fate("promoted", "none", times)
  <2>1. CASE ~Monotonic(times)
    BY <1>2, <2>1 DEF Validate, Fate
  <2>2. CASE Monotonic(times) /\ \E i \in TooFast(times, terms) : Confirmed(times, terms, i)
    BY <1>2, <2>2 DEF Validate, Fate
  <2>3. CASE /\ Monotonic(times) /\ TooFast(times, terms) # {}
             /\ \A i \in TooFast(times, terms) : ~Confirmed(times, terms, i)
    BY <1>2, <2>3 DEF Validate, Fate
  <2>4. CASE Monotonic(times) /\ TooFast(times, terms) = {}
    BY <1>2, <2>4 DEF Validate
  <2> QED
    BY <2>1, <2>2, <2>3, <2>4
<1>4. f.times = times
  BY <1>3 DEF Fate
<1> QED
  BY <1>1, <1>3, <1>4, SlowEnough

LEMMA ResolveStopIn ==
    ASSUME NEW terms, AreTerminals(terms), NEW stop, IsStop(stop), "place" \in DOMAIN stop
    PROVE  IsStop(ResolveStop(terms, stop))
<1>1. PICK alike : alike = Alike(stop.name, terms)
  OBVIOUS
<1>2. alike \subseteq DOMAIN terms
  BY <1>1 DEF Alike, Unrivalled, Townsmen
<1>3. PICK i : i = CHOOSE k \in alike : TRUE
  OBVIOUS
<1>4. PICK p : p = terms[i].place
  OBVIOUS
<1>5. alike # {} => p \in Int
  BY <1>2, <1>3, <1>4 DEF AreTerminals
<1>6. ResolveStop(terms, stop) = IF Located(stop) \/ alike = {} THEN stop
                                 ELSE [stop EXCEPT !.place = p]
  BY <1>1, <1>3, <1>4 DEF ResolveStop, PlacedAt
<1> QED
  BY <1>5, <1>6 DEF IsStop

LEMMA AttachQuestion ==
    ASSUME Questioned, topic = "attach"
    PROVE  /\ AreTerminals(question.terms)
           /\ \A t \in DOMAIN question.trips :
                /\ Len(question.trips[t].stops) \in Nat
                /\ DOMAIN question.trips[t].stops = 1..Len(question.trips[t].stops)
                /\ \A i \in DOMAIN question.trips[t].stops :
                     /\ IsStop(question.trips[t].stops[i])
                     /\ "place" \in DOMAIN question.trips[t].stops[i]
<1>1. question \in Enquiries.attach
  BY DEF Questioned
<1>2. AreTerminals(question.terms)
  BY <1>1, TripAttachAssumption DEF AreTerminals
<1>3. ASSUME NEW t \in DOMAIN question.trips
      PROVE  /\ Len(question.trips[t].stops) \in Nat
             /\ DOMAIN question.trips[t].stops = 1..Len(question.trips[t].stops)
             /\ \A i \in DOMAIN question.trips[t].stops :
                  /\ IsStop(question.trips[t].stops[i])
                  /\ "place" \in DOMAIN question.trips[t].stops[i]
  <2>1. PICK stops : stops = question.trips[t].stops
    OBVIOUS
  <2>2. /\ stops \in Seq(Range(stops))
        /\ \A s \in Range(stops) : /\ {"place", "arr", "dep"} \subseteq DOMAIN s
                                   /\ s.place \in Int /\ s.arr \in Int /\ s.dep \in Int
    BY <1>1, <2>1, TripAttachAssumption
  <2>3. \A i \in DOMAIN stops : stops[i] \in Range(stops)
    BY DEF Range
  <2>4. Len(stops) \in Nat /\ DOMAIN stops = 1..Len(stops)
    BY <2>2
  <2>5. \A i \in DOMAIN stops : IsStop(stops[i]) /\ "place" \in DOMAIN stops[i]
    BY <2>2, <2>3 DEF IsStop
  <2> QED
    BY <2>1, <2>4, <2>5
<1> QED
  BY <1>2, <1>3

LEMMA AttachTripWell ==
    ASSUME Questioned, topic = "attach", NEW t \in DOMAIN question.trips,
           NEW f, f = AttachTrip(question.source, question.trips[t], question.terms),
           f.fate = "promoted"
    PROVE  Drivable(f.times, question.terms)
<1>1. PICK terms, source, given :
        terms = question.terms /\ source = question.source /\ given = question.trips[t].stops
  OBVIOUS
<1>2. PICK N \in Nat : N = Len(given) /\ DOMAIN given = 1..N
  BY <1>1, AttachQuestion
<1>3. PICK stops : stops = [i \in 1..N |-> ResolveStop(terms, given[i])]
  OBVIOUS
<1>4. f = Resolved(source, stops, terms)
  BY <1>1, <1>2, <1>3 DEF AttachTrip, Fate
<1>5. AreTerminals(terms)
  BY <1>1, AttachQuestion
<1>6. \A i \in 1..N : IsStop(given[i]) /\ "place" \in DOMAIN given[i]
  BY <1>1, <1>2, AttachQuestion
<1>7. \A i \in 1..N : IsStop(stops[i])
  <2>1. \A i \in 1..N : IsStop(ResolveStop(terms, given[i]))
    BY <1>5, <1>6, ResolveStopIn
  <2> QED
    BY <1>3, <2>1
<1>8. Len(stops) = N
  BY <1>3
<1>9. MatchStops(source, stops, terms) \in Notes(Len(terms))
  BY <1>5, <1>7, <1>8, MatchStopsIn
<1>10. Drivable(f.times, terms)
  <2>1. PICK match \in Notes(Len(terms)) : match = MatchStops(source, stops, terms)
    BY <1>9
  <2>2. f = Matched(match, stops, terms)
    BY <1>4, <2>1 DEF Resolved
  <2> QED
    BY <1>5, <2>2, MatchedWell
<1> QED
  BY <1>1, <1>10

(***************************************************************************)
(* Whatever the import, the terminals and the limit, what is promoted can  *)
(* be driven: no stop is left before it is reached, and no leg, the ones   *)
(* across a gap included, is faster than the limit.                        *)
(***************************************************************************)
THEOREM PromotedAreDrivable == AlgorithmsSpec => []PromotedIsDrivable
<1> DEFINE Good(q, told) ==
        \A t \in {u \in DOMAIN told.fates : told.fates[u].fate = "promoted"} :
            Drivable(told.fates[t].times, q.terms)
<1>1. PromotedIsDrivable <=> (Replied("attach") => Good(question, Told))
  BY DEF PromotedIsDrivable, Promoted, Drivable
<1>2. PromotedIsDrivable' <=> (Replied("attach")' => Good(question', Told'))
  BY DEF PromotedIsDrivable, Promoted, Drivable
<1>3. PlanInit => Questioned /\ PromotedIsDrivable
  BY QuestionedInit, <1>1 DEF Replied
<1>4. Questioned /\ PromotedIsDrivable /\ [AlgorithmsNext]_planVars => PromotedIsDrivable'
  <2> SUFFICES ASSUME Questioned, PromotedIsDrivable, [AlgorithmsNext]_planVars,
                      Replied("attach")'
               PROVE  Good(question', Told')
    BY <1>2
  <2>0. topic = "attach"
    BY Stays DEF Replied
  <2>1. CASE answer' = answer
    <3>1. question' = question /\ Told' = Told /\ Replied("attach")
      BY <2>1, Stays DEF Replied, Told
    <3>2. Good(question, Told)
      BY <1>1, <3>1
    <3> QED
      BY <3>1, <3>2
  <2>2. CASE AttachTrips
    <3>1. PICK fates : fates = [t \in DOMAIN question.trips |->
                            AttachTrip(question.source, question.trips[t], question.terms)]
      OBVIOUS
    <3>2. Told' = Reported(fates) /\ question' = question
      BY <2>2, <3>1, ToldIs DEF AttachTrips
    <3>3. Told'.fates = fates
      BY <3>2 DEF Reported, Report
    <3>4. ASSUME NEW t \in DOMAIN fates, fates[t].fate = "promoted"
          PROVE  Drivable(fates[t].times, question.terms)
      <4>1. t \in DOMAIN question.trips
            /\ fates[t] = AttachTrip(question.source, question.trips[t], question.terms)
        BY <3>1
      <4> QED
        BY <2>0, <3>4, <4>1, AttachTripWell
    <3> QED
      BY <3>2, <3>3, <3>4
  <2> QED
    BY <2>0, <2>1, <2>2, Answering
<1> QED
  BY <1>3, <1>4, QuestionedStays, PTL DEF AlgorithmsSpec

-----------------------------------------------------------------------------
(* The networks of the providers made one.                                 *)

(* A name is the provider's own, or it and the provider's.                 *)
LEMMA NameIs ==
    ASSUME NEW taken, NEW provider, NEW id
    PROVE  /\ Name(taken, provider, id) = <<id>> \/ Name(taken, provider, id) = <<provider.name, id>>
           /\ Name(taken, provider, id) = <<id>> => <<id>> \notin taken
<1>1. CASE <<id>> \in taken
  BY <1>1 DEF Name
<1>2. CASE <<id>> \notin taken
  BY <1>2 DEF Name
<1> QED
  BY <1>1, <1>2

LEMMA NamesDiffer ==
    /\ \A a, b, c : <<a>> # <<b, c>>
    /\ \A a, b : <<a>> = <<b>> => a = b
    /\ \A a, b, c, d : <<a, b>> = <<c, d>> => a = c /\ b = d
<1>1. \A a, b, c : <<a>> # <<b, c>>
  <2> SUFFICES ASSUME NEW a, NEW b, NEW c, <<a>> = <<b, c>>
               PROVE  FALSE
    OBVIOUS
  <2>1. Len(<<a>>) = 1 /\ Len(<<b, c>>) = 2
    OBVIOUS
  <2> QED
    BY <2>1
<1>2. \A a, b : <<a>> = <<b>> => a = b
  OBVIOUS
<1>3. \A a, b, c, d : <<a, b>> = <<c, d>> => a = c /\ b = d
  OBVIOUS
<1> QED
  BY <1>1, <1>2, <1>3

LEMMA TripNameIs ==
    ASSUME NEW net, NEW p, NEW id, NEW t, t = TripName(net, p, id)
    PROVE  (t = <<id>> \/ t = <<p.name, id>>) /\ t[Len(t)] = id
<1>1. t = Name(DOMAIN net.trips, p, id)
  BY DEF TripName
<1>2. t = <<id>> \/ t = <<p.name, id>>
  BY <1>1 DEF Name
<1>3. CASE t = <<id>>
  BY <1>3
<1>4. CASE t = <<p.name, id>>
  BY <1>4
<1> QED
  BY <1>2, <1>3, <1>4

LEMMA TripNameOne ==
    ASSUME NEW net, NEW p
    PROVE  \A a, b : TripName(net, p, a) = TripName(net, p, b) => a = b
<1> SUFFICES ASSUME NEW a, NEW b, NEW t, t = TripName(net, p, a), t = TripName(net, p, b)
             PROVE  a = b
  OBVIOUS
<1>1. t = <<a>> \/ t = <<p.name, a>>
  BY DEF TripName, Name
<1>2. t = <<b>> \/ t = <<p.name, b>>
  BY DEF TripName, Name
<1> QED
  BY <1>1, <1>2, NamesDiffer

(* The providers before the n-th have named what the network has.          *)
Consistent(net) ==
    /\ \A h \in net.hops : h.from \in net.stops /\ h.to \in net.stops /\ h.dep <= h.arr
    /\ \A t \in DOMAIN net.trips :
        net.trips[t].route \in net.routes /\ net.trips[t].stops \in Seq(net.stops)
    /\ \A l \in net.links : l[1] \in net.stops /\ l[2] \in net.stops

NamedBy(providers, n, name) ==
    \/ \E id : name = <<id>>
    \/ \E i \in 1..n : \E id : Registers(providers, i) /\ name = <<providers[i].name, id>>

(* A hop without a trip is of one that its provider leaves out.            *)
LeftBy(providers, n, name) ==
    \E i \in 1..n : \E id \in DOMAIN providers[i].trips \ KeptTrips(providers[i]) :
        /\ Registers(providers, i)
        /\ name = <<id>> \/ name = <<providers[i].name, id>>

OnItsTrip(net, h) == h.trip \in DOMAIN net.trips /\ IsHopOf(h, net.trips[h.trip].stops)

Accounted(net, providers, n) ==
    /\ Consistent(net)
    /\ \A t \in DOMAIN net.trips : NamedBy(providers, n, t)
    /\ \A h \in net.hops :
        \/ OnItsTrip(net, h)
        \/ h.trip \notin DOMAIN net.trips /\ LeftBy(providers, n, h.trip)

(* The provider that is merged next, and what it brings.                   *)
LEMMA MergedStops ==
    ASSUME NEW net, NEW p, NEW s \in p.stops, s \notin Excluded(p)
    PROVE  StopName(net, p, s) \in Merge(net, p).stops
  BY DEF Merge

LEMMA MergedTrip ==
    ASSUME NEW net, NEW p, NEW t \in DOMAIN Merge(net, p).trips
    PROVE  \/ /\ t \in DOMAIN net.trips
              /\ Merge(net, p).trips[t] = net.trips[t]
           \/ /\ t \notin DOMAIN net.trips
              /\ \E id \in KeptTrips(p) :
                    /\ t = TripName(net, p, id)
                    /\ Merge(net, p).trips[t].route = RouteName(net, p, p.trips[id].route)
                    /\ Merge(net, p).trips[t].stops =
                          [i \in DOMAIN p.trips[id].stops |-> StopName(net, p, p.trips[id].stops[i])]
<1> DEFINE own == {TripName(net, p, id) : id \in KeptTrips(p)}
<1>1. Merge(net, p).trips = MergedTrips(net, p)
  BY DEF Merge
<1>2. DOMAIN MergedTrips(net, p) = DOMAIN net.trips \cup own
  BY DEF MergedTrips
<1>3. CASE t \in DOMAIN net.trips
  BY <1>1, <1>2, <1>3 DEF MergedTrips
<1>4. CASE t \notin DOMAIN net.trips
  <2>1. PICK id \in KeptTrips(p) : t = TripName(net, p, id)
    BY <1>1, <1>2, <1>4
  <2>2. t[Len(t)] = id
    BY <2>1, TripNameIs
  <2>3. MergedTrips(net, p)[t] =
          [route |-> RouteName(net, p, p.trips[t[Len(t)]].route),
           stops |-> [i \in DOMAIN p.trips[t[Len(t)]].stops |->
                        StopName(net, p, p.trips[t[Len(t)]].stops[i])]]
    BY <1>1, <1>4 DEF MergedTrips
  <2>4. PICK trip : trip = p.trips[id]
    OBVIOUS
  <2>5. PICK stops : stops = [i \in DOMAIN trip.stops |-> StopName(net, p, trip.stops[i])]
    OBVIOUS
  <2>6. Merge(net, p).trips[t] = [route |-> RouteName(net, p, trip.route), stops |-> stops]
    BY <1>1, <2>2, <2>3, <2>4, <2>5
  <2> QED
    BY <1>4, <2>1, <2>4, <2>5, <2>6
<1> QED
  BY <1>3, <1>4

LEMMA NewTrip ==
    ASSUME NEW net, NEW p, NEW t, t \in DOMAIN Merge(net, p).trips, t \notin DOMAIN net.trips
    PROVE  \E id \in KeptTrips(p) : t = TripName(net, p, id)
  BY DEF Merge, MergedTrips

LEMMA MergedTripThere ==
    ASSUME NEW net, NEW p, NEW id \in KeptTrips(p)
    PROVE  TripName(net, p, id) \in DOMAIN Merge(net, p).trips
  BY DEF Merge, MergedTrips

LEMMA MergedHopIs ==
    ASSUME NEW net, NEW p, NEW h \in Merge(net, p).hops
    PROVE  \/ h \in net.hops
           \/ \E g \in p.hops :
                /\ g.from \notin Excluded(p) /\ g.to \notin Excluded(p) /\ g.dep <= g.arr
                /\ h.trip = TripName(net, p, g.trip) /\ h.from = StopName(net, p, g.from)
                /\ h.to = StopName(net, p, g.to) /\ h.dep = g.dep /\ h.arr = g.arr
<1>1. Merge(net, p).hops = net.hops \cup {MergedHop(net, p, g) : g \in {k \in p.hops : KeptHop(p, k)}}
  BY DEF Merge
<1>2. CASE h \notin net.hops
  <2>1. PICK g \in p.hops : KeptHop(p, g) /\ h = MergedHop(net, p, g)
    BY <1>1, <1>2
  <2> QED
    BY <2>1 DEF KeptHop, MergedHop
<1> QED
  BY <1>2

(* A name that a provider gives is not yet taken.                          *)
LEMMA NewName ==
    ASSUME NEW net, NEW providers, NEW n \in Nat, n > 0, Registers(providers, n),
           \A t \in DOMAIN net.trips : NamedBy(providers, n - 1, t), NEW id
    PROVE  TripName(net, providers[n], id) \notin DOMAIN net.trips
<1>0. /\ \/ TripName(net, providers[n], id) = <<id>>
         \/ TripName(net, providers[n], id) = <<providers[n].name, id>>
      /\ TripName(net, providers[n], id) = <<id>> => <<id>> \notin DOMAIN net.trips
  BY NameIs DEF TripName
<1>1. CASE TripName(net, providers[n], id) = <<id>>
  BY <1>0, <1>1
<1>2. CASE TripName(net, providers[n], id) = <<providers[n].name, id>>
  <2> SUFFICES ASSUME NamedBy(providers, n - 1, <<providers[n].name, id>>)
               PROVE  FALSE
    BY <1>2
  <2>1. PICK i \in 1..(n - 1) : \E other : <<providers[n].name, id>> = <<providers[i].name, other>>
    BY NamesDiffer DEF NamedBy
  <2>2. providers[n].name = providers[i].name
    BY <2>1, NamesDiffer
  <2> QED
    BY <2>2 DEF Registers
<1> QED
  BY <1>0, <1>1, <1>2

(* The n-th provider merged.                                               *)
LEMMA MergeKeeps ==
    ASSUME NEW net, NEW providers, NEW n \in Nat, n > 0,
           n \in DOMAIN providers, 1..n \subseteq DOMAIN providers,
           Registers(providers, n), Sound(providers[n]), NoHomonym(providers),
           Accounted(net, providers, n - 1)
    PROVE  Accounted(Merge(net, providers[n]), providers, n)
<1>1. PICK p : p = providers[n]
  OBVIOUS
<1>2. PICK new : new = Merge(net, p)
  OBVIOUS
<1>3. net.stops \subseteq new.stops /\ net.routes \subseteq new.routes
  BY <1>2 DEF Merge
<1>4. \A s \in p.stops : s \notin Excluded(p) => StopName(net, p, s) \in new.stops
  BY <1>2, MergedStops
<1>5. \A id : TripName(net, p, id) \notin DOMAIN net.trips
  BY <1>1, NewName DEF Accounted
<1>6. ASSUME NEW t \in DOMAIN new.trips
      PROVE  /\ new.trips[t].route \in new.routes /\ new.trips[t].stops \in Seq(new.stops)
             /\ NamedBy(providers, n, t)
  <2>1. CASE t \in DOMAIN net.trips
    <3>1. new.trips[t] = net.trips[t]
      BY <1>2, <1>6, <2>1, MergedTrip
    <3>2. net.trips[t].route \in net.routes /\ net.trips[t].stops \in Seq(net.stops)
      BY <2>1 DEF Accounted, Consistent
    <3>3. net.trips[t].stops \in Seq(new.stops)
      BY <1>3, <3>2
    <3>4. NamedBy(providers, n, t)
      BY <2>1 DEF Accounted, NamedBy
    <3> QED
      BY <1>3, <3>1, <3>2, <3>3, <3>4
  <2>2. CASE t \notin DOMAIN net.trips
    <3>1. PICK id \in KeptTrips(p) :
            /\ t = TripName(net, p, id)
            /\ new.trips[t].route = RouteName(net, p, p.trips[id].route)
            /\ new.trips[t].stops =
                  [i \in DOMAIN p.trips[id].stops |-> StopName(net, p, p.trips[id].stops[i])]
      BY <1>2, <1>6, <2>2, MergedTrip
    <3>2. PICK given : given = p.trips[id].stops
      OBVIOUS
    <3>3. /\ p.trips[id].route \in p.routes /\ given \in Seq(p.stops)
          /\ Range(given) \cap Excluded(p) = {}
      BY <1>1, <3>2 DEF Sound, KeptTrips
    <3>4. new.trips[t].route \in new.routes
      BY <1>2, <3>1, <3>3 DEF Merge
    <3>5. PICK l \in Nat : DOMAIN given = 1..l
      BY <3>3
    <3>6. \A i \in 1..l : StopName(net, p, given[i]) \in new.stops
      <4>1. \A i \in 1..l : given[i] \in p.stops /\ given[i] \notin Excluded(p)
        BY <3>3, <3>5 DEF Range
      <4> QED
        BY <1>4, <4>1
    <3>7. PICK stops : stops = [i \in 1..l |-> StopName(net, p, given[i])]
      OBVIOUS
    <3>8. stops \in Seq(new.stops)
      <4>1. stops \in [1..l -> new.stops]
        BY <3>6, <3>7
      <4> QED
        BY <4>1
    <3>9. NamedBy(providers, n, t)
      <4>1. t = <<id>> \/ t = <<p.name, id>>
        BY <3>1, TripNameIs
      <4>2. n \in 1..n
        OBVIOUS
      <4> QED
        BY <1>1, <4>1, <4>2 DEF NamedBy
    <3> QED
      BY <3>1, <3>2, <3>4, <3>5, <3>7, <3>8, <3>9
  <2> QED
    BY <2>1, <2>2
<1>7. ASSUME NEW h \in new.hops
      PROVE  /\ h.from \in new.stops /\ h.to \in new.stops /\ h.dep <= h.arr
             /\ \/ OnItsTrip(new, h)
                \/ h.trip \notin DOMAIN new.trips /\ LeftBy(providers, n, h.trip)
  <2>1. CASE h \in net.hops
    <3>1. h.from \in net.stops /\ h.to \in net.stops /\ h.dep <= h.arr
      BY <2>1 DEF Accounted, Consistent
    <3>2. CASE OnItsTrip(net, h)
      <4>1. h.trip \in DOMAIN new.trips
        BY <1>2, <3>2 DEF OnItsTrip, Merge, MergedTrips
      <4>2. new.trips[h.trip] = net.trips[h.trip]
        BY <1>2, <3>2, <4>1, MergedTrip DEF OnItsTrip
      <4> QED
        BY <1>3, <3>1, <3>2, <4>1, <4>2 DEF OnItsTrip
    <3>3. CASE h.trip \notin DOMAIN net.trips /\ LeftBy(providers, n - 1, h.trip)
      <4>0. PICK i \in 1..(n - 1) : \E id \in DOMAIN providers[i].trips \ KeptTrips(providers[i]) :
              Registers(providers, i) /\ (h.trip = <<id>> \/ h.trip = <<providers[i].name, id>>)
        BY <3>3 DEF LeftBy
      <4>1. PICK id \in DOMAIN providers[i].trips \ KeptTrips(providers[i]) :
              Registers(providers, i) /\ (h.trip = <<id>> \/ h.trip = <<providers[i].name, id>>)
        BY <4>0
      <4>2. ASSUME h.trip \in DOMAIN new.trips
            PROVE  FALSE
        <5>1. PICK other \in KeptTrips(p) : h.trip = TripName(net, p, other)
          BY <1>2, <3>3, <4>2, NewTrip
        <5>2. h.trip = <<other>> \/ h.trip = <<p.name, other>>
          BY <5>1, TripNameIs
        <5>3. other \in DOMAIN p.trips /\ id \notin DOMAIN p.trips
          <6>1. i \in DOMAIN providers /\ i < n
            OBVIOUS
          <6>2. (DOMAIN providers[i].trips \ KeptTrips(providers[i])) \cap DOMAIN p.trips = {}
            BY <1>1, <4>1, <6>1 DEF NoHomonym
          <6> QED
            BY <6>2 DEF KeptTrips
        <5>4. p.name # providers[i].name
          BY <1>1 DEF Registers
        <5>5. CASE h.trip = <<id>>
          BY <5>2, <5>3, <5>5, NamesDiffer
        <5>6. CASE h.trip = <<providers[i].name, id>>
          BY <5>2, <5>4, <5>6, NamesDiffer
        <5> QED
          BY <4>1, <5>5, <5>6
      <4>3. LeftBy(providers, n, h.trip)
        <5>1. i \in 1..n
          OBVIOUS
        <5> QED
          BY <4>1, <5>1 DEF LeftBy
      <4> QED
        BY <1>3, <3>1, <4>2, <4>3
    <3> QED
      BY <2>1, <3>2, <3>3 DEF Accounted
  <2>2. CASE h \notin net.hops
    <3>1. PICK g \in p.hops :
            /\ g.from \notin Excluded(p) /\ g.to \notin Excluded(p) /\ g.dep <= g.arr
            /\ h.trip = TripName(net, p, g.trip) /\ h.from = StopName(net, p, g.from)
            /\ h.to = StopName(net, p, g.to) /\ h.dep = g.dep /\ h.arr = g.arr
      BY <1>2, <2>2, MergedHopIs
    <3>2. /\ g.from \in p.stops /\ g.to \in p.stops /\ g.trip \in DOMAIN p.trips
          /\ IsHopOf(g, p.trips[g.trip].stops) /\ p.trips[g.trip].stops \in Seq(p.stops)
      BY <1>1 DEF Sound
    <3>3. h.from \in new.stops /\ h.to \in new.stops /\ h.dep <= h.arr
      BY <1>4, <3>1, <3>2
    <3>4. h.trip \notin DOMAIN net.trips
      BY <1>5, <3>1
    <3>5. CASE g.trip \in KeptTrips(p)
      <4>1. h.trip \in DOMAIN new.trips
        BY <1>2, <3>1, <3>5, MergedTripThere
      <4>2. PICK id \in KeptTrips(p) :
              /\ h.trip = TripName(net, p, id)
              /\ new.trips[h.trip].stops =
                    [i \in DOMAIN p.trips[id].stops |-> StopName(net, p, p.trips[id].stops[i])]
        BY <1>2, <3>4, <4>1, MergedTrip
      <4>3. id = g.trip
        <5>1. \A a, b : TripName(net, p, a) = TripName(net, p, b) => a = b
          BY TripNameOne
        <5> QED
          BY <3>1, <4>2, <5>1
      <4>4. PICK given : given = p.trips[g.trip].stops
        OBVIOUS
      <4>5. PICK stops : stops = new.trips[h.trip].stops
        OBVIOUS
      <4>6. given \in Seq(p.stops) /\ stops = [i \in DOMAIN given |-> StopName(net, p, given[i])]
        BY <3>2, <4>2, <4>3, <4>4, <4>5
      <4>7. PICK l \in Nat : l = Len(given) /\ DOMAIN given = 1..l
        BY <4>6
      <4>8. PICK k \in 2..l : given[k - 1] = g.from /\ given[k] = g.to
        BY <3>2, <4>4, <4>7 DEF IsHopOf
      <4>9. k - 1 \in 1..l /\ k \in 1..l
        BY <4>7, <4>8
      <4>10. stops[k - 1] = h.from /\ stops[k] = h.to
        BY <3>1, <4>6, <4>7, <4>8, <4>9
      <4>11. Len(stops) = l
        BY <4>6, <4>7
      <4> QED
        BY <3>3, <4>1, <4>5, <4>8, <4>10, <4>11 DEF OnItsTrip, IsHopOf
    <3>6. CASE g.trip \notin KeptTrips(p)
      <4>1. ASSUME h.trip \in DOMAIN new.trips
            PROVE  FALSE
        <5>1. PICK id \in KeptTrips(p) : h.trip = TripName(net, p, id)
          BY <1>2, <3>4, <4>1, NewTrip
        <5>2. \A a, b : TripName(net, p, a) = TripName(net, p, b) => a = b
          BY TripNameOne
        <5> QED
          BY <3>1, <3>6, <5>1, <5>2
      <4>2. LeftBy(providers, n, h.trip)
        <5>1. h.trip = <<g.trip>> \/ h.trip = <<p.name, g.trip>>
          BY <3>1, TripNameIs
        <5>2. n \in 1..n
          OBVIOUS
        <5> QED
          BY <1>1, <3>2, <3>6, <5>1, <5>2 DEF LeftBy
      <4> QED
        BY <3>3, <4>1, <4>2
    <3> QED
      BY <3>5, <3>6
  <2> QED
    BY <2>1, <2>2
<1>8. ASSUME NEW l \in new.links
      PROVE  l[1] \in new.stops /\ l[2] \in new.stops
  <2>1. new.links = net.links \cup MergedLinks(net, p)
    BY <1>2 DEF Merge
  <2>2. CASE l \in net.links
    BY <1>3, <2>2 DEF Accounted, Consistent
  <2>3. CASE l \in MergedLinks(net, p)
    <3>1. PICK k \in p.links :
            /\ k[1] \notin Excluded(p) /\ k[2] \notin Excluded(p)
            /\ l = <<StopName(net, p, k[1]), StopName(net, p, k[2])>>
      BY <2>3 DEF MergedLinks
    <3>2. k[1] \in p.stops /\ k[2] \in p.stops
      BY <1>1 DEF Sound
    <3> QED
      BY <1>4, <3>1, <3>2
  <2> QED
    BY <2>1, <2>2, <2>3
<1>9. Accounted(new, providers, n)
  BY <1>6, <1>7, <1>8 DEF Accounted, Consistent
<1> QED
  BY <1>1, <1>2, <1>9

(* The networks merged one after the other: the recursion has a solution.  *)
LEMMA MergedOneByOne ==
    ASSUME NEW providers, NEW N \in Nat, Len(providers) = N
    PROVE  \E net : /\ net[0] = NoNetwork /\ MergedNetwork(providers) = net[N]
                    /\ \A n \in 1..N : net[n] = MergedNext(net[n - 1], providers, n)
<1> DEFINE Solves(k, g) == g = [n \in 0..k |-> IF n = 0 THEN NoNetwork
                                               ELSE MergedNext(g[n - 1], providers, n)]
           T == {k \in 0..N : \E g : Solves(k, g)}
<1>1. 0 \in T
  <2> DEFINE g == [n \in 0..0 |-> NoNetwork]
  <2>1. \A n \in 0..0 : n = 0
    OBVIOUS
  <2>2. Solves(0, g)
    BY <2>1
  <2>3. 0 \in 0..N
    OBVIOUS
  <2> HIDE DEF g, Solves
  <2> QED
    BY <2>2, <2>3
<1>2. ASSUME NEW k \in 1..N, k - 1 \in T
      PROVE  k \in T
  <2>1. PICK h : Solves(k - 1, h)
    BY <1>2
  <2>2. PICK net : net = MergedNext(h[k - 1], providers, k)
    OBVIOUS
  <2> DEFINE g == [n \in 0..k |-> IF n = k THEN net ELSE h[n]]
  <2>3. \A n \in 0..k : n # k => n \in 0..(k - 1)
    OBVIOUS
  <2>4. \A n \in 0..k : g[n] = IF n = 0 THEN NoNetwork ELSE MergedNext(g[n - 1], providers, n)
    <3> SUFFICES ASSUME NEW n \in 0..k
                 PROVE  g[n] = IF n = 0 THEN NoNetwork ELSE MergedNext(g[n - 1], providers, n)
      OBVIOUS
    <3>1. CASE n = 0
      <4>1. g[n] = h[0] /\ 0 \in 0..(k - 1)
        BY <3>1
      <4>2. h[0] = NoNetwork
        BY <2>1, <4>1
      <4> QED
        BY <3>1, <4>1, <4>2
    <3>2. CASE n # 0
      <4>1. n - 1 \in 0..k /\ n - 1 # k
        BY <3>2
      <4>2. g[n - 1] = h[n - 1]
        BY <4>1
      <4>3. CASE n = k
        BY <2>2, <3>2, <4>2, <4>3
      <4>4. CASE n # k
        <5>1. n \in 0..(k - 1) /\ g[n] = h[n]
          BY <2>3, <4>4
        <5>2. h[n] = MergedNext(h[n - 1], providers, n)
          BY <2>1, <3>2, <5>1
        <5> QED
          BY <3>2, <4>2, <5>1, <5>2
      <4> QED
        BY <4>3, <4>4
    <3> QED
      BY <3>1, <3>2
  <2>5. Solves(k, g)
    <3>1. g = [n \in 0..k |-> g[n]]
      OBVIOUS
    <3> HIDE DEF g
    <3> QED
      BY <2>4, <3>1
  <2> HIDE DEF g, Solves
  <2> QED
    BY <2>5
<1>3. PICK g : Solves(N, g)
  <2> HIDE DEF T
  <2>1. N \in T
    BY <1>1, <1>2, UpTo
  <2> QED
    BY <2>1 DEF T
<1> DEFINE net[n \in 0..N] == IF n = 0 THEN NoNetwork ELSE MergedNext(net[n - 1], providers, n)
<1>4. net = [n \in 0..N |-> IF n = 0 THEN NoNetwork ELSE MergedNext(net[n - 1], providers, n)]
  BY <1>3 DEF net
<1>5. MergedNetwork(providers) = net[N]
  BY DEF MergedNetwork
<1> HIDE DEF net, T
<1>6. net[0] = NoNetwork
  BY <1>4
<1>7. \A n \in 1..N : net[n] = MergedNext(net[n - 1], providers, n)
  BY <1>4
<1> QED
  BY <1>5, <1>6, <1>7

LEMMA MergedWell ==
    ASSUME NEW providers, NEW N \in Nat, Len(providers) = N, DOMAIN providers = 1..N,
           NoHomonym(providers), \A i \in DOMAIN providers : Sound(providers[i])
    PROVE  Accounted(MergedNetwork(providers), providers, N)
<1>1. PICK net : /\ net[0] = NoNetwork /\ MergedNetwork(providers) = net[N]
                 /\ \A n \in 1..N : net[n] = MergedNext(net[n - 1], providers, n)
  BY MergedOneByOne
<1> DEFINE T == {n \in 0..N : Accounted(net[n], providers, n)}
<1>2. 0 \in T
  <2>1. Accounted(NoNetwork, providers, 0)
    BY DEF NoNetwork, Accounted, Consistent
  <2> QED
    BY <1>1, <2>1
<1>3. ASSUME NEW n \in 1..N, n - 1 \in T
      PROVE  n \in T
  <2>1. PICK before : before = net[n - 1]
    OBVIOUS
  <2>2. Accounted(before, providers, n - 1)
    BY <1>3, <2>1
  <2>3. CASE Registers(providers, n)
    <3>1. net[n] = Merge(before, providers[n])
      BY <1>1, <2>1, <2>3 DEF MergedNext
    <3>2. Accounted(Merge(before, providers[n]), providers, n)
      BY <2>2, <2>3, MergeKeeps
    <3> QED
      BY <3>1, <3>2
  <2>4. CASE ~Registers(providers, n)
    <3>1. net[n] = before
      BY <1>1, <2>1, <2>4 DEF MergedNext
    <3>2. 1..(n - 1) \subseteq 1..n
      OBVIOUS
    <3>3. \A name : NamedBy(providers, n - 1, name) => NamedBy(providers, n, name)
      BY <3>2 DEF NamedBy
    <3>4. \A name : LeftBy(providers, n - 1, name) => LeftBy(providers, n, name)
      BY <3>2 DEF LeftBy
    <3>5. Accounted(before, providers, n)
      BY <2>2, <3>3, <3>4 DEF Accounted
    <3> QED
      BY <3>1, <3>5
  <2> QED
    BY <2>3, <2>4
<1> HIDE DEF T
<1>4. N \in T
  BY <1>2, <1>3, UpTo
<1> QED
  BY <1>1, <1>4 DEF T

LEMMA MergeQuestion ==
    ASSUME Questioned, topic = "merge"
    PROVE  Len(question) \in Nat /\ DOMAIN question = 1..Len(question)
<1>1. question \in Seq(Range(question))
  BY ProviderMergeAssumption DEF Questioned
<1> QED
  BY <1>1

(***************************************************************************)
(* However many providers there are and whatever names they share: if each *)
(* one's network is sound and nobody uses the name of a trip another left  *)
(* out, every hop of the merged network is of its own trip, and what it    *)
(* names is there.                                                         *)
(***************************************************************************)
THEOREM MergedHopsAreOfTheirTrips == AlgorithmsSpec => []HopsOfTheirTrips
<1> DEFINE Given(q) == NoHomonym(q) /\ \A i \in DOMAIN q : Sound(q[i])
           Good(told) ==
            /\ \A h \in told.hops :
                /\ h.from \in told.stops /\ h.to \in told.stops /\ h.dep <= h.arr
                /\ h.trip \in DOMAIN told.trips => IsHopOf(h, told.trips[h.trip].stops)
            /\ \A t \in DOMAIN told.trips :
                told.trips[t].route \in told.routes /\ Range(told.trips[t].stops) \subseteq told.stops
            /\ \A l \in told.links : l[1] \in told.stops /\ l[2] \in told.stops
<1>1. HopsOfTheirTrips <=> (Replied("merge") /\ Given(question) => Good(Told))
  BY DEF HopsOfTheirTrips
<1>2. HopsOfTheirTrips' <=> (Replied("merge")' /\ Given(question') => Good(Told'))
  BY DEF HopsOfTheirTrips
<1>3. PlanInit => Questioned /\ HopsOfTheirTrips
  BY QuestionedInit, <1>1 DEF Replied
<1>4. Questioned /\ HopsOfTheirTrips /\ [AlgorithmsNext]_planVars => HopsOfTheirTrips'
  <2> SUFFICES ASSUME Questioned, HopsOfTheirTrips, [AlgorithmsNext]_planVars,
                      Replied("merge")', Given(question')
               PROVE  Good(Told')
    BY <1>2
  <2>0. topic = "merge" /\ question' = question
    BY Stays DEF Replied
  <2>1. CASE answer' = answer
    <3>1. Told' = Told /\ Replied("merge")
      BY <2>1, Stays DEF Replied, Told
    <3> HIDE DEF Good, Given
    <3>2. Good(Told)
      BY <1>1, <2>0, <3>1
    <3> QED
      BY <3>1, <3>2
  <2>2. CASE MergeProviders
    <3>1. PICK told : told = MergedNetwork(question)
      OBVIOUS
    <3>2. Told' = told
      BY <2>2, <3>1, ToldIs DEF MergeProviders
    <3>3. PICK N \in Nat : Len(question) = N /\ DOMAIN question = 1..N
      BY <2>0, MergeQuestion
    <3>4. Accounted(told, question, N)
      BY <2>0, <3>1, <3>3, MergedWell
    <3>5. \A t \in DOMAIN told.trips : Range(told.trips[t].stops) \subseteq told.stops
      <4>1. \A S : \A s \in Seq(S) : Range(s) \subseteq S
        BY DEF Range
      <4> QED
        BY <3>4, <4>1 DEF Accounted, Consistent
    <3>6. Good(told)
      BY <3>4, <3>5 DEF Accounted, Consistent, OnItsTrip
    <3> QED
      BY <3>2, <3>6
  <2> QED
    BY <2>0, <2>1, <2>2, Answering
<1> QED
  BY <1>3, <1>4, QuestionedStays, PTL DEF AlgorithmsSpec

-----------------------------------------------------------------------------
(***************************************************************************)
(* The import of a feed, its rows one after the other.  One that is begun  *)
(* again after it was torn off goes over rows it has stored already: up to *)
(* the tear the canon stays as the torn import left it, but for the rows   *)
(* it writes over on the way (Replays), and at the tear it is what it was. *)
(***************************************************************************)
(* What an import has at hand.                                             *)
IsFun(f) == f = [k \in DOMAIN f |-> f[k]]

CanonFields ==
    {"terminals", "strays", "services", "days", "exceptions", "routes", "trips", "frequencies",
     "times", "dead"}

IsCanon(c) ==
    /\ IsFun(c) /\ DOMAIN c = CanonFields
    /\ IsFun(c.services) /\ IsFun(c.exceptions) /\ IsFun(c.times)
    /\ c.dead \in BOOLEAN

IsImport(s) ==
    /\ IsFun(s) /\ DOMAIN s = {"canon", "stops", "routes", "trips"}
    /\ IsCanon(s.canon)

LEMMA SetIs ==
    ASSUME NEW f, NEW key, NEW v
    PROVE  /\ IsFun(Set(f, key, v)) /\ DOMAIN Set(f, key, v) = DOMAIN f \cup {key}
           /\ \A k \in DOMAIN f \cup {key} : Set(f, key, v)[k] = IF k = key THEN v ELSE f[k]
  BY DEF Set, IsFun

LEMMA KeepIs ==
    ASSUME NEW f, NEW key, NEW v
    PROVE  /\ DOMAIN Keep(f, key, v) = DOMAIN f \cup {key}
           /\ key \in DOMAIN f => Keep(f, key, v) = f
  BY SetIs DEF Keep

LEMMA SetGrows == \A f, key, v : DOMAIN f \subseteq DOMAIN Set(f, key, v)
  BY DEF Set

LEMMA KeepGrows == \A f, key, v : DOMAIN f \subseteq DOMAIN Keep(f, key, v)
  BY DEF Keep, Set

(* What a row changes of the canon, and what it remembers.                 *)
Changes(c, n, fields) ==
    IsCanon(n) /\ \A f \in CanonFields \ fields : n[f] = c[f]

LEMMA FieldSet ==
    ASSUME NEW c, IsCanon(c), NEW f \in CanonFields, NEW v, NEW n, n = [c EXCEPT ![f] = v],
           f \notin {"services", "exceptions", "times", "dead"}
    PROVE  Changes(c, n, {f}) /\ n[f] = v
<1>1. /\ IsFun(n) /\ DOMAIN n = CanonFields /\ n[f] = v
      /\ \A g \in CanonFields \ {f} : n[g] = c[g]
  BY DEF IsCanon, IsFun
<1>2. IsCanon(n)
  BY <1>1 DEF IsCanon, CanonFields
<1> QED
  BY <1>1, <1>2 DEF Changes

LEMMA FunSet ==
    ASSUME NEW c, IsCanon(c), NEW f \in {"services", "exceptions", "times"},
           NEW v, IsFun(v), NEW n, n = [c EXCEPT ![f] = v]
    PROVE  Changes(c, n, {f}) /\ n[f] = v
<1>1. f \in CanonFields
  BY DEF CanonFields
<1>3. /\ IsFun(n) /\ DOMAIN n = CanonFields /\ n[f] = v
      /\ \A h \in CanonFields \ {f} : n[h] = c[h]
  BY <1>1 DEF IsCanon, IsFun
<1>4. IsCanon(n)
  <2>1. \A h \in {"services", "exceptions", "times"} : IsFun(n[h])
    <3> SUFFICES ASSUME NEW h \in {"services", "exceptions", "times"}
                 PROVE  IsFun(n[h])
      OBVIOUS
    <3>1. CASE h = f
      BY <1>3, <3>1
    <3>2. CASE h # f
      <4>1. n[h] = c[h]
        BY <1>3, <3>2 DEF CanonFields
      <4>2. IsFun(c[h])
        BY DEF IsCanon
      <4> QED
        BY <4>1, <4>2
    <3> QED
      BY <3>1, <3>2
  <2>2. n.dead = c.dead
    BY <1>3 DEF CanonFields
  <2> QED
    BY <1>3, <2>1, <2>2 DEF IsCanon
<1> QED
  BY <1>3, <1>4 DEF Changes

LEMMA ExceptionsSet ==
    ASSUME NEW c, IsCanon(c), NEW v, IsFun(v), NEW n, n = [c EXCEPT !["exceptions"] = v]
    PROVE  Changes(c, n, {"exceptions"}) /\ n.exceptions = v
<1>1. "exceptions" \in {"services", "exceptions", "times"} /\ n = [c EXCEPT !["exceptions"] = v]
  OBVIOUS
<1>2. Changes(c, n, {"exceptions"})
  BY <1>1, FunSet
<1>3. n["exceptions"] = v
  BY <1>1 DEF IsCanon, CanonFields
<1> QED
  BY <1>2, <1>3

LEMMA Dies ==
    ASSUME NEW c, IsCanon(c), NEW n, n = [c EXCEPT !["dead"] = TRUE]
    PROVE  Changes(c, n, {"dead"}) /\ n.dead
<1>1. /\ IsFun(n) /\ DOMAIN n = CanonFields /\ n.dead = TRUE
      /\ \A g \in CanonFields \ {"dead"} : n[g] = c[g]
  BY DEF IsCanon, IsFun, CanonFields
<1>2. n.services = c.services /\ n.exceptions = c.exceptions /\ n.times = c.times
  BY <1>1 DEF CanonFields
<1>3. IsCanon(n)
  BY <1>1, <1>2 DEF IsCanon
<1> QED
  BY <1>1, <1>3 DEF Changes

LEMMA WithCanon ==
    ASSUME NEW s, IsImport(s), NEW c, IsCanon(c), NEW n, n = [s EXCEPT !.canon = c]
    PROVE  IsImport(n) /\ n.canon = c /\ n.stops = s.stops /\ n.routes = s.routes /\ n.trips = s.trips
  BY DEF IsImport, IsFun

(* What a row of a stop has still to write, and what a part of it leaves.   *)
Wanting(terminals, code) ==
    {w \in {"code", "primary"} : <<code, "code">> \notin terminals}
    \cup {w \in {"stop", "name"} : <<code, "stop">> \notin terminals}

Done(c, code, part) == {w \in Unwritten(c, code) : StopStatement[w] <= part}

Begun(c, n, code, done) ==
    /\ IsCanon(n) /\ \A f \in CanonFields \ {"terminals", "strays"} : n[f] = c[f]
    /\ n.terminals = c.terminals \cup ({code} \X (done \ {"terminal"}))
    /\ n.strays = IF "terminal" \in done /\ "code" \notin done THEN c.strays + 1 ELSE c.strays

LEMMA WriteStopIs ==
    ASSUME NEW c, IsCanon(c), NEW code, NEW part, NEW n, n = WriteStop(c, code, part)
    PROVE  Begun(c, n, code, Done(c, code, part))
<1>1. PICK done : done = Done(c, code, part)
  OBVIOUS
<1>2. PICK t, k : /\ t = c.terminals \cup ({code} \X (done \ {"terminal"}))
                  /\ k = IF "terminal" \in done /\ "code" \notin done THEN c.strays + 1 ELSE c.strays
  OBVIOUS
<1>3. n = [c EXCEPT !.terminals = t, !.strays = k]
  BY <1>1, <1>2 DEF WriteStop, Done
<1>4. /\ IsFun(n) /\ DOMAIN n = CanonFields /\ n.terminals = t /\ n.strays = k
      /\ \A f \in CanonFields \ {"terminals", "strays"} : n[f] = c[f]
  BY <1>3 DEF IsCanon, IsFun, CanonFields
<1>5. n.services = c.services /\ n.exceptions = c.exceptions /\ n.times = c.times /\ n.dead = c.dead
  BY <1>4 DEF CanonFields
<1>6. IsCanon(n)
  BY <1>4, <1>5 DEF IsCanon
<1> QED
  BY <1>1, <1>2, <1>4, <1>6 DEF Begun

LEMMA AllDone == \A c, code : Done(c, code, 5) = Unwritten(c, code)
  BY DEF Done, Unwritten, StopStatement

LEMMA UnwrittenIs ==
    \A c, code : /\ Unwritten(c, code) \ {"terminal"} = Wanting(c.terminals, code)
                 /\ "terminal" \in Unwritten(c, code) => "code" \in Unwritten(c, code)
  BY DEF Unwritten, Wanting

StopRowEffect(s, row, n) ==
    /\ IsImport(n) /\ Changes(s.canon, n.canon, {"terminals"})
    /\ n.canon.terminals
          = s.canon.terminals \cup ({row.code} \X Wanting(s.canon.terminals, row.code))
    /\ n.stops = Set(s.stops, row.id, row.code) /\ n.routes = s.routes /\ n.trips = s.trips

LEMMA StopRowIs ==
    ASSUME NEW s, IsImport(s), NEW row, NEW n, n = StopRow(s, row)
    PROVE  StopRowEffect(s, row, n)
<1>1. PICK c, d, code : c = s.canon /\ d = WriteStop(c, code, 5) /\ code = row.code
  OBVIOUS
<1>2. Begun(c, d, code, Unwritten(c, code))
  <2>1. IsCanon(c)
    BY <1>1 DEF IsImport
  <2> QED
    BY <1>1, <2>1, WriteStopIs, AllDone
<1>3. /\ IsCanon(d) /\ d.terminals = c.terminals \cup ({code} \X Wanting(c.terminals, code))
      /\ d.strays = c.strays
  BY <1>2, UnwrittenIs DEF Begun
<1>4. \A f \in CanonFields \ {"terminals"} : d[f] = c[f]
  <2>1. d["strays"] = c["strays"]
    BY <1>3
  <2> QED
    BY <1>2, <2>1 DEF Begun
<1>5. n = [s EXCEPT !.canon = d, !.stops = Set(s.stops, row.id, row.code)]
  BY <1>1 DEF StopRow, IsImport
<1>6. /\ IsFun(n) /\ DOMAIN n = DOMAIN s /\ n.canon = d
      /\ n.stops = Set(s.stops, row.id, row.code) /\ n.routes = s.routes /\ n.trips = s.trips
  BY <1>5 DEF IsImport, IsFun
<1> QED
  BY <1>1, <1>3, <1>4, <1>6 DEF IsImport, Changes, StopRowEffect

(* The same of a row of the calendar.                                      *)
DaysTo(row, part) == {row.id} \X (row.days \cap {WeekFromMonday[k] : k \in 1..(part - 1)})

Scheduled(c, n, row, part) ==
    /\ Changes(c, n, {"services", "days"})
    /\ n.services = IF part = 0 THEN c.services ELSE Set(c.services, row.id, row.dates)
    /\ n.days = c.days \cup DaysTo(row, part)

LEMMA WriteServiceIs ==
    ASSUME NEW c, IsCanon(c), NEW row, NEW part, NEW n, n = WriteService(c, row, part)
    PROVE  Scheduled(c, n, row, part)
<1>1. PICK services, days :
        /\ services = IF part = 0 THEN c.services ELSE Set(c.services, row.id, row.dates)
        /\ days = c.days \cup DaysTo(row, part)
  OBVIOUS
<1>2. IsFun(services)
  BY <1>1, SetIs DEF IsCanon
<1>3. n = [c EXCEPT !.services = services, !.days = days]
  BY <1>1 DEF WriteService, DaysTo
<1>4. /\ IsFun(n) /\ DOMAIN n = CanonFields /\ n.services = services /\ n.days = days
      /\ \A f \in CanonFields \ {"services", "days"} : n[f] = c[f]
  BY <1>3 DEF IsCanon, IsFun, CanonFields
<1>5. n.exceptions = c.exceptions /\ n.times = c.times /\ n.dead = c.dead
  BY <1>4 DEF CanonFields
<1>6. IsCanon(n)
  BY <1>2, <1>4, <1>5 DEF IsCanon
<1> QED
  BY <1>1, <1>4, <1>6 DEF Scheduled, Changes

ServiceRowEffect(s, row, n) ==
    /\ IsImport(n) /\ Changes(s.canon, n.canon, {"services", "days"})
    /\ n.canon.services = Set(s.canon.services, row.id, row.dates)
    /\ n.canon.days = s.canon.days \cup DaysTo(row, 8)
    /\ n.stops = s.stops /\ n.routes = s.routes /\ n.trips = s.trips

LEMMA ServiceRowIs ==
    ASSUME NEW s, IsImport(s), NEW row, NEW n, n = ServiceRow(s, row)
    PROVE  ServiceRowEffect(s, row, n)
<1>1. PICK c, d : c = s.canon /\ d = WriteService(c, row, 8)
  OBVIOUS
<1>2. IsCanon(c)
  BY <1>1 DEF IsImport
<1>3. Scheduled(c, d, row, 8) /\ IsCanon(d)
  BY <1>1, <1>2, WriteServiceIs DEF Scheduled, Changes
<1>4. n = [s EXCEPT !.canon = d]
  BY <1>1 DEF ServiceRow, IsImport
<1>5. IsImport(n) /\ n.canon = d /\ n.stops = s.stops /\ n.routes = s.routes /\ n.trips = s.trips
  BY <1>3, <1>4, WithCanon
<1> QED
  BY <1>1, <1>3, <1>5 DEF Scheduled, ServiceRowEffect

ExceptionRowEffect(s, row, n) ==
    /\ IsImport(n) /\ n.stops = s.stops /\ n.routes = s.routes /\ n.trips = s.trips
    /\ row.service \notin DOMAIN s.canon.services =>
         n.canon.dead /\ Changes(s.canon, n.canon, {"dead"})
    /\ row.service \in DOMAIN s.canon.services =>
         /\ Changes(s.canon, n.canon, {"exceptions"})
         /\ n.canon.exceptions = Set(s.canon.exceptions, <<row.service, row.date>>, row.type)

LEMMA ExceptionRowIs ==
    ASSUME NEW s, IsImport(s), NEW row, NEW n, n = ExceptionRow(s, row), ~s.canon.dead
    PROVE  ExceptionRowEffect(s, row, n)
<1>0. PICK e : e = Set(s.canon.exceptions, <<row.service, row.date>>, row.type) /\ IsFun(e)
  BY SetIs
<1> DEFINE b == [s.canon EXCEPT !["dead"] = TRUE]
           c == [s.canon EXCEPT !["exceptions"] = e]
<1>1. Changes(s.canon, b, {"dead"}) /\ b.dead
  BY Dies DEF IsImport
<1>2. Changes(s.canon, c, {"exceptions"}) /\ c.exceptions = e
  <2>1. PICK d, a : d = s.canon /\ a = c
    OBVIOUS
  <2>2. IsCanon(d) /\ IsFun(e) /\ a = [d EXCEPT !["exceptions"] = e]
    BY <1>0, <2>1 DEF IsImport
  <2>3. Changes(d, a, {"exceptions"}) /\ a.exceptions = e
    BY <2>2, ExceptionsSet
  <2> QED
    BY <2>1, <2>3
<1>3. n = [s EXCEPT !.canon = IF row.service \notin DOMAIN s.canon.services THEN b ELSE c]
  BY <1>0 DEF ExceptionRow, IsImport
<1> HIDE DEF b, c
<1> QED
  BY <1>0, <1>1, <1>2, <1>3, WithCanon DEF Changes, ExceptionRowEffect

RouteRowEffect(s, row, n) ==
    /\ IsImport(n) /\ Changes(s.canon, n.canon, {"routes"})
    /\ n.canon.routes = Keep(s.canon.routes, row.id, row.mode)
    /\ n.stops = s.stops /\ n.routes = s.routes \cup {row.id} /\ n.trips = s.trips

LEMMA RouteRowIs ==
    ASSUME NEW s, IsImport(s), NEW row, NEW n, n = RouteRow(s, row)
    PROVE  RouteRowEffect(s, row, n)
<1> DEFINE c == [s.canon EXCEPT !["routes"] = Keep(s.canon.routes, row.id, row.mode)]
<1>1. Changes(s.canon, c, {"routes"}) /\ c.routes = Keep(s.canon.routes, row.id, row.mode)
  BY FieldSet DEF IsImport, CanonFields
<1>2. n.canon = c /\ n.stops = s.stops /\ n.routes = s.routes \cup {row.id} /\ n.trips = s.trips
  BY DEF IsImport, IsCanon, RouteRow
<1>3. IsFun(n) /\ DOMAIN n = DOMAIN s
  BY DEF IsImport, IsFun, RouteRow
<1> HIDE DEF c
<1> QED
  BY <1>1, <1>2, <1>3 DEF IsImport, Changes, RouteRowEffect

NewTripOf(all, row) ==
    [service |-> row.service, days |-> {d[2] : d \in {e \in all : e[1] = row.service}}]

TripRowEffect(s, row, n) ==
    LET key == <<row.route, row.id>> IN
    /\ IsImport(n) /\ n.stops = s.stops /\ n.routes = s.routes
    /\ row.route \notin s.routes => n = s
    /\ row.route \in s.routes =>
         IF key \notin DOMAIN s.canon.trips /\ row.service \notin DOMAIN s.canon.services
         THEN n.canon.dead /\ Changes(s.canon, n.canon, {"dead"}) /\ n.trips = s.trips
         ELSE /\ Changes(s.canon, n.canon, {"trips"}) /\ n.trips = Set(s.trips, row.id, key)
              /\ n.canon.trips = Keep(s.canon.trips, key, NewTripOf(s.canon.days, row))
              /\ DOMAIN n.canon.trips = DOMAIN s.canon.trips \cup {key}
              /\ key \in DOMAIN s.canon.trips => n.canon.trips = s.canon.trips

LEMMA TripRowIs ==
    ASSUME NEW s, IsImport(s), NEW row, NEW n, n = TripRow(s, row), ~s.canon.dead
    PROVE  TripRowEffect(s, row, n)
<1> DEFINE key == <<row.route, row.id>>
<1>1. CASE row.route \notin s.routes
  BY <1>1 DEF TripRow, TripRowEffect
<1> DEFINE lost == key \notin DOMAIN s.canon.trips /\ row.service \notin DOMAIN s.canon.services
           b == [s.canon EXCEPT !["dead"] = TRUE]
           trip == NewTripOf(s.canon.days, row)
           c == [s.canon EXCEPT !["trips"] = Keep(s.canon.trips, key, trip)]
<1>2. CASE row.route \in s.routes /\ lost
  <2>1. Changes(s.canon, b, {"dead"}) /\ b.dead
    BY Dies DEF IsImport
  <2>2. n = [s EXCEPT !.canon = b]
    BY <1>2 DEF TripRow, IsImport
  <2> HIDE DEF b
  <2> QED
    BY <1>2, <2>1, <2>2, WithCanon DEF Changes, TripRowEffect
<1>3. CASE row.route \in s.routes /\ ~lost
  <2>1. Changes(s.canon, c, {"trips"}) /\ c.trips = Keep(s.canon.trips, key, trip)
    <3> HIDE DEF trip
    <3> QED
      BY FieldSet DEF IsImport, CanonFields
  <2>2. n = [s EXCEPT !.trips = Set(s.trips, row.id, key), !.canon.trips = Keep(s.canon.trips, key, trip)]
    BY <1>3 DEF TripRow, NewTripOf
  <2> HIDE DEF trip
  <2>3. n.canon = c /\ n.stops = s.stops /\ n.routes = s.routes /\ n.trips = Set(s.trips, row.id, key)
    BY <2>2 DEF IsImport, IsCanon
  <2>4. IsFun(n) /\ DOMAIN n = DOMAIN s
    BY <2>2 DEF IsImport, IsFun
  <2> HIDE DEF c
  <2>5. IsImport(n)
    BY <2>1, <2>3, <2>4 DEF IsImport, Changes
  <2>6. /\ c.trips = Keep(s.canon.trips, key, trip)
        /\ DOMAIN c.trips = DOMAIN s.canon.trips \cup {key}
        /\ key \in DOMAIN s.canon.trips => c.trips = s.canon.trips
    <3> DEFINE kept == Keep(s.canon.trips, key, trip)
    <3>1. c.trips = kept
      BY <2>1
    <3>2. DOMAIN kept = DOMAIN s.canon.trips \cup {key}
      BY KeepIs
    <3>3. key \in DOMAIN s.canon.trips => kept = s.canon.trips
      BY KeepIs
    <3> QED
      BY <3>1, <3>2, <3>3
  <2> QED
    BY <1>3, <2>1, <2>3, <2>5, <2>6 DEF TripRowEffect, trip
<1> QED
  BY <1>1, <1>2, <1>3

FrequencyRowEffect(s, row, n) ==
    LET key == <<s.trips[row.trip], row.start>> IN
    /\ IsImport(n) /\ n.stops = s.stops /\ n.routes = s.routes /\ n.trips = s.trips
    /\ row.trip \notin DOMAIN s.trips => n = s
    /\ row.trip \in DOMAIN s.trips =>
         /\ Changes(s.canon, n.canon, {"frequencies"})
         /\ n.canon.frequencies = Keep(s.canon.frequencies, key, row.headway)

LEMMA FrequencyRowIs ==
    ASSUME NEW s, IsImport(s), NEW row, NEW n, n = FrequencyRow(s, row)
    PROVE  FrequencyRowEffect(s, row, n)
<1> DEFINE key == <<s.trips[row.trip], row.start>>
<1> DEFINE c == [s.canon EXCEPT !["frequencies"] = Keep(s.canon.frequencies, key, row.headway)]
<1>1. Changes(s.canon, c, {"frequencies"})
      /\ c.frequencies = Keep(s.canon.frequencies, key, row.headway)
  BY FieldSet DEF IsImport, CanonFields
<1>2. n = IF row.trip \notin DOMAIN s.trips THEN s ELSE [s EXCEPT !.canon = c]
  BY DEF FrequencyRow, IsImport
<1> HIDE DEF c
<1> QED
  BY <1>1, <1>2, WithCanon DEF Changes, FrequencyRowEffect

TimeRowEffect(s, row, n) ==
    LET key == <<s.trips[row.trip], row.seq>>
        v == <<s.stops[row.stop], row.arr, row.dep>> IN
    /\ IsImport(n) /\ n.stops = s.stops /\ n.routes = s.routes /\ n.trips = s.trips
    /\ row.trip \notin DOMAIN s.trips \/ row.stop \notin DOMAIN s.stops => n = s
    /\ row.trip \in DOMAIN s.trips /\ row.stop \in DOMAIN s.stops =>
         Changes(s.canon, n.canon, {"times"}) /\ n.canon.times = Set(s.canon.times, key, v)

LEMMA TimeRowIs ==
    ASSUME NEW s, IsImport(s), NEW row, NEW n, n = TimeRow(s, row)
    PROVE  TimeRowEffect(s, row, n)
<1> DEFINE key == <<s.trips[row.trip], row.seq>>
           v == <<s.stops[row.stop], row.arr, row.dep>>
<1>0. PICK times : times = Set(s.canon.times, key, v) /\ IsFun(times)
  BY SetIs
<1> DEFINE c == [s.canon EXCEPT !["times"] = times]
<1>1. Changes(s.canon, c, {"times"}) /\ c.times = times
  <2>1. PICK d, a : d = s.canon /\ a = c
    OBVIOUS
  <2>2. IsCanon(d) /\ IsFun(times) /\ a = [d EXCEPT !["times"] = times]
    BY <1>0, <2>1 DEF IsImport
  <2>3. Changes(d, a, {"times"}) /\ a["times"] = times
    BY <2>2, FunSet
  <2> QED
    BY <2>1, <2>3
<1>2. n = IF row.trip \notin DOMAIN s.trips \/ row.stop \notin DOMAIN s.stops THEN s
          ELSE [s EXCEPT !.canon = c]
  BY <1>0 DEF TimeRow, IsImport
<1> HIDE DEF c
<1> QED
  BY <1>0, <1>1, <1>2, WithCanon DEF Changes, TimeRowEffect

(* Services are settled once their file has been read.                     *)
Late(step) == step[1] \notin {"stops", "calendar"}

KeyedFields == {"services", "exceptions", "routes", "trips", "frequencies", "times"}

(* A canon is only added to, and not at all once the import is dead.       *)
Grows(c, n) ==
    /\ c.terminals \subseteq n.terminals /\ c.days \subseteq n.days
    /\ \A f \in KeyedFields : DOMAIN c[f] \subseteq DOMAIN n[f]
    /\ c.dead => n = c

LEMMA ImportRowIs ==
    ASSUME NEW s, IsImport(s), NEW step, step[1] \in GtfsFiles
    PROVE  ImportRow(s, step) =
              IF s.canon.dead THEN s
              ELSE IF step[1] = "stops" THEN StopRow(s, step[2])
              ELSE IF step[1] = "calendar" THEN ServiceRow(s, step[2])
              ELSE IF step[1] = "calendar_dates" THEN ExceptionRow(s, step[2])
              ELSE IF step[1] = "routes" THEN RouteRow(s, step[2])
              ELSE IF step[1] = "trips" THEN TripRow(s, step[2])
              ELSE IF step[1] = "frequencies" THEN FrequencyRow(s, step[2])
              ELSE TimeRow(s, step[2])
  BY DEF ImportRow, GtfsFiles

(* It does if what is changed of it does.                                  *)
FieldGrows(f, old, new) ==
    \/ f \in {"terminals", "days"} /\ old \subseteq new
    \/ f \in KeyedFields /\ DOMAIN old \subseteq DOMAIN new
    \/ f = "dead"

LEMMA ChangesGrow ==
    ASSUME NEW c, NEW n, NEW fields, Changes(c, n, fields), ~c.dead,
           \A f \in fields : FieldGrows(f, c[f], n[f])
    PROVE  /\ Grows(c, n)
           /\ "services" \notin fields => n.services = c.services
<1>1. \A f \in CanonFields : n[f] = c[f] \/ FieldGrows(f, c[f], n[f])
  BY DEF Changes
<1>2. n["terminals"] = c["terminals"] \/ FieldGrows("terminals", c["terminals"], n["terminals"])
  BY <1>1 DEF CanonFields
<1>3. n["days"] = c["days"] \/ FieldGrows("days", c["days"], n["days"])
  BY <1>1 DEF CanonFields
<1>4. \A f \in KeyedFields : n[f] = c[f] \/ FieldGrows(f, c[f], n[f])
  BY <1>1 DEF CanonFields, KeyedFields
<1>5. \A f \in KeyedFields : f \notin {"terminals", "days", "dead"}
  BY DEF KeyedFields
<1>6. \A f \in KeyedFields : DOMAIN c[f] \subseteq DOMAIN n[f]
  BY <1>4, <1>5 DEF FieldGrows
<1>7. c.terminals \subseteq n.terminals /\ c.days \subseteq n.days
  BY <1>2, <1>3 DEF FieldGrows, KeyedFields
<1>8. "services" \notin fields => n["services"] = c["services"]
  BY DEF Changes, CanonFields
<1> QED
  BY <1>6, <1>7, <1>8 DEF Grows

LEMMA RowGrows ==
    ASSUME NEW s, IsImport(s), NEW step, step[1] \in GtfsFiles, NEW n, n = ImportRow(s, step)
    PROVE  /\ IsImport(n) /\ Grows(s.canon, n.canon)
           /\ s.canon.dead => n = s
           /\ Late(step) => n.canon.services = s.canon.services
<1>1. CASE s.canon.dead
  BY <1>1, ImportRowIs DEF Grows
<1> DEFINE Few(fields) ==
        /\ Changes(s.canon, n.canon, fields)
        /\ \A f \in fields : FieldGrows(f, s.canon[f], n.canon[f])
<1>0. ASSUME NEW fields, Few(fields), ~s.canon.dead, IsImport(n),
             Late(step) => "services" \notin fields
      PROVE  /\ IsImport(n) /\ Grows(s.canon, n.canon)
             /\ s.canon.dead => n = s
             /\ Late(step) => n.canon.services = s.canon.services
  BY <1>0, ChangesGrow
<1>2. CASE ~s.canon.dead /\ step[1] = "stops"
  <2>1. PICK row : row = step[2] /\ n = StopRow(s, row)
    BY <1>2, ImportRowIs
  <2>2. StopRowEffect(s, row, n)
    BY <1>2, <2>1, StopRowIs
  <2>3. IsImport(n) /\ (Few({"terminals"}))
    BY <2>2 DEF StopRowEffect, FieldGrows, KeyedFields
  <2>4. CASE n = s
    BY <1>2, <2>3, <2>4 DEF Grows
  <2> HIDE DEF Few
  <2> QED
    BY <1>0, <1>2, <2>3, <2>4 DEF Late
<1>3. CASE ~s.canon.dead /\ step[1] = "calendar"
  <2>1. PICK row : row = step[2] /\ n = ServiceRow(s, row)
    BY <1>3, ImportRowIs
  <2>2. ServiceRowEffect(s, row, n)
    BY <1>3, <2>1, ServiceRowIs
  <2>5. DOMAIN s.canon.services
            \subseteq DOMAIN Set(s.canon.services, row.id, row.dates)
    BY SetGrows
  <2>3. IsImport(n) /\ (Few({"services", "days"}))
    BY <2>2, <2>5 DEF ServiceRowEffect, FieldGrows, KeyedFields
  <2>4. CASE n = s
    BY <1>3, <2>3, <2>4 DEF Grows
  <2> HIDE DEF Few
  <2> QED
    BY <1>0, <1>3, <2>3, <2>4 DEF Late
<1>4. CASE ~s.canon.dead /\ step[1] = "calendar_dates"
  <2>1. PICK row : row = step[2] /\ n = ExceptionRow(s, row)
    BY <1>4, ImportRowIs
  <2>2. ExceptionRowEffect(s, row, n)
    BY <1>4, <2>1, ExceptionRowIs
  <2>5. DOMAIN s.canon.exceptions
            \subseteq DOMAIN Set(s.canon.exceptions, <<row.service, row.date>>, row.type)
    BY SetGrows
  <2>3. IsImport(n) /\ (Few({"dead"}) \/ Few({"exceptions"}))
    BY <2>2, <2>5 DEF ExceptionRowEffect, FieldGrows, KeyedFields
  <2>4. CASE n = s
    BY <1>4, <2>3, <2>4 DEF Grows
  <2> HIDE DEF Few
  <2> QED
    BY <1>0, <1>4, <2>3, <2>4 DEF Late
<1>5. CASE ~s.canon.dead /\ step[1] = "routes"
  <2>1. PICK row : row = step[2] /\ n = RouteRow(s, row)
    BY <1>5, ImportRowIs
  <2>2. RouteRowEffect(s, row, n)
    BY <1>5, <2>1, RouteRowIs
  <2>5. DOMAIN s.canon.routes
            \subseteq DOMAIN Keep(s.canon.routes, row.id, row.mode)
    BY KeepGrows
  <2>3. IsImport(n) /\ (Few({"routes"}))
    BY <2>2, <2>5 DEF RouteRowEffect, FieldGrows, KeyedFields
  <2>4. CASE n = s
    BY <1>5, <2>3, <2>4 DEF Grows
  <2> HIDE DEF Few
  <2> QED
    BY <1>0, <1>5, <2>3, <2>4 DEF Late
<1>6. CASE ~s.canon.dead /\ step[1] = "trips"
  <2>1. PICK row : row = step[2] /\ n = TripRow(s, row)
    BY <1>6, ImportRowIs
  <2>2. TripRowEffect(s, row, n)
    BY <1>6, <2>1, TripRowIs
  <2>3. IsImport(n) /\ (n = s \/ Few({"dead"}) \/ Few({"trips"}))
    BY <2>2 DEF TripRowEffect, FieldGrows, KeyedFields
  <2>4. CASE n = s
    BY <1>6, <2>3, <2>4 DEF Grows
  <2> HIDE DEF Few
  <2> QED
    BY <1>0, <1>6, <2>3, <2>4 DEF Late
<1>7. CASE ~s.canon.dead /\ step[1] = "frequencies"
  <2>1. PICK row : row = step[2] /\ n = FrequencyRow(s, row)
    BY <1>7, ImportRowIs
  <2>2. FrequencyRowEffect(s, row, n)
    BY <1>7, <2>1, FrequencyRowIs
  <2>5. DOMAIN s.canon.frequencies
            \subseteq DOMAIN Keep(s.canon.frequencies, <<s.trips[row.trip], row.start>>, row.headway)
    BY KeepGrows
  <2>3. IsImport(n) /\ (n = s \/ Few({"frequencies"}))
    BY <2>2, <2>5 DEF FrequencyRowEffect, FieldGrows, KeyedFields
  <2>4. CASE n = s
    BY <1>7, <2>3, <2>4 DEF Grows
  <2> HIDE DEF Few
  <2> QED
    BY <1>0, <1>7, <2>3, <2>4 DEF Late
<1>8. CASE ~s.canon.dead /\ step[1] = "stop_times"
  <2>1. PICK row : row = step[2] /\ n = TimeRow(s, row)
    BY <1>8, ImportRowIs
  <2>2. TimeRowEffect(s, row, n)
    BY <1>8, <2>1, TimeRowIs
  <2>5. DOMAIN s.canon.times
            \subseteq DOMAIN Set(s.canon.times, <<s.trips[row.trip], row.seq>>, <<s.stops[row.stop], row.arr, row.dep>>)
    BY SetGrows
  <2>3. IsImport(n) /\ (n = s \/ Few({"times"}))
    BY <2>2, <2>5 DEF TimeRowEffect, FieldGrows, KeyedFields
  <2>4. CASE n = s
    BY <1>8, <2>3, <2>4 DEF Grows
  <2> HIDE DEF Few
  <2> QED
    BY <1>0, <1>8, <2>3, <2>4 DEF Late
<1> QED
  BY <1>1, <1>2, <1>3, <1>4, <1>5, <1>6, <1>7, <1>8 DEF GtfsFiles

(* A canon torn off after some rows, when they are imported again: of what *)
(* is written over, every row is as the torn import left it, or as it is   *)
(* at this point of an import that had not died; the rest is as it left it.*)
WrittenFields == {"services", "exceptions", "times"}

Mixed(g, h, t) ==
    /\ DOMAIN g = DOMAIN t
    /\ \A k \in DOMAIN t : g[k] = t[k] \/ (k \in DOMAIN h /\ g[k] = h[k])

FieldReplays(f, g, h, t) == IF f \in WrittenFields THEN Mixed(g, h, t) ELSE g = t

Remembers(r, s) ==
    r.stops = s.stops /\ r.routes = s.routes /\ r.trips = s.trips /\ r.canon.dead = s.canon.dead

Replays(r, s, torn) ==
    /\ Remembers(r, s)
    /\ \A f \in CanonFields \ {"dead"} : FieldReplays(f, r.canon[f], s.canon[f], torn[f])

LEMMA SetMixes ==
    \A g, h, t, key, v : Mixed(g, h, t) /\ key \in DOMAIN t => Mixed(Set(g, key, v), Set(h, key, v), t)
<1> SUFFICES ASSUME NEW g, NEW h, NEW t, NEW key, NEW v, Mixed(g, h, t), key \in DOMAIN t
             PROVE  Mixed(Set(g, key, v), Set(h, key, v), t)
  OBVIOUS
<1> DEFINE a == Set(g, key, v)
           b == Set(h, key, v)
<1>1. /\ DOMAIN a = DOMAIN t
      /\ \A k \in DOMAIN t : a[k] = IF k = key THEN v ELSE g[k]
  BY DEF Mixed, Set
<1>2. /\ DOMAIN b = DOMAIN h \cup {key}
      /\ \A k \in DOMAIN b : b[k] = IF k = key THEN v ELSE h[k]
  BY DEF Mixed, Set
<1> HIDE DEF a, b
<1>3. ASSUME NEW k \in DOMAIN t
      PROVE  a[k] = t[k] \/ (k \in DOMAIN b /\ a[k] = b[k])
  BY <1>1, <1>2, <1>3 DEF Mixed
<1> QED
  BY <1>1, <1>3 DEF Mixed, a, b

LEMMA KeepsWhatIs == \A f, key, v : key \in DOMAIN f => Keep(f, key, v) = f
  BY DEF Keep

LEMMA KeyIsSet == \A f, key, v : key \in DOMAIN Set(f, key, v) /\ key \in DOMAIN Keep(f, key, v)
  BY DEF Keep, Set

LEMMA RestReplays ==
    ASSUME NEW r, NEW s, NEW torn, Replays(r, s, torn), NEW m, NEW n, NEW fields,
           Changes(r.canon, m.canon, fields), Changes(s.canon, n.canon, fields),
           \A f \in fields \ {"dead"} : FieldReplays(f, m.canon[f], n.canon[f], torn[f]),
           "dead" \in fields => m.canon.dead = n.canon.dead,
           m.stops = n.stops, m.routes = n.routes, m.trips = n.trips
    PROVE  Replays(m, n, torn)
<1>1. ASSUME NEW f \in CanonFields \ {"dead"}, f \notin fields
      PROVE  FieldReplays(f, m.canon[f], n.canon[f], torn[f])
  <2>1. m.canon[f] = r.canon[f] /\ n.canon[f] = s.canon[f]
    BY <1>1 DEF Changes
  <2> QED
    BY <2>1 DEF Replays
<1>2. "dead" \notin fields => m.canon["dead"] = r.canon["dead"] /\ n.canon["dead"] = s.canon["dead"]
  BY DEF Changes, CanonFields
<1>3. m.canon.dead = n.canon.dead
  BY <1>2 DEF Replays, Remembers
<1> QED
  BY <1>1, <1>3 DEF Replays, Remembers

(* The canon holds what an import came to, and is it if the import died.   *)
Holds(torn, c) ==
    /\ c.terminals \subseteq torn.terminals /\ c.days \subseteq torn.days
    /\ \A f \in KeyedFields : DOMAIN c[f] \subseteq DOMAIN torn[f]
    /\ c.dead => torn = c

LEMMA NoneWanting ==
    ASSUME NEW t, NEW u, NEW code, u \cup ({code} \X Wanting(u, code)) \subseteq t
    PROVE  /\ <<code, "code">> \in t /\ <<code, "stop">> \in t
           /\ Wanting(t, code) = {}
<1>1. <<code, "code">> \in t
  BY DEF Wanting
<1>2. <<code, "stop">> \in t
  BY DEF Wanting
<1> QED
  BY <1>1, <1>2 DEF Wanting

LEMMA StopReplays ==
    ASSUME NEW r, NEW s, NEW torn, Replays(r, s, torn), NEW row, NEW m, NEW n,
           StopRowEffect(r, row, m), StopRowEffect(s, row, n), Holds(torn, n.canon)
    PROVE  Replays(m, n, torn)
<1>1. r.canon["terminals"] = torn["terminals"]
  BY DEF Replays, FieldReplays, CanonFields, WrittenFields
<1>2. m.canon.terminals = torn.terminals
  <2>1. PICK t, u, code : t = torn.terminals /\ u = s.canon.terminals /\ code = row.code
    OBVIOUS
  <2>2. u \cup ({code} \X Wanting(u, code)) \subseteq t
    BY <2>1 DEF StopRowEffect, Holds
  <2>3. Wanting(t, code) = {}
    BY <2>2, NoneWanting
  <2>4. m.canon.terminals = t \cup ({code} \X Wanting(t, code))
    BY <1>1, <2>1 DEF StopRowEffect
  <2> QED
    BY <2>1, <2>3, <2>4
<1>3. FieldReplays("terminals", m.canon["terminals"], n.canon["terminals"], torn["terminals"])
  BY <1>2 DEF FieldReplays, WrittenFields
<1>4. m.stops = n.stops /\ m.routes = n.routes /\ m.trips = n.trips
  BY DEF StopRowEffect, Replays, Remembers
<1>5. Changes(r.canon, m.canon, {"terminals"}) /\ Changes(s.canon, n.canon, {"terminals"})
  BY DEF StopRowEffect
<1> QED
  BY <1>3, <1>4, <1>5, RestReplays

LEMMA ServiceReplays ==
    ASSUME NEW r, NEW s, NEW torn, Replays(r, s, torn), NEW row, NEW m, NEW n,
           ServiceRowEffect(r, row, m), ServiceRowEffect(s, row, n), Holds(torn, n.canon)
    PROVE  Replays(m, n, torn)
<1>1. r.canon["days"] = torn["days"] /\ Mixed(r.canon["services"], s.canon["services"], torn["services"])
  BY DEF Replays, FieldReplays, CanonFields, WrittenFields
<1>2. m.canon.days = torn.days
  BY <1>1 DEF ServiceRowEffect, Holds
<1>3. FieldReplays("days", m.canon["days"], n.canon["days"], torn["days"])
  BY <1>2 DEF FieldReplays, WrittenFields
<1>4. PICK key, v : key = row.id /\ v = row.dates
  OBVIOUS
<1>5. m.canon.services = Set(r.canon.services, key, v) /\ n.canon.services = Set(s.canon.services, key, v)
  BY <1>4 DEF ServiceRowEffect
<1>6. key \in DOMAIN torn["services"]
  BY <1>5, KeyIsSet DEF Holds, KeyedFields
<1>7. FieldReplays("services", m.canon["services"], n.canon["services"], torn["services"])
  BY <1>1, <1>5, <1>6, SetMixes DEF FieldReplays, WrittenFields
<1>8. m.stops = n.stops /\ m.routes = n.routes /\ m.trips = n.trips
  BY DEF ServiceRowEffect, Replays, Remembers
<1>9. Changes(r.canon, m.canon, {"services", "days"}) /\ Changes(s.canon, n.canon, {"services", "days"})
  BY DEF ServiceRowEffect
<1> QED
  BY <1>3, <1>7, <1>8, <1>9, RestReplays

LEMMA ExceptionReplays ==
    ASSUME NEW r, NEW s, NEW torn, Replays(r, s, torn), NEW row, NEW m, NEW n,
           ExceptionRowEffect(r, row, m), ExceptionRowEffect(s, row, n), Holds(torn, n.canon),
           DOMAIN s.canon.services = DOMAIN torn.services
    PROVE  Replays(m, n, torn)
<1>1. /\ DOMAIN r.canon["services"] = DOMAIN torn["services"]
      /\ Mixed(r.canon["exceptions"], s.canon["exceptions"], torn["exceptions"])
  BY DEF Replays, FieldReplays, CanonFields, WrittenFields, Mixed
<1>2. m.stops = n.stops /\ m.routes = n.routes /\ m.trips = n.trips
  BY DEF ExceptionRowEffect, Replays, Remembers
<1>3. CASE row.service \notin DOMAIN s.canon.services
  <2>1. /\ Changes(r.canon, m.canon, {"dead"}) /\ Changes(s.canon, n.canon, {"dead"})
        /\ m.canon.dead /\ n.canon.dead
    BY <1>1, <1>3 DEF ExceptionRowEffect
  <2>2. m.canon.dead = n.canon.dead
    BY <2>1 DEF Changes, IsCanon
  <2> QED
    BY <1>2, <2>1, <2>2, RestReplays
<1>4. CASE row.service \in DOMAIN s.canon.services
  <2>1. PICK key, v : key = <<row.service, row.date>> /\ v = row.type
    OBVIOUS
  <2>2. /\ Changes(r.canon, m.canon, {"exceptions"}) /\ Changes(s.canon, n.canon, {"exceptions"})
        /\ m.canon.exceptions = Set(r.canon.exceptions, key, v)
        /\ n.canon.exceptions = Set(s.canon.exceptions, key, v)
    BY <1>1, <1>4, <2>1 DEF ExceptionRowEffect
  <2>3. key \in DOMAIN torn["exceptions"]
    BY <2>2, KeyIsSet DEF Holds, KeyedFields
  <2>4. FieldReplays("exceptions", m.canon["exceptions"], n.canon["exceptions"], torn["exceptions"])
    BY <1>1, <2>2, <2>3, SetMixes DEF FieldReplays, WrittenFields
  <2> QED
    BY <1>2, <2>2, <2>4, RestReplays
<1> QED
  BY <1>3, <1>4

LEMMA RouteReplays ==
    ASSUME NEW r, NEW s, NEW torn, Replays(r, s, torn), NEW row, NEW m, NEW n,
           RouteRowEffect(r, row, m), RouteRowEffect(s, row, n), Holds(torn, n.canon)
    PROVE  Replays(m, n, torn)
<1>1. r.canon["routes"] = torn["routes"]
  BY DEF Replays, FieldReplays, CanonFields, WrittenFields
<1>2. PICK key, v : key = row.id /\ v = row.mode
  OBVIOUS
<1>3. m.canon.routes = Keep(torn.routes, key, v) /\ n.canon.routes = Keep(s.canon.routes, key, v)
  BY <1>1, <1>2 DEF RouteRowEffect
<1>4. key \in DOMAIN torn["routes"]
  BY <1>3, KeyIsSet DEF Holds, KeyedFields
<1>5. m.canon.routes = torn.routes
  BY <1>3, <1>4, KeepsWhatIs
<1>6. FieldReplays("routes", m.canon["routes"], n.canon["routes"], torn["routes"])
  BY <1>5 DEF FieldReplays, WrittenFields
<1>7. m.stops = n.stops /\ m.routes = n.routes /\ m.trips = n.trips
  BY DEF RouteRowEffect, Replays, Remembers
<1>8. Changes(r.canon, m.canon, {"routes"}) /\ Changes(s.canon, n.canon, {"routes"})
  BY DEF RouteRowEffect
<1> QED
  BY <1>6, <1>7, <1>8, RestReplays

LEMMA TripReplays ==
    ASSUME NEW r, NEW s, NEW torn, Replays(r, s, torn), NEW row, NEW m, NEW n,
           TripRowEffect(r, row, m), TripRowEffect(s, row, n), Holds(torn, n.canon),
           DOMAIN s.canon.services = DOMAIN torn.services
    PROVE  Replays(m, n, torn)
<1>1. /\ DOMAIN r.canon["services"] = DOMAIN torn["services"]
      /\ r.canon["trips"] = torn["trips"]
  BY DEF Replays, FieldReplays, CanonFields, WrittenFields, Mixed
<1>2. r.stops = s.stops /\ r.routes = s.routes /\ r.trips = s.trips
  BY DEF Replays, Remembers
<1>3. CASE row.route \notin s.routes
  <2>1. m = r /\ n = s
    BY <1>2, <1>3 DEF TripRowEffect
  <2> QED
    BY <2>1
<1> DEFINE key == <<row.route, row.id>>
<1>4. CASE row.route \in s.routes /\ key \notin DOMAIN s.canon.trips
                                  /\ row.service \notin DOMAIN s.canon.services
  <2>1. n.canon.dead /\ Changes(s.canon, n.canon, {"dead"}) /\ n.trips = s.trips
        /\ n.stops = s.stops /\ n.routes = s.routes
    BY <1>4 DEF TripRowEffect
  <2>2. n.canon["trips"] = s.canon["trips"]
    BY <2>1 DEF Changes, CanonFields
  <2>3. torn = n.canon
    BY <2>1 DEF Holds
  <2>4. key \notin DOMAIN r.canon.trips /\ row.service \notin DOMAIN r.canon.services
    BY <1>1, <1>4, <2>2, <2>3
  <2>5. m.canon.dead /\ Changes(r.canon, m.canon, {"dead"}) /\ m.trips = r.trips
        /\ m.stops = r.stops /\ m.routes = r.routes
    BY <1>2, <1>4, <2>4 DEF TripRowEffect
  <2>6. m.canon.dead = n.canon.dead
    BY <2>1, <2>5 DEF Changes, IsCanon
  <2> QED
    BY <1>2, <2>1, <2>5, <2>6, RestReplays
<1>5. CASE row.route \in s.routes /\ ~(key \notin DOMAIN s.canon.trips
                                       /\ row.service \notin DOMAIN s.canon.services)
  <2>1. /\ Changes(s.canon, n.canon, {"trips"}) /\ n.trips = Set(s.trips, row.id, key)
        /\ DOMAIN n.canon.trips = DOMAIN s.canon.trips \cup {key}
        /\ n.stops = s.stops /\ n.routes = s.routes
    BY <1>5 DEF TripRowEffect
  <2>2. key \in DOMAIN torn["trips"]
    BY <2>1 DEF Holds, KeyedFields
  <2>3. /\ Changes(r.canon, m.canon, {"trips"}) /\ m.trips = Set(r.trips, row.id, key)
        /\ m.canon.trips = r.canon.trips
        /\ m.stops = r.stops /\ m.routes = r.routes
    BY <1>1, <1>2, <1>5, <2>2 DEF TripRowEffect
  <2>4. FieldReplays("trips", m.canon["trips"], n.canon["trips"], torn["trips"])
    BY <1>1, <2>3 DEF FieldReplays, WrittenFields
  <2>5. m.trips = n.trips
    BY <1>2, <2>1, <2>3
  <2> QED
    BY <1>2, <2>1, <2>3, <2>4, <2>5, RestReplays
<1> QED
  BY <1>3, <1>4, <1>5

LEMMA FrequencyReplays ==
    ASSUME NEW r, NEW s, NEW torn, Replays(r, s, torn), NEW row, NEW m, NEW n,
           FrequencyRowEffect(r, row, m), FrequencyRowEffect(s, row, n), Holds(torn, n.canon)
    PROVE  Replays(m, n, torn)
<1>1. r.canon["frequencies"] = torn["frequencies"]
  BY DEF Replays, FieldReplays, CanonFields, WrittenFields
<1>2. r.stops = s.stops /\ r.routes = s.routes /\ r.trips = s.trips
  BY DEF Replays, Remembers
<1>3. CASE row.trip \notin DOMAIN s.trips
  <2>1. m = r /\ n = s
    BY <1>2, <1>3 DEF FrequencyRowEffect
  <2> QED
    BY <2>1
<1>4. CASE row.trip \in DOMAIN s.trips
  <2>1. PICK key, v : key = <<s.trips[row.trip], row.start>> /\ v = row.headway
    OBVIOUS
  <2>2. /\ Changes(r.canon, m.canon, {"frequencies"}) /\ Changes(s.canon, n.canon, {"frequencies"})
        /\ m.canon.frequencies = Keep(torn.frequencies, key, v)
        /\ n.canon.frequencies = Keep(s.canon.frequencies, key, v)
    BY <1>1, <1>2, <1>4, <2>1 DEF FrequencyRowEffect
  <2>3. key \in DOMAIN torn["frequencies"]
    BY <2>2, KeyIsSet DEF Holds, KeyedFields
  <2>4. m.canon.frequencies = torn.frequencies
    BY <2>2, <2>3, KeepsWhatIs
  <2>5. FieldReplays("frequencies", m.canon["frequencies"], n.canon["frequencies"], torn["frequencies"])
    BY <2>4 DEF FieldReplays, WrittenFields
  <2>6. m.stops = n.stops /\ m.routes = n.routes /\ m.trips = n.trips
    BY <1>2 DEF FrequencyRowEffect
  <2> QED
    BY <2>2, <2>5, <2>6, RestReplays
<1> QED
  BY <1>3, <1>4

LEMMA TimeReplays ==
    ASSUME NEW r, NEW s, NEW torn, Replays(r, s, torn), NEW row, NEW m, NEW n,
           TimeRowEffect(r, row, m), TimeRowEffect(s, row, n), Holds(torn, n.canon)
    PROVE  Replays(m, n, torn)
<1>1. Mixed(r.canon["times"], s.canon["times"], torn["times"])
  BY DEF Replays, FieldReplays, CanonFields, WrittenFields
<1>2. r.stops = s.stops /\ r.routes = s.routes /\ r.trips = s.trips
  BY DEF Replays, Remembers
<1>3. CASE row.trip \notin DOMAIN s.trips \/ row.stop \notin DOMAIN s.stops
  <2>1. m = r /\ n = s
    BY <1>2, <1>3 DEF TimeRowEffect
  <2> QED
    BY <2>1
<1>4. CASE row.trip \in DOMAIN s.trips /\ row.stop \in DOMAIN s.stops
  <2>1. PICK key, v : /\ key = <<s.trips[row.trip], row.seq>>
                      /\ v = <<s.stops[row.stop], row.arr, row.dep>>
    OBVIOUS
  <2>2. /\ Changes(r.canon, m.canon, {"times"}) /\ Changes(s.canon, n.canon, {"times"})
        /\ m.canon.times = Set(r.canon.times, key, v)
        /\ n.canon.times = Set(s.canon.times, key, v)
    BY <1>2, <1>4, <2>1 DEF TimeRowEffect
  <2>3. key \in DOMAIN torn["times"]
    BY <2>2, KeyIsSet DEF Holds, KeyedFields
  <2>4. FieldReplays("times", m.canon["times"], n.canon["times"], torn["times"])
    BY <1>1, <2>2, <2>3, SetMixes DEF FieldReplays, WrittenFields
  <2>6. m.stops = n.stops /\ m.routes = n.routes /\ m.trips = n.trips
    BY <1>2 DEF TimeRowEffect
  <2> QED
    BY <2>2, <2>4, <2>6, RestReplays
<1> QED
  BY <1>3, <1>4

(* Rows before the tear, imported again.                                   *)
LEMMA RowReplays ==
    ASSUME NEW r, IsImport(r), NEW s, IsImport(s), NEW torn, Replays(r, s, torn),
           NEW step, step[1] \in GtfsFiles, NEW m, m = ImportRow(r, step),
           NEW n, n = ImportRow(s, step), Holds(torn, n.canon),
           Late(step) => DOMAIN s.canon.services = DOMAIN torn.services
    PROVE  Replays(m, n, torn)
<1>0. r.canon.dead = s.canon.dead
  BY DEF Replays, Remembers
<1>1. CASE s.canon.dead
  <2>1. m = r /\ n = s
    BY <1>0, <1>1, ImportRowIs
  <2> QED
    BY <2>1
<1>2. CASE ~s.canon.dead
  <2>1. PICK row : row = step[2]
    OBVIOUS
  <2>2. CASE step[1] = "stops"
    <3>1. m = StopRow(r, row) /\ n = StopRow(s, row)
      BY <1>0, <1>2, <2>1, <2>2, ImportRowIs
    <3>2. StopRowEffect(r, row, m) /\ StopRowEffect(s, row, n)
      BY <3>1, StopRowIs
    <3> QED
      BY <3>2, StopReplays
  <2>3. CASE step[1] = "calendar"
    <3>1. m = ServiceRow(r, row) /\ n = ServiceRow(s, row)
      BY <1>0, <1>2, <2>1, <2>3, ImportRowIs
    <3>2. ServiceRowEffect(r, row, m) /\ ServiceRowEffect(s, row, n)
      BY <3>1, ServiceRowIs
    <3> QED
      BY <3>2, ServiceReplays
  <2>4. CASE step[1] = "calendar_dates"
    <3>1. m = ExceptionRow(r, row) /\ n = ExceptionRow(s, row)
      BY <1>0, <1>2, <2>1, <2>4, ImportRowIs
    <3>2. ExceptionRowEffect(r, row, m) /\ ExceptionRowEffect(s, row, n)
      BY <1>0, <1>2, <3>1, ExceptionRowIs
    <3> QED
      BY <2>4, <3>2, ExceptionReplays DEF Late
  <2>5. CASE step[1] = "routes"
    <3>1. m = RouteRow(r, row) /\ n = RouteRow(s, row)
      BY <1>0, <1>2, <2>1, <2>5, ImportRowIs
    <3>2. RouteRowEffect(r, row, m) /\ RouteRowEffect(s, row, n)
      BY <3>1, RouteRowIs
    <3> QED
      BY <3>2, RouteReplays
  <2>6. CASE step[1] = "trips"
    <3>1. m = TripRow(r, row) /\ n = TripRow(s, row)
      BY <1>0, <1>2, <2>1, <2>6, ImportRowIs
    <3>2. TripRowEffect(r, row, m) /\ TripRowEffect(s, row, n)
      BY <1>0, <1>2, <3>1, TripRowIs
    <3> QED
      BY <2>6, <3>2, TripReplays DEF Late
  <2>7. CASE step[1] = "frequencies"
    <3>1. m = FrequencyRow(r, row) /\ n = FrequencyRow(s, row)
      BY <1>0, <1>2, <2>1, <2>7, ImportRowIs
    <3>2. FrequencyRowEffect(r, row, m) /\ FrequencyRowEffect(s, row, n)
      BY <3>1, FrequencyRowIs
    <3> QED
      BY <3>2, FrequencyReplays
  <2>8. CASE step[1] = "stop_times"
    <3>1. m = TimeRow(r, row) /\ n = TimeRow(s, row)
      BY <1>0, <1>2, <2>1, <2>8, ImportRowIs
    <3>2. TimeRowEffect(r, row, m) /\ TimeRowEffect(s, row, n)
      BY <3>1, TimeRowIs
    <3> QED
      BY <3>2, TimeReplays
  <2> QED
    BY <2>2, <2>3, <2>4, <2>5, <2>6, <2>7, <2>8 DEF GtfsFiles
<1> QED
  BY <1>1, <1>2

(* The rows imported one after the other: the recursion has a solution.     *)
Imports(s, canon, steps, N) ==
    /\ s[0] = Fresh(canon)
    /\ \A n \in 1..N : s[n] = ImportRow(s[n - 1], steps[n])

LEMMA ImportedRowByRow ==
    ASSUME NEW canon, NEW steps, NEW N \in Nat, Len(steps) = N
    PROVE  \E s : Imports(s, canon, steps, N) /\ ImportGtfsFeed(canon, steps) = s[N].canon
<1> DEFINE Solves(k, g) == g = [n \in 0..k |-> IF n = 0 THEN Fresh(canon)
                                               ELSE ImportRow(g[n - 1], steps[n])]
           T == {k \in 0..N : \E g : Solves(k, g)}
<1>1. 0 \in T
  <2> DEFINE g == [n \in 0..0 |-> Fresh(canon)]
  <2>1. \A n \in 0..0 : n = 0
    OBVIOUS
  <2>2. Solves(0, g)
    BY <2>1
  <2>3. 0 \in 0..N
    OBVIOUS
  <2> HIDE DEF g, Solves
  <2> QED
    BY <2>2, <2>3
<1>2. ASSUME NEW k \in 1..N, k - 1 \in T
      PROVE  k \in T
  <2>1. PICK h : Solves(k - 1, h)
    BY <1>2
  <2>2. PICK after : after = ImportRow(h[k - 1], steps[k])
    OBVIOUS
  <2> DEFINE g == [n \in 0..k |-> IF n = k THEN after ELSE h[n]]
  <2>3. \A n \in 0..k : n # k => n \in 0..(k - 1)
    OBVIOUS
  <2>4. \A n \in 0..k : g[n] = IF n = 0 THEN Fresh(canon) ELSE ImportRow(g[n - 1], steps[n])
    <3> SUFFICES ASSUME NEW n \in 0..k
                 PROVE  g[n] = IF n = 0 THEN Fresh(canon) ELSE ImportRow(g[n - 1], steps[n])
      OBVIOUS
    <3>1. CASE n = 0
      <4>1. g[n] = h[0] /\ 0 \in 0..(k - 1)
        BY <3>1
      <4>2. h[0] = Fresh(canon)
        BY <2>1, <4>1
      <4> QED
        BY <3>1, <4>1, <4>2
    <3>2. CASE n # 0
      <4>1. n - 1 \in 0..k /\ n - 1 # k
        BY <3>2
      <4>2. g[n - 1] = h[n - 1]
        BY <4>1
      <4>3. CASE n = k
        BY <2>2, <3>2, <4>2, <4>3
      <4>4. CASE n # k
        <5>1. n \in 0..(k - 1) /\ g[n] = h[n]
          BY <2>3, <4>4
        <5>2. h[n] = ImportRow(h[n - 1], steps[n])
          BY <2>1, <3>2, <5>1
        <5> QED
          BY <3>2, <4>2, <5>1, <5>2
      <4> QED
        BY <4>3, <4>4
    <3> QED
      BY <3>1, <3>2
  <2>5. Solves(k, g)
    <3>1. g = [n \in 0..k |-> g[n]]
      OBVIOUS
    <3> HIDE DEF g
    <3> QED
      BY <2>4, <3>1
  <2> HIDE DEF g, Solves
  <2> QED
    BY <2>5
<1>3. PICK g : Solves(N, g)
  <2> HIDE DEF T
  <2>1. N \in T
    BY <1>1, <1>2, UpTo
  <2> QED
    BY <2>1 DEF T
<1> DEFINE after[n \in 0..N] == IF n = 0 THEN Fresh(canon) ELSE ImportRow(after[n - 1], steps[n])
<1>4. after = [n \in 0..N |-> IF n = 0 THEN Fresh(canon) ELSE ImportRow(after[n - 1], steps[n])]
  BY <1>3 DEF after
<1>5. ImportGtfsFeed(canon, steps) = after[N].canon
  BY DEF ImportGtfsFeed
<1> HIDE DEF after, T
<1>6. after[0] = Fresh(canon)
  BY <1>4
<1>7. \A n \in 1..N : after[n] = ImportRow(after[n - 1], steps[n])
  BY <1>4
<1>8. Imports(after, canon, steps, N)
  BY <1>6, <1>7 DEF Imports
<1> QED
  BY <1>5, <1>8

(* The steps of a feed: services are settled before anything that asks for *)
(* them.                                                                   *)
IsFeed(feed) == \A file \in GtfsFiles : feed[file] \in Seq(Range(feed[file]))

AllSteps(steps) ==
    /\ \E V : steps \in Seq(V)
    /\ Len(steps) \in Nat /\ DOMAIN steps = 1..Len(steps)
    /\ \A i \in DOMAIN steps : steps[i][1] \in GtfsFiles
    /\ \A i, j \in DOMAIN steps : i < j /\ Late(steps[i]) => Late(steps[j])

LEMMA ListIn ==
    ASSUME NEW M \in Nat, NEW W, NEW t \in [1..M -> W]
    PROVE  t \in Seq(W) /\ Len(t) = M /\ DOMAIN t = 1..M
  OBVIOUS

(* The place of a file in the import.                                      *)
FileRank(file) ==
    CASE file = "stops" -> 1 [] file = "calendar" -> 2 [] file = "calendar_dates" -> 3
      [] file = "routes" -> 4 [] file = "trips" -> 5 [] file = "frequencies" -> 6
      [] file = "stop_times" -> 7

LEMMA FileRanks ==
    /\ FileRank("stops") = 1 /\ FileRank("calendar") = 2 /\ FileRank("calendar_dates") = 3
    /\ FileRank("routes") = 4 /\ FileRank("trips") = 5 /\ FileRank("frequencies") = 6
    /\ FileRank("stop_times") = 7
  BY DEF FileRank

IsRowOf(feed, step) == \E k \in DOMAIN feed[step[1]] : step[2] = feed[step[1]][k]

(* Steps are the rows of some files, file after file.                      *)
StepsOf(s, feed, files) ==
    /\ \E V : s \in Seq(V)
    /\ Len(s) \in Nat /\ DOMAIN s = 1..Len(s)
    /\ \A i \in DOMAIN s : s[i][1] \in files /\ IsRowOf(feed, s[i])
    /\ \A f \in files : \A k \in DOMAIN feed[f] :
          \E i \in DOMAIN s : s[i][1] = f /\ s[i][2] = feed[f][k]
    /\ \A i, j \in DOMAIN s : i < j => FileRank(s[i][1]) <= FileRank(s[j][1])

OfFile(feed, file) == [i \in DOMAIN feed[file] |-> <<file, feed[file][i]>>]

BothHave(s, t, u) ==
    /\ Len(u) = Len(s) + Len(t)
    /\ Len(s) \in Nat /\ Len(t) \in Nat /\ Len(u) \in Nat
    /\ DOMAIN s = 1..Len(s) /\ DOMAIN t = 1..Len(t) /\ DOMAIN u = 1..Len(u)
    /\ \A i \in 1..Len(s) : i \in DOMAIN u /\ u[i] = s[i]
    /\ \A i \in 1..Len(t) : Len(s) + i \in DOMAIN u /\ u[Len(s) + i] = t[i]
    /\ \A i \in DOMAIN u : i > Len(s) => i - Len(s) \in DOMAIN t /\ u[i] = t[i - Len(s)]

LEMMA JoinedSteps ==
    ASSUME NEW V, NEW s \in Seq(V), NEW W, NEW t \in Seq(W), NEW u, u = s \o t
    PROVE  (\E X : u \in Seq(X)) /\ BothHave(s, t, u)
<1>1. s \in Seq(V \cup W) /\ t \in Seq(V \cup W)
  OBVIOUS
<1>2. u \in Seq(V \cup W)
  BY <1>1
<1>3. BothHave(s, t, u)
  BY <1>1 DEF BothHave
<1> QED
  BY <1>2, <1>3

LEMMA FileAppended ==
    ASSUME NEW feed, IsFeed(feed), NEW files \in SUBSET GtfsFiles, NEW file \in GtfsFiles,
           NEW s, StepsOf(s, feed, files), NEW u, u = s \o OfFile(feed, file),
           \A f \in files \cup {file} : FileRank(f) \in Int /\ FileRank(f) <= FileRank(file)
    PROVE  StepsOf(u, feed, files \cup {file})
<1>1. PICK t : t = OfFile(feed, file)
  OBVIOUS
<1>2. feed[file] \in Seq(Range(feed[file]))
  BY DEF IsFeed
<1>3. PICK M \in Nat : M = Len(feed[file]) /\ DOMAIN feed[file] = 1..M
  BY <1>2
<1> DEFINE W == {file} \X Range(feed[file])
<1>4. /\ t = [i \in 1..M |-> <<file, feed[file][i]>>]
      /\ \A i \in 1..M : t[i] \in W /\ t[i][1] = file /\ t[i][2] = feed[file][i]
  BY <1>1, <1>3 DEF OfFile, Range
<1>5. t \in Seq(W) /\ Len(t) = M /\ DOMAIN t = 1..M
  <2>1. t \in [1..M -> W]
    BY <1>4
  <2> HIDE DEF W
  <2> QED
    BY <2>1, ListIn
<1> HIDE DEF W
<1>6. PICK V : s \in Seq(V)
  BY DEF StepsOf
<1>7. u = s \o t
  BY <1>1
<1>13. (\E X : u \in Seq(X)) /\ BothHave(s, t, u)
  BY <1>5, <1>6, <1>7, JoinedSteps
<1>8. /\ Len(u) = Len(s) + Len(t)
      /\ Len(s) \in Nat /\ Len(t) \in Nat /\ Len(u) \in Nat
      /\ DOMAIN s = 1..Len(s) /\ DOMAIN t = 1..Len(t) /\ DOMAIN u = 1..Len(u)
      /\ \A i \in 1..Len(s) : i \in DOMAIN u /\ u[i] = s[i]
      /\ \A i \in 1..Len(t) : Len(s) + i \in DOMAIN u /\ u[Len(s) + i] = t[i]
      /\ \A i \in DOMAIN u : i > Len(s) => i - Len(s) \in DOMAIN t /\ u[i] = t[i - Len(s)]
  BY <1>13 DEF BothHave
<1>9. ASSUME NEW i \in DOMAIN u
      PROVE  /\ i <= Len(s) => i \in DOMAIN s /\ u[i] = s[i]
             /\ i > Len(s) => u[i][1] = file /\ \E k \in DOMAIN feed[file] : u[i][2] = feed[file][k]
  <2>1. CASE i <= Len(s)
    BY <1>8, <2>1
  <2>2. CASE i > Len(s)
    <3>1. PICK k \in 1..M : u[i] = t[k]
      BY <1>5, <1>8, <2>2
    <3>2. u[i][1] = file /\ u[i][2] = feed[file][k] /\ k \in DOMAIN feed[file]
      BY <1>3, <1>4, <3>1
    <3> QED
      BY <1>8, <2>2, <3>2
  <2> QED
    BY <1>8, <2>1, <2>2
<1>10. \A i \in DOMAIN u : u[i][1] \in files \cup {file} /\ IsRowOf(feed, u[i])
  <2> SUFFICES ASSUME NEW i \in DOMAIN u
               PROVE  u[i][1] \in files \cup {file} /\ IsRowOf(feed, u[i])
    OBVIOUS
  <2>1. CASE i <= Len(s)
    BY <1>9, <2>1 DEF StepsOf
  <2>2. CASE i > Len(s)
    <3>1. u[i][1] = file /\ \E k \in DOMAIN feed[file] : u[i][2] = feed[file][k]
      BY <1>9, <2>2
    <3>2. PICK x : x = u[i]
      OBVIOUS
    <3>3. IsRowOf(feed, x)
      BY <3>1, <3>2 DEF IsRowOf
    <3> QED
      BY <3>1, <3>2, <3>3
  <2> QED
    BY <1>8, <2>1, <2>2
<1>11. ASSUME NEW f \in files \cup {file}, NEW k \in DOMAIN feed[f]
       PROVE  \E i \in DOMAIN u : u[i][1] = f /\ u[i][2] = feed[f][k]
  <2>1. CASE f \in files
    <3>1. PICK i \in DOMAIN s : s[i][1] = f /\ s[i][2] = feed[f][k]
      BY <2>1 DEF StepsOf
    <3> QED
      BY <1>8, <3>1
  <2>2. CASE f = file
    <3>1. k \in 1..M /\ t[k][1] = f /\ t[k][2] = feed[f][k]
      BY <1>3, <1>4, <2>2
    <3>2. Len(s) + k \in DOMAIN u /\ u[Len(s) + k] = t[k]
      BY <1>5, <1>8, <3>1
    <3> QED
      BY <3>1, <3>2
  <2> QED
    BY <2>1, <2>2
<1>12. ASSUME NEW i \in DOMAIN u, NEW j \in DOMAIN u, i < j
       PROVE  FileRank(u[i][1]) <= FileRank(u[j][1])
  <2>1. CASE j > Len(s)
    BY <1>9, <1>10, <2>1
  <2>2. CASE j <= Len(s)
    <3>1. i <= Len(s) /\ i \in DOMAIN s /\ j \in DOMAIN s
      BY <1>8, <1>12, <2>2
    <3> QED
      BY <1>9, <1>12, <2>2, <3>1 DEF StepsOf
  <2> QED
    BY <1>8, <2>1, <2>2
<1> QED
  BY <1>8, <1>10, <1>11, <1>12, <1>13 DEF StepsOf

LEMMA StepsAreOf ==
    ASSUME NEW feed, IsFeed(feed)
    PROVE  StepsOf(Steps(feed), feed, GtfsFiles)
<1> DEFINE of(file) == OfFile(feed, file)
<1>0. PICK s1, s2, s3, s4, s5, s6, s7 :
        /\ s1 = of("stops") /\ s2 = s1 \o of("calendar") /\ s3 = s2 \o of("calendar_dates")
        /\ s4 = s3 \o of("routes") /\ s5 = s4 \o of("trips") /\ s6 = s5 \o of("frequencies")
        /\ s7 = s6 \o of("stop_times")
  OBVIOUS
<1> HIDE DEF of
<1>1. StepsOf(s1, feed, {"stops"})
  <2>1. PICK list : list = feed["stops"] /\ list \in Seq(Range(list))
    BY DEF IsFeed, GtfsFiles
  <2>2. PICK M \in Nat : M = Len(list) /\ DOMAIN list = 1..M
    BY <2>1
  <2>3. s1 = [i \in 1..M |-> <<"stops", list[i]>>]
    BY <1>0, <2>1, <2>2 DEF of, OfFile
  <2> DEFINE W == {"stops"} \X Range(list)
  <2>4. \A i \in 1..M : s1[i] \in W
    BY <2>2, <2>3 DEF Range
  <2> HIDE DEF W
  <2>5. s1 \in Seq(W) /\ Len(s1) = M /\ DOMAIN s1 = 1..M
    <3>1. s1 \in [1..M -> W]
      BY <2>3, <2>4
    <3> QED
      BY <3>1, ListIn
  <2>6. \A i \in 1..M : s1[i][1] = "stops" /\ s1[i][2] = list[i]
    BY <2>3
  <2>7. ASSUME NEW i \in 1..M
        PROVE  IsRowOf(feed, s1[i])
    <3>1. PICK x : x = s1[i]
      OBVIOUS
    <3>2. x[1] = "stops" /\ x[2] = feed["stops"][i] /\ i \in DOMAIN feed["stops"]
      BY <2>1, <2>2, <2>6, <3>1
    <3>3. IsRowOf(feed, x)
      BY <3>2 DEF IsRowOf
    <3> QED
      BY <3>1, <3>3
  <2>8. \A f \in {"stops"} : \A k \in DOMAIN feed[f] :
          \E i \in DOMAIN s1 : s1[i][1] = f /\ s1[i][2] = feed[f][k]
    BY <2>1, <2>2, <2>5, <2>6
  <2>9. \A i, j \in DOMAIN s1 : FileRank(s1[i][1]) <= FileRank(s1[j][1])
    BY <2>5, <2>6, FileRanks
  <2> QED
    BY <2>2, <2>5, <2>6, <2>7, <2>8, <2>9 DEF StepsOf
<1>2. StepsOf(s2, feed, {"stops", "calendar"})
  <2>1. PICK files : files = {"stops"}
    OBVIOUS
  <2>2. files \in SUBSET GtfsFiles /\ "calendar" \in GtfsFiles /\ files \cup {"calendar"} = {"stops", "calendar"}
    BY <2>1 DEF GtfsFiles
  <2>3. \A f \in files \cup {"calendar"} : FileRank(f) \in Int /\ FileRank(f) <= FileRank("calendar")
    BY <2>1, FileRanks
  <2>4. StepsOf(s1, feed, files) /\ s2 = s1 \o OfFile(feed, "calendar")
    BY <1>0, <1>1, <2>1 DEF of
  <2>5. StepsOf(s2, feed, files \cup {"calendar"})
    BY <2>2, <2>3, <2>4, FileAppended
  <2> QED
    BY <2>2, <2>5
<1>3. StepsOf(s3, feed, {"stops", "calendar", "calendar_dates"})
  <2>1. PICK files : files = {"stops", "calendar"}
    OBVIOUS
  <2>2. files \in SUBSET GtfsFiles /\ "calendar_dates" \in GtfsFiles /\ files \cup {"calendar_dates"} = {"stops", "calendar", "calendar_dates"}
    BY <2>1 DEF GtfsFiles
  <2>3. \A f \in files \cup {"calendar_dates"} : FileRank(f) \in Int /\ FileRank(f) <= FileRank("calendar_dates")
    BY <2>1, FileRanks
  <2>4. StepsOf(s2, feed, files) /\ s3 = s2 \o OfFile(feed, "calendar_dates")
    BY <1>0, <1>2, <2>1 DEF of
  <2>5. StepsOf(s3, feed, files \cup {"calendar_dates"})
    BY <2>2, <2>3, <2>4, FileAppended
  <2> QED
    BY <2>2, <2>5
<1>4. StepsOf(s4, feed, {"stops", "calendar", "calendar_dates", "routes"})
  <2>1. PICK files : files = {"stops", "calendar", "calendar_dates"}
    OBVIOUS
  <2>2. files \in SUBSET GtfsFiles /\ "routes" \in GtfsFiles /\ files \cup {"routes"} = {"stops", "calendar", "calendar_dates", "routes"}
    BY <2>1 DEF GtfsFiles
  <2>3. \A f \in files \cup {"routes"} : FileRank(f) \in Int /\ FileRank(f) <= FileRank("routes")
    BY <2>1, FileRanks
  <2>4. StepsOf(s3, feed, files) /\ s4 = s3 \o OfFile(feed, "routes")
    BY <1>0, <1>3, <2>1 DEF of
  <2>5. StepsOf(s4, feed, files \cup {"routes"})
    BY <2>2, <2>3, <2>4, FileAppended
  <2> QED
    BY <2>2, <2>5
<1>5. StepsOf(s5, feed, {"stops", "calendar", "calendar_dates", "routes", "trips"})
  <2>1. PICK files : files = {"stops", "calendar", "calendar_dates", "routes"}
    OBVIOUS
  <2>2. files \in SUBSET GtfsFiles /\ "trips" \in GtfsFiles /\ files \cup {"trips"} = {"stops", "calendar", "calendar_dates", "routes", "trips"}
    BY <2>1 DEF GtfsFiles
  <2>3. \A f \in files \cup {"trips"} : FileRank(f) \in Int /\ FileRank(f) <= FileRank("trips")
    BY <2>1, FileRanks
  <2>4. StepsOf(s4, feed, files) /\ s5 = s4 \o OfFile(feed, "trips")
    BY <1>0, <1>4, <2>1 DEF of
  <2>5. StepsOf(s5, feed, files \cup {"trips"})
    BY <2>2, <2>3, <2>4, FileAppended
  <2> QED
    BY <2>2, <2>5
<1>6. StepsOf(s6, feed, GtfsFiles \ {"stop_times"})
  <2>1. PICK files : files = {"stops", "calendar", "calendar_dates", "routes", "trips"}
    OBVIOUS
  <2>2. files \in SUBSET GtfsFiles /\ "frequencies" \in GtfsFiles /\ files \cup {"frequencies"} = GtfsFiles \ {"stop_times"}
    BY <2>1 DEF GtfsFiles
  <2>3. \A f \in files \cup {"frequencies"} : FileRank(f) \in Int /\ FileRank(f) <= FileRank("frequencies")
    BY <2>1, FileRanks
  <2>4. StepsOf(s5, feed, files) /\ s6 = s5 \o OfFile(feed, "frequencies")
    BY <1>0, <1>5, <2>1 DEF of
  <2>5. StepsOf(s6, feed, files \cup {"frequencies"})
    BY <2>2, <2>3, <2>4, FileAppended
  <2> QED
    BY <2>2, <2>5
<1>7. StepsOf(s7, feed, GtfsFiles)
  <2>1. PICK files : files = GtfsFiles \ {"stop_times"}
    OBVIOUS
  <2>2. files \in SUBSET GtfsFiles /\ "stop_times" \in GtfsFiles /\ files \cup {"stop_times"} = GtfsFiles
    BY <2>1 DEF GtfsFiles
  <2>3. \A f \in files \cup {"stop_times"} : FileRank(f) \in Int /\ FileRank(f) <= FileRank("stop_times")
    BY <2>1, FileRanks DEF GtfsFiles
  <2>4. StepsOf(s6, feed, files) /\ s7 = s6 \o OfFile(feed, "stop_times")
    BY <1>0, <1>6, <2>1 DEF of
  <2>5. StepsOf(s7, feed, files \cup {"stop_times"})
    BY <2>2, <2>3, <2>4, FileAppended
  <2> QED
    BY <2>2, <2>5
<1>8. Steps(feed) = s7
  BY <1>0 DEF Steps, OfFile, of
<1> QED
  BY <1>7, <1>8

LEMMA StepsInOrder ==
    ASSUME NEW feed, IsFeed(feed)
    PROVE  AllSteps(Steps(feed))
<1>1. PICK s : s = Steps(feed) /\ StepsOf(s, feed, GtfsFiles)
  BY StepsAreOf
<1>2. \A f \in GtfsFiles : FileRank(f) \in Int /\ (FileRank(f) > 2 <=> f \notin {"stops", "calendar"})
  BY FileRanks DEF GtfsFiles
<1>3. ASSUME NEW i \in DOMAIN s, NEW j \in DOMAIN s, i < j, Late(s[i])
      PROVE  Late(s[j])
  <2>1. PICK f, g : f = s[i][1] /\ g = s[j][1] /\ f \in GtfsFiles /\ g \in GtfsFiles
    BY <1>1 DEF StepsOf
  <2>2. FileRank(f) <= FileRank(g)
    BY <1>1, <1>3, <2>1 DEF StepsOf
  <2> QED
    BY <1>2, <1>3, <2>1, <2>2 DEF Late
<1> QED
  BY <1>1, <1>3 DEF StepsOf, AllSteps

FreshEffect(c, n) ==
    /\ IsImport(n) /\ n.stops = <<>> /\ n.routes = {} /\ n.trips = <<>> /\ n.canon.dead = FALSE
    /\ \A f \in CanonFields \ {"dead"} : n.canon[f] = c[f]

LEMMA FreshIs ==
    ASSUME NEW c, IsCanon(c), NEW n, n = Fresh(c)
    PROVE  FreshEffect(c, n)
<1> DEFINE d == [c EXCEPT !["dead"] = FALSE]
<1>1. n = [canon |-> d, stops |-> <<>>, routes |-> {}, trips |-> <<>>]
  BY DEF Fresh
<1>2. IsFun(d) /\ DOMAIN d = CanonFields /\ d.dead = FALSE
  BY DEF IsCanon, IsFun, CanonFields
<1>3. \A f \in CanonFields \ {"dead"} : d[f] = c[f]
  BY DEF IsCanon
<1>4. d.services = c.services /\ d.exceptions = c.exceptions /\ d.times = c.times
  BY <1>3 DEF CanonFields
<1> HIDE DEF d
<1>5. IsCanon(d)
  BY <1>2, <1>4 DEF IsCanon
<1>6. IsFun(n) /\ DOMAIN n = {"canon", "stops", "routes", "trips"} /\ n.canon = d
      /\ n.stops = <<>> /\ n.routes = {} /\ n.trips = <<>>
  BY <1>1 DEF IsFun
<1> QED
  BY <1>2, <1>3, <1>5, <1>6 DEF IsImport, FreshEffect

LEMMA EmptyIs == IsCanon(EmptyCanon)
<1>1. IsFun(EmptyCanon) /\ DOMAIN EmptyCanon = CanonFields
  BY DEF EmptyCanon, IsFun, CanonFields
<1>2. /\ EmptyCanon.services = <<>> /\ EmptyCanon.exceptions = <<>> /\ EmptyCanon.times = <<>>
      /\ EmptyCanon.dead = FALSE
  BY DEF EmptyCanon
<1>3. IsFun(<<>>)
  BY DEF IsFun
<1> QED
  BY <1>1, <1>2, <1>3 DEF IsCanon

(* All rows of an import keep its shape.                                   *)
GrowsAt(s, steps, n) ==
    /\ Grows(s[n - 1].canon, s[n].canon)
    /\ Late(steps[n]) => s[n].canon.services = s[n - 1].canon.services

LEMMA ImportsAre ==
    ASSUME NEW canon, IsCanon(canon), NEW steps, NEW N \in Nat, NEW s, Imports(s, canon, steps, N),
           \A n \in 1..N : steps[n][1] \in GtfsFiles
    PROVE  /\ \A n \in 0..N : IsImport(s[n])
           /\ \A n \in 1..N : GrowsAt(s, steps, n)
<1> DEFINE T == {n \in 0..N : IsImport(s[n])}
<1>1. 0 \in T
  <2>1. PICK n : n = Fresh(canon)
    OBVIOUS
  <2>2. IsImport(n)
    BY <2>1, FreshIs DEF FreshEffect
  <2> QED
    BY <2>1, <2>2 DEF Imports
<1>2. ASSUME NEW n \in 1..N, IsImport(s[n - 1])
      PROVE  IsImport(s[n]) /\ GrowsAt(s, steps, n)
  <2>1. PICK a, b, step : a = s[n - 1] /\ b = s[n] /\ step = steps[n]
    OBVIOUS
  <2>2. IsImport(a) /\ step[1] \in GtfsFiles /\ b = ImportRow(a, step)
    BY <1>2, <2>1 DEF Imports
  <2>3. /\ IsImport(b) /\ Grows(a.canon, b.canon)
        /\ Late(step) => b.canon.services = a.canon.services
    BY <2>2, RowGrows
  <2> QED
    BY <2>1, <2>3 DEF GrowsAt
<1>3. \A n \in 1..N : n - 1 \in T => n \in T
  BY <1>2
<1>4. \A n \in 0..N : n \in T
  <2> HIDE DEF T
  <2> QED
    BY <1>1, <1>3, UpTo
<1> QED
  BY <1>2, <1>4

LEMMA ImportIsCanon ==
    ASSUME NEW canon, IsCanon(canon), NEW steps, NEW N \in Nat, Len(steps) = N,
           \A n \in 1..N : steps[n][1] \in GtfsFiles
    PROVE  IsCanon(ImportGtfsFeed(canon, steps))
<1>1. PICK s : Imports(s, canon, steps, N) /\ ImportGtfsFeed(canon, steps) = s[N].canon
  BY ImportedRowByRow
<1>2. IsImport(s[N])
  BY <1>1, ImportsAre
<1> QED
  BY <1>1, <1>2 DEF IsImport

(* What an import came to, it holds from then on; and services stay.       *)
LEMMA HoldsOn == \A torn, c, n : Holds(torn, c) /\ Grows(torn, n) => Holds(n, c)
  BY DEF Grows, Holds

LEMMA HoldsItself == \A c : Holds(c, c)
  BY DEF Holds

Settled(s, steps, m) ==
    \A k \in 0..m :
        /\ Holds(s[m].canon, s[k].canon)
        /\ k < m /\ Late(steps[k + 1]) => s[m].canon.services = s[k].canon.services

LEMMA AllSettled ==
    ASSUME NEW canon, IsCanon(canon), NEW steps, AllSteps(steps), NEW N \in Nat, Len(steps) = N,
           NEW s, Imports(s, canon, steps, N)
    PROVE  \A m \in 0..N : Settled(s, steps, m)
<1> DEFINE T == {m \in 0..N : Settled(s, steps, m)}
<1>0. DOMAIN steps = 1..N
  BY DEF AllSteps
<1>1. 0 \in T
  <2>1. \A k \in 0..0 : k = 0
    OBVIOUS
  <2>2. Holds(s[0].canon, s[0].canon)
    BY HoldsItself
  <2> QED
    BY <2>1, <2>2 DEF Settled
<1>2. ASSUME NEW m \in 1..N, m - 1 \in T
      PROVE  m \in T
  <2>1. PICK a, b : a = s[m - 1].canon /\ b = s[m].canon
    OBVIOUS
  <2>2. Grows(a, b) /\ (Late(steps[m]) => b.services = a.services)
    <3>1. \A n \in 1..N : steps[n][1] \in GtfsFiles
      BY <1>0 DEF AllSteps
    <3>2. GrowsAt(s, steps, m)
      BY <3>1, ImportsAre
    <3> QED
      BY <2>1, <3>2 DEF GrowsAt
  <2>3. ASSUME NEW k \in 0..m
        PROVE  Holds(b, s[k].canon) /\ (k < m /\ Late(steps[k + 1]) => b.services = s[k].canon.services)
    <3>1. CASE k = m
      BY <2>1, <3>1, HoldsItself
    <3>2. CASE k # m
      <4>1. k \in 0..(m - 1)
        BY <3>2
      <4>2. Holds(a, s[k].canon)
        BY <1>2, <2>1, <4>1 DEF Settled
      <4>3. Holds(b, s[k].canon)
        BY <2>2, <4>2, HoldsOn
      <4>4. ASSUME Late(steps[k + 1])
            PROVE  b.services = s[k].canon.services
        <5>1. CASE k = m - 1
          BY <2>1, <2>2, <4>4, <5>1
        <5>2. CASE k # m - 1
          <6>1. k < m - 1 /\ k + 1 \in 1..N /\ m \in 1..N /\ k + 1 < m
            BY <4>1, <5>2
          <6>2. Late(steps[m])
            BY <1>0, <4>4, <6>1 DEF AllSteps
          <6>3. a.services = s[k].canon.services
            BY <1>2, <2>1, <4>1, <4>4, <6>1 DEF Settled
          <6> QED
            BY <2>2, <6>2, <6>3
        <5> QED
          BY <5>1, <5>2
      <4> QED
        BY <4>3, <4>4
    <3> QED
      BY <3>1, <3>2
  <2> QED
    BY <2>1, <2>3 DEF Settled
<1> HIDE DEF T
<1>3. \A m \in 0..N : m \in T
  BY <1>1, <1>2, UpTo
<1> QED
  BY <1>3 DEF T

LEMMA FreshReplays ==
    ASSUME NEW before, IsCanon(before), NEW torn, IsCanon(torn), NEW r, r = Fresh(torn),
           NEW s, s = Fresh(before)
    PROVE  Replays(r, s, torn)
<1>1. Remembers(r, s) /\ \A f \in CanonFields \ {"dead"} : r.canon[f] = torn[f]
  <2>1. FreshEffect(torn, r)
    BY FreshIs
  <2>2. FreshEffect(before, s)
    BY FreshIs
  <2> QED
    BY <2>1, <2>2 DEF Remembers, FreshEffect
<1>2. \A f \in CanonFields \ {"dead"} : Mixed(torn[f], s.canon[f], torn[f])
  BY DEF Mixed
<1> QED
  BY <1>1, <1>2 DEF Replays, FieldReplays

(* A torn canon replayed up to the tear is what it was there.              *)
LEMMA MixedIsIt == \A g, t : IsFun(g) /\ IsFun(t) /\ Mixed(g, t, t) => g = t
  BY DEF IsFun, Mixed

LEMMA SameImport ==
    ASSUME NEW r, IsImport(r), NEW s, IsImport(s), \A f \in CanonFields : r.canon[f] = s.canon[f],
           r.stops = s.stops, r.routes = s.routes, r.trips = s.trips
    PROVE  r = s
<1>1. PICK a, b : a = r.canon /\ b = s.canon
  OBVIOUS
<1>2. IsFun(a) /\ IsFun(b) /\ DOMAIN a = CanonFields /\ DOMAIN b = CanonFields
  BY <1>1 DEF IsImport, IsCanon
<1>3. \A f \in CanonFields : a[f] = b[f]
  BY <1>1
<1>4. a = b
  BY <1>2, <1>3 DEF IsFun
<1>5. r.canon = s.canon
  BY <1>1, <1>4
<1> QED
  BY <1>5 DEF IsImport, IsFun

LEMMA FieldIsIt ==
    ASSUME NEW r, IsImport(r), NEW s, IsImport(s), NEW torn, Replays(r, s, torn),
           NEW f \in CanonFields \ {"dead"}, torn[f] = s.canon[f]
    PROVE  r.canon[f] = s.canon[f]
<1>1. CASE f \in WrittenFields
  <2>1. PICK g, t : g = r.canon[f] /\ t = s.canon[f]
    OBVIOUS
  <2>2. Mixed(g, t, t)
    BY <1>1, <2>1 DEF Replays, FieldReplays
  <2>3. IsFun(g) /\ IsFun(t)
    BY <1>1, <2>1 DEF IsImport, IsCanon, WrittenFields
  <2> QED
    BY <2>1, <2>2, <2>3, MixedIsIt
<1>2. CASE f \notin WrittenFields
  BY <1>2 DEF Replays, FieldReplays
<1> QED
  BY <1>1, <1>2

LEMMA ReplayedIsIt ==
    ASSUME NEW r, IsImport(r), NEW s, IsImport(s), Replays(r, s, s.canon)
    PROVE  r = s
<1>1. \A f \in CanonFields \ {"dead"} : r.canon[f] = s.canon[f]
  BY FieldIsIt
<1>2. r.canon["dead"] = s.canon["dead"]
  BY DEF Replays, Remembers
<1>3. \A f \in CanonFields : r.canon[f] = s.canon[f]
  BY <1>1, <1>2
<1>4. r.stops = s.stops /\ r.routes = s.routes /\ r.trips = s.trips
  BY DEF Replays, Remembers
<1> QED
  BY <1>3, <1>4, SameImport

(* The rows before the tear.                                               *)
Begins(part, steps, cut) == Len(part) = cut /\ \A n \in 1..cut : part[n] = steps[n]

Overtakes(steps, s, cut, torn) ==
    /\ Grows(s[cut].canon, torn)
    /\ \A n \in 1..cut : Late(steps[n]) => torn.services = s[cut].canon.services

LEMMA Replayed ==
    ASSUME NEW before, IsCanon(before), NEW steps, AllSteps(steps), NEW N \in Nat, Len(steps) = N,
           NEW cut \in 0..N, NEW s, Imports(s, before, steps, N),
           NEW torn, IsCanon(torn), Overtakes(steps, s, cut, torn),
           NEW r, Imports(r, torn, steps, N)
    PROVE  Replays(r[cut], s[cut], torn)
<1>0. /\ DOMAIN steps = 1..N /\ cut \in Nat
      /\ \A n \in 1..N : steps[n][1] \in GtfsFiles
      /\ \A n \in 0..cut : n \in 0..N
      /\ \A n \in 1..cut : n \in 1..N /\ n - 1 \in 0..N /\ n - 1 \in 0..cut /\ n - 1 < cut
  BY DEF AllSteps
<1>4. \A n \in 0..N : IsImport(s[n])
  BY <1>0, ImportsAre
<1>7. \A n \in 0..N : IsImport(r[n])
  BY <1>0, ImportsAre
<1>8. Settled(s, steps, cut)
  BY AllSettled
<1> DEFINE T == {n \in 0..cut : Replays(r[n], s[n], torn)}
<1>1. 0 \in T
  <2>1. PICK a, b : a = r[0] /\ b = s[0]
    OBVIOUS
  <2>2. a = Fresh(torn) /\ b = Fresh(before)
    BY <2>1 DEF Imports
  <2>3. Replays(a, b, torn)
    BY <2>2, FreshReplays
  <2> QED
    BY <1>0, <2>1, <2>3
<1>2. ASSUME NEW n \in 1..cut, n - 1 \in T
      PROVE  n \in T
  <2>1. PICK a, b, step, m, k : a = r[n - 1] /\ b = s[n - 1] /\ step = steps[n] /\ m = r[n] /\ k = s[n]
    OBVIOUS
  <2>2. IsImport(a) /\ IsImport(b) /\ Replays(a, b, torn) /\ step[1] \in GtfsFiles
    BY <1>0, <1>2, <1>4, <1>7, <2>1
  <2>3. m = ImportRow(a, step) /\ k = ImportRow(b, step)
    BY <1>0, <2>1 DEF Imports
  <2>4. Holds(torn, k.canon)
    <3>1. Holds(s[cut].canon, k.canon)
      BY <1>0, <1>8, <2>1 DEF Settled
    <3>2. Grows(s[cut].canon, torn)
      BY DEF Overtakes
    <3> QED
      BY <3>1, <3>2, HoldsOn
  <2>5. Late(step) => DOMAIN b.canon.services = DOMAIN torn.services
    <3>1. n - 1 \in 0..cut /\ n - 1 < cut /\ (n - 1) + 1 = n
      BY <1>0
    <3>2. Late(steps[n]) => s[cut].canon.services = s[n - 1].canon.services
      BY <1>8, <3>1 DEF Settled
    <3>3. Late(steps[n]) => torn.services = s[cut].canon.services
      BY DEF Overtakes
    <3> QED
      BY <2>1, <3>2, <3>3
  <2>6. Replays(m, k, torn)
    BY <2>2, <2>3, <2>4, <2>5, RowReplays
  <2> QED
    BY <2>1, <2>6
<1> HIDE DEF T
<1>3. \A n \in 0..cut : n \in T
  BY <1>0, <1>1, <1>2, UpTo
<1>5. cut \in 0..cut
  BY <1>0
<1> QED
  BY <1>3, <1>5 DEF T

(* What a row leaves that the import died in.                              *)
LEMMA TornGrows ==
    ASSUME NEW c, IsCanon(c), NEW step, NEW part, NEW torn, torn = Torn(c, step, part)
    PROVE  /\ IsCanon(torn) /\ Grows(c, torn)
           /\ Late(step) \/ c.dead => torn = c
<1>1. CASE c.dead \/ step[1] \notin {"stops", "calendar"}
  <2>1. torn = c
    BY <1>1 DEF Torn, IsCanon
  <2> QED
    BY <2>1 DEF Grows
<1>2. CASE ~c.dead /\ step[1] = "stops"
  <2>1. torn = WriteStop(c, step[2].code, part)
    BY <1>2 DEF Torn
  <2>2. PICK code, done : Begun(c, torn, code, done)
    BY <2>1, WriteStopIs
  <2>3. \A f \in KeyedFields \cup {"days"} : torn[f] = c[f]
    BY <2>2 DEF Begun, CanonFields, KeyedFields
  <2>4. \A f \in KeyedFields : DOMAIN c[f] \subseteq DOMAIN torn[f]
    BY <2>3
  <2>5. c.terminals \subseteq torn.terminals /\ c.days \subseteq torn.days
    BY <2>2, <2>3 DEF Begun
  <2> QED
    BY <1>2, <2>2, <2>4, <2>5 DEF Begun, Grows, Late
<1>3. CASE ~c.dead /\ step[1] = "calendar"
  <2>1. PICK row : row = step[2] /\ torn = WriteService(c, row, part)
    BY <1>3 DEF Torn
  <2>2. Scheduled(c, torn, row, part)
    BY <2>1, WriteServiceIs
  <2>3. DOMAIN c.services \subseteq DOMAIN Set(c.services, row.id, row.dates)
    BY SetGrows
  <2>4. \A f \in {"services", "days"} : FieldGrows(f, c[f], torn[f])
    BY <2>2, <2>3 DEF Scheduled, FieldGrows, KeyedFields
  <2>5. Grows(c, torn)
    BY <1>3, <2>2, <2>4, ChangesGrow DEF Scheduled
  <2> QED
    BY <1>3, <2>2, <2>5 DEF Scheduled, Changes, Late
<1> QED
  BY <1>1, <1>2, <1>3

(* Two imports that differ by a stray, or by one mark of a stop.           *)
SameElse(r, s) ==
    /\ r.stops = s.stops /\ r.routes = s.routes /\ r.trips = s.trips
    /\ \A f \in CanonFields \ {"terminals", "strays"} : r.canon[f] = s.canon[f]

Off(a, b, code) ==
    \/ a = b
    \/ /\ <<code, "code">> \in b /\ <<code, "stop">> \in b
       /\ \E mark \in {"primary", "name"} : a = b \ {<<code, mark>>}

Nearly(r, s, code) ==
    /\ SameElse(r, s)
    /\ \/ r.canon.terminals = s.canon.terminals /\ r.canon.strays = s.canon.strays + 1
       \/ r.canon.strays = s.canon.strays /\ Off(r.canon.terminals, s.canon.terminals, code)

OffBy(a, b, code, done) ==
    Off(a, b, code) /\ ("terminal" \in done /\ "code" \notin done => a = b)

Marked(u, code, done) == u \cup ({code} \X (done \ {"terminal"}))

FullyMarked(u, code) == u \cup ({code} \X Wanting(u, code))

LEMMA SetAgain ==
    \A g, h, t, key, v :
        Mixed(g, h, t) /\ (t = h \/ t = Set(h, key, v)) => Set(g, key, v) = Set(h, key, v)
<1> SUFFICES ASSUME NEW g, NEW h, NEW t, NEW key, NEW v, Mixed(g, h, t), t = h \/ t = Set(h, key, v)
             PROVE  Set(g, key, v) = Set(h, key, v)
  OBVIOUS
<1>1. /\ DOMAIN t \cup {key} = DOMAIN h \cup {key}
      /\ \A k \in DOMAIN t : k # key => t[k] = h[k]
  BY DEF Set
<1>2. DOMAIN g \cup {key} = DOMAIN h \cup {key}
  BY <1>1 DEF Mixed
<1>3. \A k \in DOMAIN h \cup {key} : k # key => g[k] = h[k]
  BY <1>1, <1>2 DEF Mixed
<1> QED
  BY <1>2, <1>3 DEF Set

(* A stop that was written in part before, and one that was not.           *)
LEMMA OneOff ==
    ASSUME NEW c, NEW u, u = c.terminals, NEW code, NEW part \in 0..8, NEW done, done = Done(c, code, part),
           NEW t, t = Marked(u, code, done), NEW a, a = FullyMarked(t, code),
           NEW b, b = FullyMarked(u, code)
    PROVE  OffBy(a, b, code, done)
<1> DEFINE known == <<code, "code">> \in u
           placed == <<code, "stop">> \in u
<1>1. \A w \in {"terminal", "code", "primary"} : w \in done <=> ~known /\ StopStatement[w] <= part
  BY DEF Done, Unwritten
<1>2. \A w \in {"stop", "name"} : w \in done <=> ~placed /\ StopStatement[w] <= part
  BY DEF Done, Unwritten
<1>3. \A w \in done : w \in {"terminal", "code", "primary", "stop", "name"}
  BY DEF Done, Unwritten
<1>4. /\ "terminal" \in done <=> ~known /\ 1 <= part
      /\ "code" \in done <=> ~known /\ 2 <= part
      /\ "primary" \in done <=> ~known /\ 3 <= part
      /\ "stop" \in done <=> ~placed /\ 4 <= part
      /\ "name" \in done <=> ~placed /\ 5 <= part
  BY <1>1, <1>2 DEF StopStatement
<1>5. \A x : x \in t <=> x \in u \/ \E w \in done \ {"terminal"} : x = <<code, w>>
  BY DEF Marked
<1>6. \A x : x \in b <=> \/ x \in u
                         \/ ~known /\ x \in {<<code, "code">>, <<code, "primary">>}
                         \/ ~placed /\ x \in {<<code, "stop">>, <<code, "name">>}
  BY DEF Wanting, FullyMarked
<1>7. \A x : x \in a <=> \/ x \in t
                         \/ <<code, "code">> \notin t /\ x \in {<<code, "code">>, <<code, "primary">>}
                         \/ <<code, "stop">> \notin t /\ x \in {<<code, "stop">>, <<code, "name">>}
  BY DEF Wanting, FullyMarked
<1>8. /\ <<code, "code">> \in t <=> known \/ "code" \in done
      /\ <<code, "stop">> \in t <=> placed \/ "stop" \in done
  BY <1>5
<1>9. <<code, "code">> \in b /\ <<code, "stop">> \in b
  BY <1>6
<1>10. \A x : x \in t <=> \/ x \in u
                          \/ "code" \in done /\ x = <<code, "code">>
                          \/ "primary" \in done /\ x = <<code, "primary">>
                          \/ "stop" \in done /\ x = <<code, "stop">>
                          \/ "name" \in done /\ x = <<code, "name">>
  BY <1>3, <1>5
<1> HIDE DEF known, placed
<1>11. CASE part \in {0, 1}
  <2>1. \A x : x \in a <=> x \in b
    BY <1>4, <1>6, <1>7, <1>8, <1>10, <1>11 DEF known, placed
  <2> QED
    BY <2>1, <1>4 DEF Off, OffBy
<1>12. CASE part = 2
  <2>1. \A x : x # <<code, "primary">> => (x \in a <=> x \in b)
    BY <1>4, <1>6, <1>7, <1>8, <1>10, <1>12 DEF known, placed
  <2>2. <<code, "primary">> \in a => <<code, "primary">> \in b
    BY <1>4, <1>6, <1>7, <1>8, <1>10, <1>12 DEF known, placed
  <2>3. a = b \/ a = b \ {<<code, "primary">>}
    <3>1. CASE <<code, "primary">> \in a
      BY <2>1, <2>2, <3>1
    <3>2. CASE <<code, "primary">> \notin a
      BY <2>1, <3>2
    <3> QED
      BY <3>1, <3>2
  <2>4. "terminal" \in done => "code" \in done
    BY <1>4, <1>12
  <2> QED
    BY <1>9, <2>3, <2>4 DEF Off, OffBy
<1>13. CASE part = 3
  <2>1. \A x : x \in a <=> x \in b
    BY <1>4, <1>6, <1>7, <1>8, <1>10, <1>13 DEF known, placed
  <2> QED
    BY <2>1, <1>4 DEF Off, OffBy
<1>14. CASE part = 4
  <2>1. \A x : x # <<code, "name">> => (x \in a <=> x \in b)
    BY <1>4, <1>6, <1>7, <1>8, <1>10, <1>14 DEF known, placed
  <2>2. <<code, "name">> \in a => <<code, "name">> \in b
    BY <1>4, <1>6, <1>7, <1>8, <1>10, <1>14 DEF known, placed
  <2>3. a = b \/ a = b \ {<<code, "name">>}
    <3>1. CASE <<code, "name">> \in a
      BY <2>1, <2>2, <3>1
    <3>2. CASE <<code, "name">> \notin a
      BY <2>1, <3>2
    <3> QED
      BY <3>1, <3>2
  <2>4. "terminal" \in done => "code" \in done
    BY <1>4, <1>14
  <2> QED
    BY <1>9, <2>3, <2>4 DEF Off, OffBy
<1>15. CASE part \in 5..8
  <2>1. \A x : x \in a <=> x \in b
    BY <1>4, <1>6, <1>7, <1>8, <1>10, <1>15 DEF known, placed
  <2> QED
    BY <2>1, <1>4 DEF Off, OffBy
<1>16. part \in {0, 1} \/ part = 2 \/ part = 3 \/ part = 4 \/ part \in 5..8
  OBVIOUS
<1> QED
  BY <1>11, <1>12, <1>13, <1>14, <1>15, <1>16

(* The row the import died in, imported again.                             *)
Ends(m, n, step) == m = n \/ (step[1] = "stops" /\ Nearly(m, n, step[2].code))

LEMMA RowEnds ==
    ASSUME NEW r, IsImport(r), NEW s, IsImport(s), NEW step, step[1] \in GtfsFiles, NEW part \in 0..8,
           NEW torn, torn = Torn(s.canon, step, part), Replays(r, s, torn),
           NEW m, m = ImportRow(r, step), NEW n, n = ImportRow(s, step)
    PROVE  Ends(m, n, step)
<1>0. r.canon.dead = s.canon.dead /\ r.stops = s.stops /\ r.routes = s.routes /\ r.trips = s.trips
  BY DEF Replays, Remembers
<1>a. IsCanon(s.canon)
  BY DEF IsImport
<1>1. CASE s.canon.dead \/ step[1] \notin {"stops", "calendar"}
  <2>1. torn = s.canon
    BY <1>1, <1>a, TornGrows DEF Late
  <2>2. r = s
    BY <2>1, ReplayedIsIt
  <2> QED
    BY <2>2 DEF Ends
<1>2. CASE ~s.canon.dead /\ step[1] = "calendar"
  <2>1. PICK row : row = step[2] /\ m = ServiceRow(r, row) /\ n = ServiceRow(s, row)
    BY <1>0, <1>2, ImportRowIs
  <2>2. ServiceRowEffect(r, row, m) /\ ServiceRowEffect(s, row, n)
    BY <2>1, ServiceRowIs
  <2>3. Scheduled(s.canon, torn, row, part)
    BY <1>2, <1>a, <2>1, WriteServiceIs DEF Torn
  <2>4. m.canon.services = n.canon.services
    <3>1. PICK g, h, t, key, v : /\ g = r.canon.services /\ h = s.canon.services /\ t = torn.services
                                 /\ key = row.id /\ v = row.dates
      OBVIOUS
    <3>2. t = h \/ t = Set(h, key, v)
      BY <2>3, <3>1 DEF Scheduled
    <3>3. FieldReplays("services", r.canon["services"], s.canon["services"], torn["services"])
      BY DEF Replays, CanonFields
    <3>4. Mixed(g, h, t)
      BY <3>1, <3>3 DEF FieldReplays, WrittenFields
    <3>5. m.canon.services = Set(g, key, v) /\ n.canon.services = Set(h, key, v)
      BY <2>2, <3>1 DEF ServiceRowEffect
    <3> QED
      BY <3>2, <3>4, <3>5, SetAgain
  <2>5. m.canon.days = n.canon.days
    <3>1. FieldReplays("days", r.canon["days"], s.canon["days"], torn["days"])
      BY DEF Replays, CanonFields
    <3>2. r.canon.days = s.canon.days \cup DaysTo(row, part)
      BY <2>3, <3>1 DEF FieldReplays, WrittenFields, Scheduled
    <3>3. DaysTo(row, part) \subseteq DaysTo(row, 8)
      <4>1. 1..(part - 1) \subseteq 1..(8 - 1)
        OBVIOUS
      <4>2. {WeekFromMonday[k] : k \in 1..(part - 1)} \subseteq {WeekFromMonday[k] : k \in 1..(8 - 1)}
        BY <4>1
      <4> QED
        BY <4>2 DEF DaysTo
    <3>4. m.canon.days = r.canon.days \cup DaysTo(row, 8) /\ n.canon.days = s.canon.days \cup DaysTo(row, 8)
      BY <2>2 DEF ServiceRowEffect
    <3> QED
      BY <3>2, <3>3, <3>4
  <2>6. ASSUME NEW f \in CanonFields \ {"services", "days"}
        PROVE  m.canon[f] = n.canon[f]
    <3>1. m.canon[f] = r.canon[f] /\ n.canon[f] = s.canon[f] /\ torn[f] = s.canon[f]
      BY <2>2, <2>3 DEF ServiceRowEffect, Scheduled, Changes
    <3>2. CASE f = "dead"
      BY <1>0, <3>1, <3>2
    <3>3. CASE f # "dead"
      BY <3>1, <3>3, FieldIsIt
    <3> QED
      BY <3>2, <3>3
  <2>7. IsImport(m) /\ IsImport(n) /\ m.stops = n.stops /\ m.routes = n.routes /\ m.trips = n.trips
    BY <1>0, <2>2 DEF ServiceRowEffect
  <2>8. \A f \in CanonFields : m.canon[f] = n.canon[f]
    BY <2>4, <2>5, <2>6
  <2>9. m = n
    BY <2>7, <2>8, SameImport
  <2> QED
    BY <2>9 DEF Ends
<1>3. CASE ~s.canon.dead /\ step[1] = "stops"
  <2>1. PICK row, code : row = step[2] /\ code = row.code /\ m = StopRow(r, row) /\ n = StopRow(s, row)
    BY <1>0, <1>3, ImportRowIs
  <2>2. StopRowEffect(r, row, m) /\ StopRowEffect(s, row, n)
    BY <2>1, StopRowIs
  <2>3. PICK c, done : c = s.canon /\ done = Done(c, code, part)
    OBVIOUS
  <2>4. Begun(c, torn, code, done)
    BY <1>3, <1>a, <2>1, <2>3, WriteStopIs DEF Torn
  <2>5. ASSUME NEW f \in CanonFields \ {"terminals", "strays"}
        PROVE  m.canon[f] = n.canon[f]
    <3>1. m.canon[f] = r.canon[f] /\ n.canon[f] = s.canon[f] /\ torn[f] = s.canon[f]
      BY <2>2, <2>3, <2>4 DEF StopRowEffect, Begun, Changes
    <3>2. CASE f = "dead"
      BY <1>0, <3>1, <3>2
    <3>3. CASE f # "dead"
      BY <3>1, <3>3, FieldIsIt
    <3> QED
      BY <3>2, <3>3
  <2>6. m.stops = n.stops /\ m.routes = n.routes /\ m.trips = n.trips
    BY <1>0, <2>2 DEF StopRowEffect
  <2>7. PICK u, t, a, b : /\ u = c.terminals /\ t = torn.terminals
                          /\ a = m.canon.terminals /\ b = n.canon.terminals
    OBVIOUS
  <2>8. r.canon["terminals"] = torn["terminals"] /\ r.canon["strays"] = torn["strays"]
    BY DEF Replays, FieldReplays, CanonFields, WrittenFields
  <2>9. t = Marked(u, code, done) /\ a = FullyMarked(t, code) /\ b = FullyMarked(u, code)
    BY <2>1, <2>2, <2>3, <2>4, <2>7, <2>8 DEF Begun, StopRowEffect, Marked, FullyMarked
  <2>10. OffBy(a, b, code, done)
    BY <2>3, <2>7, <2>9, OneOff
  <2>11. /\ m.canon["strays"] = torn["strays"] /\ n.canon["strays"] = c["strays"]
    BY <2>2, <2>3, <2>8 DEF StopRowEffect, Changes, CanonFields
  <2>12. m.canon.strays = IF "terminal" \in done /\ "code" \notin done
                          THEN n.canon.strays + 1 ELSE n.canon.strays
    BY <2>4, <2>11 DEF Begun
  <2>13. Nearly(m, n, code)
    BY <2>5, <2>6, <2>7, <2>10, <2>12 DEF Nearly, SameElse, OffBy
  <2> QED
    BY <1>3, <2>1, <2>13 DEF Ends
<1> QED
  BY <1>1, <1>2, <1>3

(* From then on the two stay as near as that.                              *)
LEMMA NearlyStill ==
    ASSUME NEW r, NEW s, NEW code, Nearly(r, s, code), NEW m, NEW n,
           NEW fields, "terminals" \notin fields, "strays" \notin fields,
           Changes(r.canon, m.canon, fields), Changes(s.canon, n.canon, fields),
           \A f \in fields : m.canon[f] = n.canon[f],
           m.stops = n.stops, m.routes = n.routes, m.trips = n.trips
    PROVE  Nearly(m, n, code)
<1>1. ASSUME NEW f \in CanonFields \ {"terminals", "strays"}
      PROVE  m.canon[f] = n.canon[f]
  <2>1. CASE f \in fields
    BY <2>1
  <2>2. CASE f \notin fields
    <3>1. m.canon[f] = r.canon[f] /\ n.canon[f] = s.canon[f]
      BY <2>2 DEF Changes
    <3>2. r.canon[f] = s.canon[f]
      BY DEF Nearly, SameElse
    <3> QED
      BY <3>1, <3>2
  <2> QED
    BY <2>1, <2>2
<1>2. \A f \in {"terminals", "strays"} : m.canon[f] = r.canon[f] /\ n.canon[f] = s.canon[f]
  BY DEF Changes, CanonFields
<1>3. /\ m.canon.terminals = r.canon.terminals /\ n.canon.terminals = s.canon.terminals
      /\ m.canon.strays = r.canon.strays /\ n.canon.strays = s.canon.strays
  BY <1>2
<1>4. SameElse(m, n)
  BY <1>1 DEF SameElse
<1> QED
  BY <1>3, <1>4 DEF Nearly

LEMMA OffStill ==
    ASSUME NEW a, NEW b, NEW code, Off(a, b, code), NEW other
    PROVE  Off(a \cup ({other} \X Wanting(a, other)), b \cup ({other} \X Wanting(b, other)), code)
<1>1. CASE a = b
  BY <1>1 DEF Off
<1>2. CASE a # b
  <2>1. PICK mark \in {"primary", "name"} : a = b \ {<<code, mark>>}
    BY <1>2 DEF Off
  <2>2. <<code, "code">> \in b /\ <<code, "stop">> \in b
    BY <1>2 DEF Off
  <2>3. \A w \in {"code", "stop"} : <<other, w>> \in a <=> <<other, w>> \in b
    BY <2>1
  <2>4. PICK x : x = Wanting(a, other) /\ x = Wanting(b, other) /\ (other = code => x = {})
    BY <2>2, <2>3 DEF Wanting
  <2>5. <<code, mark>> \notin {other} \X x
    BY <2>4
  <2>6. a \cup ({other} \X x) = (b \cup ({other} \X x)) \ {<<code, mark>>}
    BY <2>1, <2>5
  <2>7. <<code, "code">> \in b \cup ({other} \X x) /\ <<code, "stop">> \in b \cup ({other} \X x)
    BY <2>2
  <2>8. Off(a \cup ({other} \X x), b \cup ({other} \X x), code)
    BY <2>6, <2>7 DEF Off
  <2> QED
    BY <2>4, <2>8
<1> QED
  BY <1>1, <1>2

LEMMA StopNearly ==
    ASSUME NEW r, NEW s, NEW code, Nearly(r, s, code), NEW row, NEW m, NEW n,
           StopRowEffect(r, row, m), StopRowEffect(s, row, n)
    PROVE  Nearly(m, n, code)
<1>1. PICK a, b, u, v, other :
        /\ a = r.canon.terminals /\ b = s.canon.terminals /\ other = row.code
        /\ u = m.canon.terminals /\ v = n.canon.terminals
  OBVIOUS
<1>2. u = a \cup ({other} \X Wanting(a, other)) /\ v = b \cup ({other} \X Wanting(b, other))
  BY <1>1 DEF StopRowEffect
<1>3. /\ m.canon["strays"] = r.canon["strays"] /\ n.canon["strays"] = s.canon["strays"]
      /\ \A f \in CanonFields \ {"terminals", "strays"} :
            m.canon[f] = r.canon[f] /\ n.canon[f] = s.canon[f]
  BY DEF StopRowEffect, Changes, CanonFields
<1>4. SameElse(m, n)
  BY <1>3 DEF Nearly, SameElse, StopRowEffect
<1>5. CASE a = b /\ r.canon.strays = s.canon.strays + 1
  BY <1>1, <1>2, <1>3, <1>4, <1>5 DEF Nearly
<1>6. CASE r.canon.strays = s.canon.strays /\ Off(a, b, code)
  <2>1. Off(u, v, code)
    BY <1>2, <1>6, OffStill
  <2> QED
    BY <1>1, <1>3, <1>4, <1>6, <2>1 DEF Nearly
<1> QED
  BY <1>1, <1>5, <1>6 DEF Nearly

LEMMA RowNearly ==
    ASSUME NEW r, IsImport(r), NEW s, IsImport(s), NEW code, Nearly(r, s, code),
           NEW step, step[1] \in GtfsFiles,
           NEW m, m = ImportRow(r, step), NEW n, n = ImportRow(s, step)
    PROVE  Nearly(m, n, code)
<1>1. \A f \in CanonFields \ {"terminals", "strays"} : r.canon[f] = s.canon[f]
  BY DEF Nearly, SameElse
<1>2. /\ r.canon["dead"] = s.canon["dead"] /\ r.canon["services"] = s.canon["services"]
      /\ r.canon["days"] = s.canon["days"] /\ r.canon["exceptions"] = s.canon["exceptions"]
      /\ r.canon["routes"] = s.canon["routes"] /\ r.canon["trips"] = s.canon["trips"]
      /\ r.canon["frequencies"] = s.canon["frequencies"] /\ r.canon["times"] = s.canon["times"]
  BY <1>1 DEF CanonFields
<1>3. r.stops = s.stops /\ r.routes = s.routes /\ r.trips = s.trips
  BY DEF Nearly, SameElse
<1>4. PICK row : row = step[2]
  OBVIOUS
<1>5. CASE s.canon.dead
  <2>1. m = r /\ n = s
    BY <1>2, <1>5, ImportRowIs
  <2> QED
    BY <2>1
<1>6. CASE ~s.canon.dead /\ step[1] = "stops"
  <2>1. m = StopRow(r, row) /\ n = StopRow(s, row)
    BY <1>2, <1>4, <1>6, ImportRowIs
  <2>2. StopRowEffect(r, row, m) /\ StopRowEffect(s, row, n)
    BY <2>1, StopRowIs
  <2> QED
    BY <2>2, StopNearly
<1>7. CASE ~s.canon.dead /\ step[1] = "calendar"
  <2>1. m = ServiceRow(r, row) /\ n = ServiceRow(s, row)
    BY <1>2, <1>4, <1>7, ImportRowIs
  <2>2. ServiceRowEffect(r, row, m) /\ ServiceRowEffect(s, row, n)
    BY <2>1, ServiceRowIs
  <2>3. PICK fields : fields = {"services", "days"}
    OBVIOUS
  <2>4. \A f \in fields : m.canon[f] = n.canon[f]
    BY <1>2, <2>2, <2>3 DEF ServiceRowEffect
  <2>5. /\ Changes(r.canon, m.canon, fields) /\ Changes(s.canon, n.canon, fields)
        /\ m.stops = n.stops /\ m.routes = n.routes /\ m.trips = n.trips
    BY <1>3, <2>2, <2>3 DEF ServiceRowEffect
  <2> QED
    BY <2>3, <2>4, <2>5, NearlyStill
<1>8. CASE ~s.canon.dead /\ step[1] = "calendar_dates"
  <2>1. m = ExceptionRow(r, row) /\ n = ExceptionRow(s, row)
    BY <1>2, <1>4, <1>8, ImportRowIs
  <2>2. ExceptionRowEffect(r, row, m) /\ ExceptionRowEffect(s, row, n)
    BY <1>2, <1>8, <2>1, ExceptionRowIs
  <2>3. m.stops = n.stops /\ m.routes = n.routes /\ m.trips = n.trips
    BY <1>3, <2>2 DEF ExceptionRowEffect
  <2>4. CASE row.service \notin DOMAIN s.canon.services
    <3>1. PICK fields : fields = {"dead"}
      OBVIOUS
    <3>2. m.canon.dead /\ n.canon.dead /\ IsImport(m) /\ IsImport(n)
      BY <1>2, <2>2, <2>4 DEF ExceptionRowEffect
    <3>3. \A f \in fields : m.canon[f] = n.canon[f]
      BY <3>1, <3>2 DEF IsImport, IsCanon
    <3>4. Changes(r.canon, m.canon, fields) /\ Changes(s.canon, n.canon, fields)
      BY <1>2, <2>2, <2>4, <3>1 DEF ExceptionRowEffect
    <3> QED
      BY <2>3, <3>1, <3>3, <3>4, NearlyStill
  <2>5. CASE row.service \in DOMAIN s.canon.services
    <3>1. PICK fields : fields = {"exceptions"}
      OBVIOUS
    <3>2. \A f \in fields : m.canon[f] = n.canon[f]
      BY <1>2, <2>2, <2>5, <3>1 DEF ExceptionRowEffect
    <3>3. Changes(r.canon, m.canon, fields) /\ Changes(s.canon, n.canon, fields)
      BY <1>2, <2>2, <2>5, <3>1 DEF ExceptionRowEffect
    <3> QED
      BY <2>3, <3>1, <3>2, <3>3, NearlyStill
  <2> QED
    BY <2>4, <2>5
<1>9. CASE ~s.canon.dead /\ step[1] = "routes"
  <2>1. m = RouteRow(r, row) /\ n = RouteRow(s, row)
    BY <1>2, <1>4, <1>9, ImportRowIs
  <2>2. RouteRowEffect(r, row, m) /\ RouteRowEffect(s, row, n)
    BY <2>1, RouteRowIs
  <2>3. PICK fields : fields = {"routes"}
    OBVIOUS
  <2>4. \A f \in fields : m.canon[f] = n.canon[f]
    BY <1>2, <2>2, <2>3 DEF RouteRowEffect
  <2>5. /\ Changes(r.canon, m.canon, fields) /\ Changes(s.canon, n.canon, fields)
        /\ m.stops = n.stops /\ m.routes = n.routes /\ m.trips = n.trips
    BY <1>3, <2>2, <2>3 DEF RouteRowEffect
  <2> QED
    BY <2>3, <2>4, <2>5, NearlyStill
<1>10. CASE ~s.canon.dead /\ step[1] = "trips"
  <2>1. m = TripRow(r, row) /\ n = TripRow(s, row)
    BY <1>2, <1>4, <1>10, ImportRowIs
  <2>2. TripRowEffect(r, row, m) /\ TripRowEffect(s, row, n)
    BY <1>2, <1>10, <2>1, TripRowIs
  <2>3. PICK key : key = <<row.route, row.id>>
    OBVIOUS
  <2>4. CASE row.route \notin s.routes
    BY <1>3, <2>2, <2>4 DEF TripRowEffect
  <2>5. CASE row.route \in s.routes /\ key \notin DOMAIN s.canon.trips /\ row.service \notin DOMAIN s.canon.services
    <3>1. PICK fields : fields = {"dead"}
      OBVIOUS
    <3>2. m.canon.dead /\ n.canon.dead /\ IsImport(m) /\ IsImport(n)
      BY <1>2, <1>3, <2>2, <2>3, <2>5 DEF TripRowEffect
    <3>3. \A f \in fields : m.canon[f] = n.canon[f]
      BY <3>1, <3>2 DEF IsImport, IsCanon
    <3>4. /\ Changes(r.canon, m.canon, fields) /\ Changes(s.canon, n.canon, fields)
          /\ m.stops = n.stops /\ m.routes = n.routes /\ m.trips = n.trips
      BY <1>2, <1>3, <2>2, <2>3, <2>5, <3>1 DEF TripRowEffect
    <3> QED
      BY <3>1, <3>3, <3>4, NearlyStill
  <2>6. CASE row.route \in s.routes /\ (key \in DOMAIN s.canon.trips \/ row.service \in DOMAIN s.canon.services)
    <3>1. PICK fields : fields = {"trips"}
      OBVIOUS
    <3>2. \A f \in fields : m.canon[f] = n.canon[f]
      BY <1>2, <1>3, <2>2, <2>3, <2>6, <3>1 DEF TripRowEffect
    <3>3. /\ Changes(r.canon, m.canon, fields) /\ Changes(s.canon, n.canon, fields)
          /\ m.stops = n.stops /\ m.routes = n.routes /\ m.trips = n.trips
      BY <1>2, <1>3, <2>2, <2>3, <2>6, <3>1 DEF TripRowEffect
    <3> QED
      BY <3>1, <3>2, <3>3, NearlyStill
  <2> QED
    BY <2>4, <2>5, <2>6
<1>11. CASE ~s.canon.dead /\ step[1] = "frequencies"
  <2>1. m = FrequencyRow(r, row) /\ n = FrequencyRow(s, row)
    BY <1>2, <1>4, <1>11, ImportRowIs
  <2>2. FrequencyRowEffect(r, row, m) /\ FrequencyRowEffect(s, row, n)
    BY <2>1, FrequencyRowIs
  <2>3. CASE row.trip \notin DOMAIN s.trips
    BY <1>3, <2>2, <2>3 DEF FrequencyRowEffect
  <2>4. CASE row.trip \in DOMAIN s.trips
    <3>1. PICK fields : fields = {"frequencies"}
      OBVIOUS
    <3>2. \A f \in fields : m.canon[f] = n.canon[f]
      BY <1>2, <1>3, <2>2, <2>4, <3>1 DEF FrequencyRowEffect
    <3>3. /\ Changes(r.canon, m.canon, fields) /\ Changes(s.canon, n.canon, fields)
          /\ m.stops = n.stops /\ m.routes = n.routes /\ m.trips = n.trips
      BY <1>3, <2>2, <2>4, <3>1 DEF FrequencyRowEffect
    <3> QED
      BY <3>1, <3>2, <3>3, NearlyStill
  <2> QED
    BY <2>3, <2>4
<1>12. CASE ~s.canon.dead /\ step[1] = "stop_times"
  <2>1. m = TimeRow(r, row) /\ n = TimeRow(s, row)
    BY <1>2, <1>4, <1>12, ImportRowIs
  <2>2. TimeRowEffect(r, row, m) /\ TimeRowEffect(s, row, n)
    BY <2>1, TimeRowIs
  <2>3. CASE row.trip \notin DOMAIN s.trips \/ row.stop \notin DOMAIN s.stops
    BY <1>3, <2>2, <2>3 DEF TimeRowEffect
  <2>4. CASE row.trip \in DOMAIN s.trips /\ row.stop \in DOMAIN s.stops
    <3>1. PICK fields : fields = {"times"}
      OBVIOUS
    <3>2. \A f \in fields : m.canon[f] = n.canon[f]
      BY <1>2, <1>3, <2>2, <2>4, <3>1 DEF TimeRowEffect
    <3>3. /\ Changes(r.canon, m.canon, fields) /\ Changes(s.canon, n.canon, fields)
          /\ m.stops = n.stops /\ m.routes = n.routes /\ m.trips = n.trips
      BY <1>3, <2>2, <2>4, <3>1 DEF TimeRowEffect
    <3> QED
      BY <3>1, <3>2, <3>3, NearlyStill
  <2> QED
    BY <2>3, <2>4
<1> QED
  BY <1>5, <1>6, <1>7, <1>8, <1>9, <1>10, <1>11, <1>12 DEF GtfsFiles

AsNear(r, s, feed) == r = s \/ \E row \in Range(feed.stops) : Nearly(r, s, row.code)

LEMMA NearToTheEnd ==
    ASSUME NEW feed, NEW steps, NEW N \in Nat, \A n \in 1..N : steps[n][1] \in GtfsFiles,
           NEW s, NEW before, Imports(s, before, steps, N), \A n \in 0..N : IsImport(s[n]),
           NEW r, NEW torn, Imports(r, torn, steps, N), \A n \in 0..N : IsImport(r[n]),
           NEW from \in 0..N, AsNear(r[from], s[from], feed)
    PROVE  AsNear(r[N], s[N], feed)
<1> DEFINE T == {n \in 0..N : n >= from => AsNear(r[n], s[n], feed)}
<1>1. 0 \in T
  <2>1. 0 >= from => from = 0
    OBVIOUS
  <2> QED
    BY <2>1
<1>2. ASSUME NEW n \in 1..N, n - 1 \in T
      PROVE  n \in T
  <2>1. CASE n - 1 >= from
    <3>1. PICK a, b, step, m, k : a = r[n - 1] /\ b = s[n - 1] /\ step = steps[n] /\ m = r[n] /\ k = s[n]
      OBVIOUS
    <3>2. n - 1 \in 0..N /\ IsImport(a) /\ IsImport(b) /\ step[1] \in GtfsFiles /\ AsNear(a, b, feed)
      BY <1>2, <2>1, <3>1
    <3>3. m = ImportRow(a, step) /\ k = ImportRow(b, step)
      BY <3>1 DEF Imports
    <3>4. CASE a = b
      <4>1. AsNear(m, k, feed)
        BY <3>3, <3>4 DEF AsNear
      <4> QED
        BY <3>1, <4>1
    <3>5. CASE a # b
      <4>1. PICK row \in Range(feed.stops) : Nearly(a, b, row.code)
        BY <3>2, <3>5 DEF AsNear
      <4>2. Nearly(m, k, row.code)
        BY <3>2, <3>3, <4>1, RowNearly
      <4>3. AsNear(m, k, feed)
        BY <4>2 DEF AsNear
      <4> QED
        BY <3>1, <4>3
    <3> QED
      BY <3>4, <3>5
  <2>2. CASE ~(n - 1 >= from)
    <3>1. n >= from => n = from
      BY <2>2
    <3> QED
      BY <3>1
  <2> QED
    BY <2>1, <2>2
<1> HIDE DEF T
<1>3. \A n \in 0..N : n \in T
  BY <1>1, <1>2, UpTo
<1>4. N \in 0..N
  OBVIOUS
<1> QED
  BY <1>3, <1>4 DEF T

(* What the property says of the two canons.                               *)
OneStopOff(resumed, whole, feed) ==
    \/ resumed = whole
    \/ resumed = [whole EXCEPT !.strays = @ + 1]
    \/ \E row \in Range(feed.stops), mark \in {"primary", "name"} :
          resumed = [whole EXCEPT !.terminals = @ \ {<<row.code, mark>>}]

LEMMA CanonsAreNear ==
    ASSUME NEW feed, NEW r, IsImport(r), NEW s, IsImport(s), AsNear(r, s, feed)
    PROVE  OneStopOff(r.canon, s.canon, feed)
<1>1. PICK a, b : a = r.canon /\ b = s.canon
  OBVIOUS
<1>2. IsFun(a) /\ IsFun(b) /\ DOMAIN a = CanonFields /\ DOMAIN b = CanonFields
  BY <1>1 DEF IsImport, IsCanon
<1>3. CASE r = s
  BY <1>3 DEF OneStopOff
<1>4. CASE r # s
  <2>1. PICK row \in Range(feed.stops) : Nearly(r, s, row.code)
    BY <1>4 DEF AsNear
  <2>2. \A f \in CanonFields \ {"terminals", "strays"} : a[f] = b[f]
    BY <1>1, <2>1 DEF Nearly, SameElse
  <2>3. CASE a.terminals = b.terminals /\ a.strays = b.strays + 1
    <3>1. PICK e : e = [b EXCEPT !["strays"] = b["strays"] + 1]
      OBVIOUS
    <3>2. IsFun(e) /\ DOMAIN e = CanonFields /\ \A f \in CanonFields : e[f] = a[f]
      BY <1>2, <2>2, <2>3, <3>1 DEF IsFun, CanonFields
    <3>3. a = e
      BY <1>2, <3>2 DEF IsFun
    <3> QED
      BY <1>1, <3>1, <3>3 DEF OneStopOff
  <2>4. CASE a.strays = b.strays /\ a.terminals = b.terminals
    <3>1. \A f \in CanonFields : a[f] = b[f]
      BY <2>2, <2>4
    <3>2. a = b
      BY <1>2, <3>1 DEF IsFun
    <3> QED
      BY <1>1, <3>2 DEF OneStopOff
  <2>5. CASE a.strays = b.strays
             /\ \E mark \in {"primary", "name"} : a.terminals = b.terminals \ {<<row.code, mark>>}
    <3>1. PICK mark \in {"primary", "name"} : a.terminals = b.terminals \ {<<row.code, mark>>}
      BY <2>5
    <3>2. PICK e : e = [b EXCEPT !["terminals"] = b["terminals"] \ {<<row.code, mark>>}]
      OBVIOUS
    <3>3. IsFun(e) /\ DOMAIN e = CanonFields /\ \A f \in CanonFields : e[f] = a[f]
      BY <1>2, <2>2, <2>5, <3>1, <3>2 DEF IsFun, CanonFields
    <3>4. a = e
      BY <1>2, <3>3 DEF IsFun
    <3> QED
      BY <1>1, <3>2, <3>4 DEF OneStopOff
  <2> QED
    BY <1>1, <2>1, <2>3, <2>4, <2>5 DEF Nearly, Off
<1> QED
  BY <1>3, <1>4

(* The import that died: whole rows up to the cut, and a part of the next. *)
TornAt(torn, upto, steps, cut, part) ==
    torn = IF cut = Len(steps) THEN upto ELSE Torn(upto, steps[cut + 1], part)

LEMMA ImportAgain ==
    ASSUME NEW feed, NEW before, IsCanon(before),
           NEW steps, AllSteps(steps), StepsOf(steps, feed, GtfsFiles),
           NEW N \in Nat, Len(steps) = N,
           NEW cut \in 0..N, NEW rows, Begins(rows, steps, cut), NEW part \in 0..8,
           NEW torn, TornAt(torn, ImportGtfsFeed(before, rows), steps, cut, part)
    PROVE  OneStopOff(ImportGtfsFeed(torn, steps), ImportGtfsFeed(before, steps), feed)
<1>0. /\ DOMAIN steps = 1..N /\ cut \in Nat
      /\ \A n \in 1..N : steps[n][1] \in GtfsFiles
      /\ \A n \in 0..cut : n \in 0..N
      /\ \A n \in 1..cut : n \in 1..N /\ n - 1 \in 0..N /\ n - 1 \in 0..cut /\ n - 1 < cut
  BY DEF AllSteps
<1>a. Len(rows) = cut /\ \A n \in 1..cut : rows[n] = steps[n]
  BY DEF Begins
<1>1. PICK s : Imports(s, before, steps, N) /\ ImportGtfsFeed(before, steps) = s[N].canon
  BY ImportedRowByRow
<1>2. PICK p : Imports(p, before, rows, cut) /\ ImportGtfsFeed(before, rows) = p[cut].canon
  BY <1>0, <1>a, ImportedRowByRow
<1>3. p[cut] = s[cut]
  <2> DEFINE T == {n \in 0..cut : p[n] = s[n]}
  <2>1. 0 \in T
    BY <1>0, <1>1, <1>2 DEF Imports
  <2>2. \A n \in 1..cut : n - 1 \in T => n \in T
    BY <1>0, <1>a, <1>1, <1>2 DEF Imports
  <2> HIDE DEF T
  <2>3. \A n \in 0..cut : n \in T
    BY <1>0, <2>1, <2>2, UpTo
  <2>4. cut \in 0..cut
    BY <1>0
  <2> QED
    BY <2>3, <2>4 DEF T
<1>4. \A n \in 0..N : IsImport(s[n])
  BY <1>0, <1>1, ImportsAre
<1>5. PICK upto : upto = s[cut].canon /\ IsCanon(upto) /\ TornAt(torn, upto, steps, cut, part)
  BY <1>0, <1>2, <1>3, <1>4 DEF IsImport
<1>6. PICK r : Imports(r, torn, steps, N) /\ ImportGtfsFeed(torn, steps) = r[N].canon
  BY ImportedRowByRow
<1>7. ASSUME IsCanon(torn), Overtakes(steps, s, cut, torn),
             IsImport(r[cut]) => \E from \in 0..N : AsNear(r[from], s[from], feed)
      PROVE  OneStopOff(r[N].canon, s[N].canon, feed)
  <2>1. \A n \in 0..N : IsImport(r[n])
    BY <1>0, <1>6, <1>7, ImportsAre
  <2>2. PICK from \in 0..N : AsNear(r[from], s[from], feed)
    BY <1>7, <2>1
  <2>3. AsNear(r[N], s[N], feed)
    BY <1>0, <1>1, <1>4, <1>6, <2>1, <2>2, NearToTheEnd
  <2>4. IsImport(r[N]) /\ IsImport(s[N])
    BY <1>4, <2>1
  <2> QED
    BY <2>3, <2>4, CanonsAreNear
<1>8. CASE cut = N
  <2>1. torn = s[cut].canon /\ IsCanon(torn)
    BY <1>5, <1>8 DEF TornAt
  <2>2. Overtakes(steps, s, cut, torn)
    BY <2>1 DEF Overtakes, Grows
  <2>3. Replays(r[cut], s[cut], torn)
    BY <1>1, <1>6, <2>1, <2>2, Replayed
  <2>4. ASSUME IsImport(r[cut])
        PROVE  AsNear(r[cut], s[cut], feed)
    <3>1. PICK a, b : a = r[cut] /\ b = s[cut]
      OBVIOUS
    <3>2. IsImport(a) /\ IsImport(b) /\ Replays(a, b, b.canon)
      BY <1>4, <2>1, <2>3, <2>4, <3>1
    <3>3. a = b
      BY <3>2, ReplayedIsIt
    <3> QED
      BY <3>1, <3>3 DEF AsNear
  <2> QED
    BY <1>1, <1>6, <1>7, <2>1, <2>2, <2>4
<1>9. CASE cut # N
  <2>0. cut + 1 \in 1..N /\ cut + 1 \in 0..N /\ cut = (cut + 1) - 1
    BY <1>0, <1>9
  <2>1. PICK step : step = steps[cut + 1] /\ step[1] \in GtfsFiles
    BY <1>0, <2>0
  <2>2. torn = Torn(upto, step, part)
    BY <1>5, <1>9, <2>1 DEF TornAt
  <2>3. /\ IsCanon(torn) /\ Grows(upto, torn)
        /\ Late(step) \/ upto.dead => torn = upto
    BY <1>5, <2>2, TornGrows
  <2>4. Overtakes(steps, s, cut, torn)
    <3>1. ASSUME NEW n \in 1..cut, Late(steps[n])
          PROVE  Late(step)
      <4>1. n \in DOMAIN steps /\ cut + 1 \in DOMAIN steps /\ n < cut + 1
        BY <1>0, <2>0
      <4> QED
        BY <2>1, <3>1, <4>1 DEF AllSteps
    <3> QED
      BY <1>5, <2>3, <3>1 DEF Overtakes
  <2>5. Replays(r[cut], s[cut], torn)
    BY <1>1, <1>6, <2>3, <2>4, Replayed
  <2>6. ASSUME IsImport(r[cut])
        PROVE  AsNear(r[cut + 1], s[cut + 1], feed)
    <3>1. PICK a, b, m, n : a = r[cut] /\ b = s[cut] /\ m = r[cut + 1] /\ n = s[cut + 1]
      OBVIOUS
    <3>2. IsImport(a) /\ IsImport(b) /\ Replays(a, b, torn) /\ torn = Torn(b.canon, step, part)
      BY <1>4, <1>5, <2>2, <2>5, <2>6, <3>1
    <3>3. m = ImportRow(a, step) /\ n = ImportRow(b, step)
      BY <1>1, <1>6, <2>0, <2>1, <3>1 DEF Imports
    <3>4. Ends(m, n, step)
      BY <2>1, <3>2, <3>3, RowEnds
    <3>5. step[1] = "stops" => step[2] \in Range(feed.stops)
      <4>1. IsRowOf(feed, step)
        BY <1>0, <2>0, <2>1 DEF StepsOf
      <4> QED
        BY <4>1 DEF IsRowOf, Range
    <3>6. AsNear(m, n, feed)
      BY <3>4, <3>5 DEF Ends, AsNear
    <3> QED
      BY <3>1, <3>6
  <2> QED
    BY <1>1, <1>6, <1>7, <2>0, <2>3, <2>4, <2>6
<1> QED
  BY <1>8, <1>9

LEMMA MinIs == \A a, b \in Nat : Min({a, b}) \in 0..b
<1> SUFFICES ASSUME NEW a \in Nat, NEW b \in Nat
             PROVE  Min({a, b}) \in 0..b
  OBVIOUS
<1>1. \E x \in {a, b} : \A y \in {a, b} : x =< y
  OBVIOUS
<1>2. Min({a, b}) \in {a, b} /\ Min({a, b}) =< b
  BY <1>1 DEF Min
<1> QED
  BY <1>2

LEMMA ImportQuestion ==
    ASSUME Questioned, topic = "import"
    PROVE  question.cut \in Nat /\ question.part \in 0..8 /\ IsFeed(question.feed) /\ IsFeed(question.before)
  BY GtfsFeedAssumption DEF Questioned, IsFeed

LEMMA ResumedAsWhole ==
    ASSUME NEW feed, IsFeed(feed), NEW old, IsFeed(old), NEW cut \in Nat, NEW part \in 0..8,
           NEW steps, steps = Steps(feed), NEW before, before = ImportGtfsFeed(EmptyCanon, Steps(old)),
           NEW torn, TornAt(torn, ImportGtfsFeed(before, SubSeq(steps, 1, Min({cut, Len(steps)}))),
                            steps, Min({cut, Len(steps)}), part)
    PROVE  OneStopOff(ImportGtfsFeed(torn, steps), ImportGtfsFeed(before, steps), feed)
<1>1. AllSteps(steps) /\ StepsOf(steps, feed, GtfsFiles)
  BY StepsInOrder, StepsAreOf
<1>2. PICK N \in Nat : Len(steps) = N
  BY <1>1 DEF AllSteps
<1>3. IsCanon(before)
  <2>1. PICK ones : ones = Steps(old)
    OBVIOUS
  <2>2. AllSteps(ones)
    BY <2>1, StepsInOrder
  <2>3. PICK M \in Nat : Len(ones) = M /\ \A n \in 1..M : ones[n][1] \in GtfsFiles
    BY <2>2 DEF AllSteps
  <2>4. IsCanon(ImportGtfsFeed(EmptyCanon, ones))
    BY <2>3, EmptyIs, ImportIsCanon
  <2> QED
    BY <2>1, <2>4
<1>4. PICK c \in 0..N : c = Min({cut, Len(steps)})
  BY <1>2, MinIs
<1>5. PICK rows : rows = SubSeq(steps, 1, c) /\ Begins(rows, steps, c)
  <2>1. PICK V : steps \in Seq(V)
    BY <1>1 DEF AllSteps
  <2>2. c \in Nat /\ c <= Len(steps) /\ Len(steps) \in Nat
    BY <1>2
  <2>3. PICK rows : rows = SubSeq(steps, 1, c)
    OBVIOUS
  <2>4. Len(rows) = c
    BY <2>1, <2>2, <2>3
  <2>5. \A n \in 1..c : rows[n] = steps[n]
    BY <2>1, <2>2, <2>3
  <2> QED
    BY <2>3, <2>4, <2>5 DEF Begins
<1>6. TornAt(torn, ImportGtfsFeed(before, rows), steps, c, part)
  BY <1>4, <1>5
<1> QED
  BY <1>1, <1>2, <1>3, <1>5, <1>6, ImportAgain

(***************************************************************************)
(* However long a feed is, whatever the canon held and between whatever    *)
(* two statements the import of it died: imported again, it leaves the     *)
(* same canon as if it had not died (gtfs_import.go:54), but for one stop: *)
(* a terminal without a code, a code that is not primary or a stop without *)
(* a name (store.go:298).                                                  *)
(***************************************************************************)
THEOREM ImportsConverge == AlgorithmsSpec => []ImportConverges
<1>1. ImportConverges <=> (Replied("import") => OneStopOff(Told.resumed, Told.whole, question.feed))
  BY DEF ImportConverges, OneStopOff
<1>2. ImportConverges' <=> (Replied("import")' => OneStopOff(Told'.resumed, Told'.whole, question'.feed))
  BY DEF ImportConverges, OneStopOff
<1>3. PlanInit => Questioned /\ ImportConverges
  BY QuestionedInit, <1>1 DEF Replied
<1>4. Questioned /\ ImportConverges /\ [AlgorithmsNext]_planVars => ImportConverges'
  <2> SUFFICES ASSUME Questioned, ImportConverges, [AlgorithmsNext]_planVars, Replied("import")'
               PROVE  OneStopOff(Told'.resumed, Told'.whole, question'.feed)
    BY <1>2
  <2>0. topic = "import" /\ question' = question
    BY Stays DEF Replied
  <2>1. CASE answer' = answer
    <3>1. Told' = Told /\ Replied("import")
      BY <2>1, Stays DEF Replied, Told
    <3> QED
      BY <1>1, <2>0, <3>1
  <2>2. CASE Import
    <3>1. PICK feed, steps, cut, before, upto, torn :
            /\ feed = question.feed /\ steps = Steps(feed) /\ cut = Min({question.cut, Len(steps)})
            /\ before = ImportGtfsFeed(EmptyCanon, Steps(question.before))
            /\ upto = ImportGtfsFeed(before, SubSeq(steps, 1, cut))
            /\ torn = IF cut = Len(steps) THEN upto ELSE Torn(upto, steps[cut + 1], question.part)
      OBVIOUS
    <3>2. PICK told : told = [whole |-> ImportGtfsFeed(before, steps),
                              resumed |-> ImportGtfsFeed(torn, steps)]
      OBVIOUS
    <3>3. Told' = told
      BY <2>2, <3>1, <3>2, ToldIs DEF Import
    <3>4. TornAt(torn, ImportGtfsFeed(before, SubSeq(steps, 1, Min({question.cut, Len(steps)}))),
                 steps, Min({question.cut, Len(steps)}), question.part)
      BY <3>1 DEF TornAt
    <3>5. OneStopOff(ImportGtfsFeed(torn, steps), ImportGtfsFeed(before, steps), feed)
      BY <2>0, <3>1, <3>4, ImportQuestion, ResumedAsWhole
    <3>6. OneStopOff(told.resumed, told.whole, feed)
      BY <3>2, <3>5
    <3> QED
      BY <2>0, <3>1, <3>3, <3>6
  <2> QED
    BY <2>0, <2>1, <2>2, Answering
<1> QED
  BY <1>3, <1>4, QuestionedStays, PTL DEF AlgorithmsSpec

-----------------------------------------------------------------------------
(***************************************************************************)
(* Records of one station (SkeletonJoin).  The forest keeps every tree     *)
(* within one chain, and no pair that is near is left in two trees: so the *)
(* trees are the chains.                                                   *)
(***************************************************************************)
LEMMA JoinScale ==
    /\ JoinCell \in Nat \ {0} /\ CollapseWithin \in Nat /\ GeoThreshold \in Nat
    /\ JoinThreshold \in 0..10000 /\ JoinMargin \in Nat /\ JoinAmbiguity \in Nat
    /\ 4 * GeoThreshold <= JoinCell /\ JoinAmbiguity <= JoinThreshold - JoinMargin
<1>1. GeoThreshold \in Nat
  BY StopMatchAssumption
<1> QED
  BY <1>1, JoinScaleAssumption

(* In a forest no record hangs on a later one.                             *)
IsForest(p, W) == p \in [W -> W] /\ \A y \in W : p[y] <= y

LEMMA RootIs ==
    ASSUME NEW N \in Nat, NEW W \in SUBSET (1..N), NEW p, IsForest(p, W)
    PROVE  \A y \in W : Root(p, y) = IF p[y] = y THEN y ELSE Root(p, p[y])
<1> DEFINE Upto(n) == {y \in W : y <= n}
           Fits(f, n) == /\ f \in [Upto(n) -> W]
                         /\ \A y \in Upto(n) : f[y] = IF p[y] = y THEN y ELSE f[p[y]]
           T == {n \in 0..N : \E f : Fits(f, n)}
<1>1. p \in [W -> W] /\ \A y \in W : p[y] \in W /\ p[y] <= y /\ y \in 1..N /\ p[y] \in 1..N
  BY DEF IsForest
<1>2. 0 \in T
  <2>1. Upto(0) = {}
    <3>1. \A y \in W : ~(y <= 0)
      OBVIOUS
    <3> QED
      BY <3>1
  <2>2. Fits([y \in Upto(0) |-> y], 0)
    BY <2>1
  <2> HIDE DEF Fits
  <2>3. \E f : Fits(f, 0)
    BY <2>2
  <2> QED
    BY <2>3
<1>3. ASSUME NEW n \in 1..N, n - 1 \in T
      PROVE  n \in T
  <2>1. PICK f : Fits(f, n - 1)
    BY <1>3
  <2> DEFINE g == [y \in Upto(n) |-> IF y \in Upto(n - 1) THEN f[y]
                                     ELSE IF p[y] = y THEN y ELSE f[p[y]]]
  <2>2. ASSUME NEW y \in Upto(n)
        PROVE  /\ g[y] \in W
               /\ g[y] = IF p[y] = y THEN y ELSE g[p[y]]
    <3>1. y \in W /\ p[y] \in W /\ p[y] <= y /\ y \in Nat /\ p[y] \in Nat
      BY <1>1
    <3>2. p[y] # y => p[y] \in Upto(n - 1) /\ p[y] \in Upto(n)
      BY <3>1
    <3>3. CASE y \in Upto(n - 1)
      <4>1. g[y] = f[y] /\ f[y] \in W
        BY <2>1, <3>3
      <4>2. p[y] # y => g[p[y]] = f[p[y]]
        <5> HIDE DEF Upto
        <5> QED
          BY <3>2
      <4>3. f[y] = IF p[y] = y THEN y ELSE f[p[y]]
        BY <2>1, <3>3
      <4> QED
        BY <4>1, <4>2, <4>3
    <3>4. CASE y \notin Upto(n - 1)
      <4>1. g[y] = IF p[y] = y THEN y ELSE f[p[y]]
        BY <3>4
      <4>2. p[y] # y => g[p[y]] = f[p[y]] /\ f[p[y]] \in W
        <5> HIDE DEF Upto
        <5> QED
          BY <2>1, <3>2
      <4> QED
        BY <3>1, <4>1, <4>2
    <3> QED
      BY <3>3, <3>4
  <2> HIDE DEF Upto
  <2>3. g \in [Upto(n) -> W]
    <3>1. DOMAIN g = Upto(n) /\ \A y \in Upto(n) : g[y] \in W
      BY <2>2
    <3> QED
      BY <3>1
  <2>4. \A y \in Upto(n) : g[y] = IF p[y] = y THEN y ELSE g[p[y]]
    BY <2>2
  <2> HIDE DEF g
  <2>5. Fits(g, n)
    BY <2>3, <2>4
  <2> QED
    BY <2>5
<1> HIDE DEF T
<1>4. \A n \in 0..N : n \in T
  BY <1>2, <1>3, UpTo
<1>5. Upto(N) = W
  <2>1. \A y \in W : y \in Nat /\ y <= N
    OBVIOUS
  <2> QED
    BY <2>1
<1>6. PICK f : f \in [W -> W] /\ \A y \in W : f[y] = IF p[y] = y THEN y ELSE f[p[y]]
  <2>1. N \in T
    BY <1>4
  <2>2. PICK f : Fits(f, N)
    BY <2>1 DEF T
  <2> QED
    BY <1>5, <2>2
<1>7. f = [y \in W |-> IF p[y] = y THEN y ELSE f[p[y]]]
  BY <1>6
<1> DEFINE up[y \in DOMAIN p] == IF p[y] = y THEN y ELSE up[p[y]]
<1>8. up = [y \in W |-> IF p[y] = y THEN y ELSE up[p[y]]]
  <2>1. DOMAIN p = W
    BY <1>1
  <2> QED
    BY <1>7, <2>1 DEF up
<1>9. \A y : Root(p, y) = up[y]
  BY DEF Root
<1> HIDE DEF up
<1>10. \A y \in W : up[y] = IF p[y] = y THEN y ELSE up[p[y]]
  BY <1>8
<1> QED
  BY <1>9, <1>10

(* The root of a record is the root of its tree.                           *)
LEMMA RootIn ==
    ASSUME NEW N \in Nat, NEW W \in SUBSET (1..N), NEW p, IsForest(p, W)
    PROVE  \A x \in W : Root(p, x) \in W /\ p[Root(p, x)] = Root(p, x)
<1> DEFINE Good(x) == Root(p, x) \in W /\ p[Root(p, x)] = Root(p, x)
           T == {n \in 0..N : \A x \in W : x <= n => Good(x)}
<1>1. \A y \in W : p[y] \in W /\ p[y] <= y /\ y \in 1..N /\ p[y] \in 1..N
  BY DEF IsForest
<1>2. 0 \in T
  BY <1>1
<1>3. ASSUME NEW n \in 1..N, n - 1 \in T
      PROVE  n \in T
  <2>1. ASSUME NEW x \in W, x <= n
        PROVE  Good(x)
    <3>1. Root(p, x) = IF p[x] = x THEN x ELSE Root(p, p[x])
      BY RootIs
    <3>2. CASE p[x] = x
      BY <3>1, <3>2
    <3>3. CASE p[x] # x
      <4>1. p[x] \in W /\ p[x] <= n - 1
        BY <1>1, <2>1, <3>3
      <4>2. Good(p[x])
        BY <1>3, <4>1
      <4> QED
        BY <3>1, <3>3, <4>2
    <3> QED
      BY <3>2, <3>3
  <2> HIDE DEF Good
  <2> QED
    BY <2>1
<1> HIDE DEF T, Good
<1>4. \A n \in 0..N : n \in T
  BY <1>2, <1>3, UpTo
<1>5. N \in T
  BY <1>4
<1>6. \A x \in W : Good(x)
  BY <1>1, <1>5 DEF T
<1> QED
  BY <1>6 DEF Good

LEMMA MinLeast ==
    ASSUME NEW T \in SUBSET Nat, T # {}
    PROVE  Min(T) \in T /\ \A k \in T : Min(T) <= k
<1>1. \E n \in T : \A m \in T : n <= m
  BY LeastOf
<1> QED
  BY <1>1 DEF Min

LEMMA TwoNumbers ==
    ASSUME NEW N \in Nat, NEW a \in 1..N, NEW b \in 1..N, a # b
    PROVE  Min({a, b}) < Max({a, b}) /\ {Min({a, b}), Max({a, b})} = {a, b}
<1>1. {a, b} \in SUBSET Nat /\ {a, b} \in SUBSET (1..N) /\ {a, b} # {}
  OBVIOUS
<1>2. PICK s : s = {a, b}
  OBVIOUS
<1>3. Min(s) \in s /\ \A k \in s : Min(s) <= k
  BY <1>1, <1>2, MinLeast
<1>4. Max(s) \in s /\ \A k \in s : k <= Max(s)
  BY <1>1, <1>2, MaxIn
<1> QED
  BY <1>2, <1>3, <1>4

(* Two trees made one: the greater root is the lesser one's.               *)
UniteEffect(p, q, W, i, j) ==
    /\ IsForest(q, W)
    /\ \E low \in W, high \in W :
        /\ {low, high} = {Root(p, i), Root(p, j)}
        /\ \A x \in W : Root(q, x) = IF Root(p, x) = high THEN low ELSE Root(p, x)

LEMMA UniteIs ==
    ASSUME NEW N \in Nat, NEW W \in SUBSET (1..N), NEW p, IsForest(p, W), NEW i \in W, NEW j \in W,
           Root(p, i) # Root(p, j), NEW q, q = Unite(p, i, j)
    PROVE  UniteEffect(p, q, W, i, j)
<1>1. PICK a, b : a = Root(p, i) /\ b = Root(p, j)
  OBVIOUS
<1>2. a \in W /\ b \in W /\ p[a] = a /\ p[b] = b /\ a # b
  BY <1>1, RootIn
<1>3. PICK low, high : low = Min({a, b}) /\ high = Max({a, b})
  OBVIOUS
<1>4. low < high /\ {low, high} = {a, b}
  <2>1. a \in 1..N /\ b \in 1..N
    BY <1>2
  <2> QED
    BY <1>2, <1>3, <2>1, TwoNumbers
<1>5. low \in W /\ high \in W /\ p[low] = low /\ p[high] = high
  BY <1>2, <1>4
<1>6. q = [p EXCEPT ![high] = low]
  BY <1>1, <1>3 DEF Unite
<1>7. p \in [W -> W] /\ \A y \in W : p[y] \in W /\ p[y] <= y /\ y \in 1..N /\ p[y] \in 1..N
  BY DEF IsForest
<1>8. q[high] = low /\ \A y \in W : y # high => q[y] = p[y]
  BY <1>5, <1>6, <1>7
<1>9. IsForest(q, W)
  <2>1. q \in [W -> W]
    BY <1>5, <1>6, <1>7
  <2>2. \A y \in W : q[y] <= y
    BY <1>4, <1>5, <1>7, <1>8
  <2> QED
    BY <2>1, <2>2 DEF IsForest
<1> DEFINE Good(x) == Root(q, x) = IF Root(p, x) = high THEN low ELSE Root(p, x)
           T == {n \in 0..N : \A x \in W : x <= n => Good(x)}
<1>10. 0 \in T
  BY <1>7
<1>11. ASSUME NEW n \in 1..N, n - 1 \in T
       PROVE  n \in T
  <2>1. ASSUME NEW x \in W, x <= n
        PROVE  Good(x)
    <3>1. Root(p, x) = IF p[x] = x THEN x ELSE Root(p, p[x])
      BY RootIs
    <3>2. Root(q, x) = IF q[x] = x THEN x ELSE Root(q, q[x])
      BY <1>9, RootIs
    <3>3. CASE x = high
      <4>1. Root(p, x) = high
        BY <1>5, <3>1, <3>3
      <4>2. Root(q, low) = low
        <5>1. q[low] = low
          BY <1>4, <1>5, <1>7, <1>8
        <5>2. Root(q, low) = IF q[low] = low THEN low ELSE Root(q, q[low])
          BY <1>5, <1>9, RootIs
        <5> QED
          BY <5>1, <5>2
      <4>3. q[x] = low /\ q[x] # x
        BY <1>4, <1>5, <1>7, <1>8, <3>3
      <4> QED
        BY <3>2, <4>1, <4>2, <4>3
    <3>4. CASE x # high /\ p[x] = x
      <4>1. Root(p, x) = x
        BY <3>1, <3>4
      <4>2. q[x] = x
        BY <1>8, <3>4
      <4> QED
        BY <3>2, <3>4, <4>1, <4>2
    <3>5. CASE x # high /\ p[x] # x
      <4>1. p[x] \in W /\ p[x] <= n - 1 /\ q[x] = p[x]
        BY <1>7, <1>8, <2>1, <3>5
      <4>2. Good(p[x])
        BY <1>11, <4>1
      <4> HIDE DEF T
      <4> QED
        BY <3>1, <3>2, <3>5, <4>1, <4>2
    <3> QED
      BY <3>3, <3>4, <3>5
  <2> HIDE DEF Good
  <2> QED
    BY <2>1
<1> HIDE DEF T, Good
<1>12. \A n \in 0..N : n \in T
  BY <1>10, <1>11, UpTo
<1>13. N \in T
  BY <1>12
<1>14. \A x \in W : Good(x)
  BY <1>7, <1>13 DEF T
<1> QED
  BY <1>1, <1>4, <1>5, <1>9, <1>14 DEF UniteEffect, Good

(* What is hung together is near, through one record after another: it is  *)
(* in the same sets that have all that is near their members.              *)
OneTree(p, x, y) == Root(p, x) = Root(p, y)
Together(records, j, k) == Apart(records[j], records[k]) <= CollapseWithin
Mutual(records, W) == \A j, k \in W : Together(records, j, k) => Together(records, k, j)

ClosedIn(records, W, set) == \A j, k \in W : j \in set /\ Together(records, j, k) => k \in set

NotBeyond(records, p, W) ==
    \A set \in SUBSET W : ClosedIn(records, W, set) =>
        \A x, y \in W : OneTree(p, x, y) /\ x \in set => y \in set

KeptIn(records, p, W) == IsForest(p, W) /\ NotBeyond(records, p, W)

(* Trees only grow together, and those of a near pair do when it is met.   *)
TreesGrow(p, q, W) == \A x, y \in W : OneTree(p, x, y) => OneTree(q, x, y)
MetIn(records, q, W, i, j) == i \in W /\ j \in W /\ i < j /\ Together(records, i, j) => OneTree(q, i, j)
HungEffect(records, p, q, W, i, j) == KeptIn(records, q, W) /\ TreesGrow(p, q, W) /\ MetIn(records, q, W, i, j)

LEMMA GrowsOn ==
    ASSUME NEW records, NEW p, NEW q, NEW W, TreesGrow(p, q, W)
    PROVE  /\ \A i, j : MetIn(records, p, W, i, j) => MetIn(records, q, W, i, j)
           /\ \A o : TreesGrow(o, p, W) => TreesGrow(o, q, W)
  BY DEF TreesGrow, MetIn

LEMMA HungIs ==
    ASSUME NEW N \in Nat, NEW W \in SUBSET (1..N), NEW records, Mutual(records, W),
           NEW p, KeptIn(records, p, W), NEW i, NEW j, NEW q, q = Hung(records, p, i, j)
    PROVE  HungEffect(records, p, q, W, i, j)
<1>1. IsForest(p, W) /\ DOMAIN p = W
  BY DEF KeptIn, IsForest
<1>2. CASE i < j /\ i \in W /\ j \in W /\ Together(records, i, j) /\ Root(p, i) # Root(p, j)
  <2>1. q = Unite(p, i, j)
    BY <1>1, <1>2 DEF Hung, Together
  <2>2. UniteEffect(p, q, W, i, j)
    BY <1>1, <1>2, <2>1, UniteIs
  <2>3. PICK low \in W, high \in W :
          /\ {low, high} = {Root(p, i), Root(p, j)}
          /\ \A x \in W : Root(q, x) = IF Root(p, x) = high THEN low ELSE Root(p, x)
    BY <2>2 DEF UniteEffect
  <2>4. IsForest(q, W)
    BY <2>2 DEF UniteEffect
  <2>5. TreesGrow(p, q, W)
    BY <2>3 DEF TreesGrow, OneTree
  <2>6. OneTree(q, i, j)
    BY <1>2, <2>3 DEF OneTree
  <2>7. ASSUME NEW set \in SUBSET W, ClosedIn(records, W, set),
               NEW x \in W, NEW y \in W, OneTree(q, x, y), x \in set
        PROVE  y \in set
    <3>1. \A a, b \in W : OneTree(p, a, b) /\ a \in set => b \in set
      BY <2>7 DEF KeptIn, NotBeyond
    <3>2. Together(records, j, i)
      BY <1>2 DEF Mutual
    <3>3. i \in set <=> j \in set
      BY <1>2, <2>7, <3>2 DEF ClosedIn
    <3>4. \/ OneTree(p, x, y)
          \/ OneTree(p, x, i) /\ OneTree(p, j, y)
          \/ OneTree(p, x, j) /\ OneTree(p, i, y)
      <4>1. Root(q, x) = Root(q, y)
        BY <2>7 DEF OneTree
      <4>2. Root(q, x) = (IF Root(p, x) = high THEN low ELSE Root(p, x))
            /\ Root(q, y) = (IF Root(p, y) = high THEN low ELSE Root(p, y))
        BY <2>3
      <4>3. \/ Root(p, x) = Root(p, y)
            \/ Root(p, x) = high /\ Root(p, y) = low
            \/ Root(p, x) = low /\ Root(p, y) = high
        BY <4>1, <4>2
      <4>4. \/ low = Root(p, i) /\ high = Root(p, j)
            \/ low = Root(p, j) /\ high = Root(p, i)
        BY <1>2, <2>3
      <4> QED
        BY <4>3, <4>4 DEF OneTree
    <3> QED
      BY <1>2, <2>7, <3>1, <3>3, <3>4
  <2>8. NotBeyond(records, q, W)
    BY <2>7 DEF NotBeyond
  <2> QED
    BY <2>4, <2>5, <2>6, <2>8 DEF HungEffect, KeptIn, MetIn
<1>3. CASE ~(i < j /\ i \in W /\ j \in W /\ Together(records, i, j) /\ Root(p, i) # Root(p, j))
  <2>1. q = p
    BY <1>1, <1>3 DEF Hung, Together
  <2>2. TreesGrow(p, p, W)
    BY DEF TreesGrow
  <2>3. MetIn(records, p, W, i, j)
    BY <1>3 DEF MetIn, OneTree
  <2> QED
    BY <2>1, <2>2, <2>3 DEF HungEffect
<1> QED
  BY <1>2, <1>3

(* The pairs of one record.                                                *)
HungFromEffect(records, N, p, q, W, i) ==
    KeptIn(records, q, W) /\ TreesGrow(p, q, W) /\ \A j \in 1..N : MetIn(records, q, W, i, j)

LEMMA HungFromIs ==
    ASSUME NEW N \in Nat, NEW W \in SUBSET (1..N), NEW records, Len(records) = N, Mutual(records, W),
           NEW p, KeptIn(records, p, W), NEW i, NEW q, q = HungFrom(records, p, i)
    PROVE  HungFromEffect(records, N, p, q, W, i)
<1> DEFINE Body(n, v) == Hung(records, v, i, n)
           V == {v \in [W -> W] : KeptIn(records, v, W)}
           step == [o \in (1..N) \X V |-> Body(o[1], o[2])]
<1>0. ASSUME NEW n \in 1..N, NEW v \in V
      PROVE  Body(n, v) \in V /\ HungEffect(records, v, Body(n, v), W, i, n)
  <2>1. PICK b : b = Body(n, v)
    OBVIOUS
  <2>2. HungEffect(records, v, b, W, i, n)
    BY <2>1, HungIs
  <2>3. b \in V
    BY <2>2 DEF HungEffect, KeptIn, IsForest
  <2> QED
    BY <2>1, <2>2, <2>3
<1>a. p \in V
  BY DEF KeptIn, IsForest
<1>1. PICK g \in [0..N -> V] : g[0] = p /\ \A n \in 1..N : g[n] = Body(n, g[n - 1])
  <2>1. step \in [(1..N) \X V -> V]
    <3> HIDE DEF Body, V
    <3> QED
      BY <1>0
  <2>2. \A n \in 1..N, v \in V : step[<<n, v>>] = Body(n, v)
    OBVIOUS
  <2> HIDE DEF step, Body, V
  <2>4. PICK g \in [0..N -> V] : g[0] = p /\ \A n \in 1..N : g[n] = step[<<n, g[n - 1]>>]
    <3>1. \E g \in [0..N -> V] : Recurs(g, N, p, step)
      BY <1>a, <2>1, Solvable
    <3> QED
      BY <3>1 DEF Recurs
  <2>5. ASSUME NEW n \in 1..N
        PROVE  g[n] = Body(n, g[n - 1])
    <3>1. n - 1 \in 0..N
      OBVIOUS
    <3>2. g[n - 1] \in V
      BY <3>1
    <3> QED
      BY <2>2, <2>4, <3>2
  <2> QED
    BY <2>4, <2>5
<1> HIDE DEF V, step
<1>2. g = [n \in 0..N |-> IF n = 0 THEN p ELSE Body(n, g[n - 1])]
  <2>1. \A n \in 0..N : n = 0 \/ n \in 1..N
    OBVIOUS
  <2> HIDE DEF Body
  <2> QED
    BY <1>1, <2>1
<1> DEFINE forest[n \in 0..N] == IF n = 0 THEN p ELSE Hung(records, forest[n - 1], i, n)
<1>3. forest = [n \in 0..N |-> IF n = 0 THEN p ELSE Body(n, forest[n - 1])]
  BY <1>2 DEF forest
<1>4. HungFrom(records, p, i) = forest[N]
  BY DEF HungFrom
<1> HIDE DEF forest, Body
<1>5. \A n \in 0..N : forest[n] = IF n = 0 THEN p ELSE Body(n, forest[n - 1])
  BY <1>3
<1> DEFINE Good(f, n) == f \in V /\ TreesGrow(p, f, W) /\ \A j \in 1..n : MetIn(records, f, W, i, j)
           T == {n \in 0..N : Good(forest[n], n)}
<1>6. 0 \in T
  <2>1. forest[0] = p
    BY <1>5
  <2>2. Good(p, 0)
    BY <1>a DEF TreesGrow
  <2> QED
    BY <2>1, <2>2
<1>7. ASSUME NEW n \in 1..N, n - 1 \in T
      PROVE  n \in T
  <2>1. PICK f, h : f = forest[n - 1] /\ h = forest[n]
    OBVIOUS
  <2>2. h = Body(n, f) /\ Good(f, n - 1)
    BY <1>5, <1>7, <2>1
  <2>3. h \in V /\ HungEffect(records, f, h, W, i, n)
    BY <1>0, <2>2
  <2>4. TreesGrow(f, h, W) /\ MetIn(records, h, W, i, n)
    BY <2>3 DEF HungEffect
  <2>5. TreesGrow(p, h, W) /\ \A j \in 1..(n - 1) : MetIn(records, h, W, i, j)
    BY <2>2, <2>4, GrowsOn
  <2>6. \A j \in 1..n : j \in 1..(n - 1) \/ j = n
    OBVIOUS
  <2>7. Good(h, n)
    BY <2>3, <2>4, <2>5, <2>6
  <2> QED
    BY <2>1, <2>7
<1> HIDE DEF T
<1>8. \A n \in 0..N : n \in T
  BY <1>6, <1>7, UpTo
<1>9. N \in 0..N
  OBVIOUS
<1> QED
  BY <1>4, <1>8, <1>9 DEF T, V, HungFromEffect

(* All pairs.                                                              *)
ForestEffect(records, N, q, W) ==
    KeptIn(records, q, W) /\ \A i, j \in 1..N : MetIn(records, q, W, i, j)

LEMMA NoneHung ==
    ASSUME NEW N \in Nat, NEW W \in SUBSET (1..N), NEW records, NEW p, p = [k \in W |-> k]
    PROVE  KeptIn(records, p, W)
<1>1. IsForest(p, W)
  BY DEF IsForest
<1>2. \A x \in W : Root(p, x) = x
  <2>1. \A x \in W : Root(p, x) = IF p[x] = x THEN x ELSE Root(p, p[x])
    BY <1>1, RootIs
  <2> QED
    BY <2>1
<1>3. NotBeyond(records, p, W)
  BY <1>2 DEF NotBeyond, OneTree
<1> QED
  BY <1>1, <1>3 DEF KeptIn

LEMMA ForestIs ==
    ASSUME NEW N \in Nat, NEW W \in SUBSET (1..N), NEW records, Len(records) = N, Mutual(records, W),
           NEW q, q = Forest(records, W)
    PROVE  ForestEffect(records, N, q, W)
<1> DEFINE Body(n, v) == HungFrom(records, v, n)
           V == {v \in [W -> W] : KeptIn(records, v, W)}
           step == [o \in (1..N) \X V |-> Body(o[1], o[2])]
           p == [k \in W |-> k]
<1>0. ASSUME NEW n \in 1..N, NEW v \in V
      PROVE  Body(n, v) \in V /\ HungFromEffect(records, N, v, Body(n, v), W, n)
  <2>1. PICK b : b = Body(n, v)
    OBVIOUS
  <2>2. HungFromEffect(records, N, v, b, W, n)
    BY <2>1, HungFromIs
  <2>3. b \in V
    BY <2>2 DEF HungFromEffect, KeptIn, IsForest
  <2> QED
    BY <2>1, <2>2, <2>3
<1>a. p \in V
  <2>1. KeptIn(records, p, W)
    BY NoneHung
  <2> QED
    BY <2>1
<1> HIDE DEF p
<1>1. PICK g \in [0..N -> V] : g[0] = p /\ \A n \in 1..N : g[n] = Body(n, g[n - 1])
  <2>1. step \in [(1..N) \X V -> V]
    <3> HIDE DEF Body, V
    <3> QED
      BY <1>0
  <2>2. \A n \in 1..N, v \in V : step[<<n, v>>] = Body(n, v)
    OBVIOUS
  <2> HIDE DEF step, Body, V
  <2>4. PICK g \in [0..N -> V] : g[0] = p /\ \A n \in 1..N : g[n] = step[<<n, g[n - 1]>>]
    <3>1. \E g \in [0..N -> V] : Recurs(g, N, p, step)
      BY <1>a, <2>1, Solvable
    <3> QED
      BY <3>1 DEF Recurs
  <2>5. ASSUME NEW n \in 1..N
        PROVE  g[n] = Body(n, g[n - 1])
    <3>1. n - 1 \in 0..N
      OBVIOUS
    <3>2. g[n - 1] \in V
      BY <3>1
    <3> QED
      BY <2>2, <2>4, <3>2
  <2> QED
    BY <2>4, <2>5
<1> HIDE DEF V, step
<1>2. g = [n \in 0..N |-> IF n = 0 THEN p ELSE Body(n, g[n - 1])]
  <2>1. \A n \in 0..N : n = 0 \/ n \in 1..N
    OBVIOUS
  <2> HIDE DEF Body
  <2> QED
    BY <1>1, <2>1
<1> DEFINE forest[n \in 0..N] == IF n = 0 THEN [k \in W |-> k] ELSE HungFrom(records, forest[n - 1], n)
<1>3. forest = [n \in 0..N |-> IF n = 0 THEN p ELSE Body(n, forest[n - 1])]
  BY <1>2 DEF forest, p
<1>4. Forest(records, W) = forest[N]
  BY DEF Forest
<1> HIDE DEF forest, Body
<1>5. \A n \in 0..N : forest[n] = IF n = 0 THEN p ELSE Body(n, forest[n - 1])
  BY <1>3
<1> DEFINE Good(f, n) == f \in V /\ \A i \in 1..n, j \in 1..N : MetIn(records, f, W, i, j)
           T == {n \in 0..N : Good(forest[n], n)}
<1>6. 0 \in T
  <2>1. forest[0] = p
    BY <1>5
  <2>2. Good(p, 0)
    BY <1>a
  <2> QED
    BY <2>1, <2>2
<1>7. ASSUME NEW n \in 1..N, n - 1 \in T
      PROVE  n \in T
  <2>1. PICK f, h : f = forest[n - 1] /\ h = forest[n]
    OBVIOUS
  <2>2. h = Body(n, f) /\ Good(f, n - 1)
    BY <1>5, <1>7, <2>1
  <2>3. h \in V /\ HungFromEffect(records, N, f, h, W, n)
    BY <1>0, <2>2
  <2>4. TreesGrow(f, h, W) /\ \A j \in 1..N : MetIn(records, h, W, n, j)
    BY <2>3 DEF HungFromEffect
  <2>5. \A i \in 1..(n - 1), j \in 1..N : MetIn(records, h, W, i, j)
    BY <2>2, <2>4, GrowsOn
  <2>6. \A i \in 1..n : i \in 1..(n - 1) \/ i = n
    OBVIOUS
  <2>7. Good(h, n)
    BY <2>3, <2>4, <2>5, <2>6
  <2> QED
    BY <2>1, <2>7
<1> HIDE DEF T
<1>8. \A n \in 0..N : n \in T
  BY <1>6, <1>7, UpTo
<1>9. N \in 0..N
  OBVIOUS
<1> QED
  BY <1>4, <1>8, <1>9 DEF T, V, ForestEffect

LEMMA ClusterIs ==
    ASSUME NEW records, NEW W, NEW f, f = Forest(records, W)
    PROVE  /\ \A c \in ClusterByDistance(records, W) : c \subseteq W
           /\ \A i \in W : {c \in ClusterByDistance(records, W) : i \in c} = {{k \in W : OneTree(f, k, i)}}
<1> DEFINE class(r) == {k \in W : Root(f, k) = r}
<1>1. ClusterByDistance(records, W) = {class(r) : r \in {Root(f, k) : k \in W}}
  BY DEF ClusterByDistance
<1>2. \A c \in ClusterByDistance(records, W) : c \subseteq W
  BY <1>1
<1>3. ASSUME NEW i \in W
      PROVE  {c \in ClusterByDistance(records, W) : i \in c} = {{k \in W : OneTree(f, k, i)}}
  <2>1. {k \in W : OneTree(f, k, i)} = class(Root(f, i))
    BY DEF OneTree
  <2>2. class(Root(f, i)) \in ClusterByDistance(records, W) /\ i \in class(Root(f, i))
    BY <1>1
  <2>3. \A r : i \in class(r) => class(r) = class(Root(f, i))
    OBVIOUS
  <2> HIDE DEF class
  <2>4. \A c \in ClusterByDistance(records, W) : i \in c => c = class(Root(f, i))
    BY <1>1, <2>3
  <2> QED
    BY <2>1, <2>2, <2>4
<1> QED
  BY <1>2, <1>3

NamedAs(records, i) == {k \in DOMAIN records : Core(records[k].name) = Core(records[i].name) /\ Located(records[k])}

LEMMA LinkedIs ==
    ASSUME NEW N \in Nat, NEW records, Counts(records, N), \A k \in 1..N : records[k].place \in Int,
           NEW i \in 1..N, Located(records[i]), NEW W, W = NamedAs(records, i),
           NEW f, f = Forest(records, W)
    PROVE  {k \in W : OneTree(f, k, i)} = Linked(records, i)
<1>1. W \in SUBSET (1..N) /\ i \in W /\ Len(records) = N /\ DOMAIN records = 1..N
  BY DEF NamedAs, Counts
<1>2. Mutual(records, W)
  <2>1. \A k \in W : records[k].place \in Int
    BY <1>1
  <2> QED
    BY <2>1, JoinScale DEF Mutual, Together, Apart
<1>3. ForestEffect(records, N, f, W)
  BY <1>1, <1>2, ForestIs
<1> DEFINE class == {k \in W : OneTree(f, k, i)}
<1>4. \A j \in W, k \in 1..N : Near(records, j, k) <=> k \in W /\ Together(records, j, k)
  BY <1>1 DEF Near, NamedAs, Together
<1>5. ASSUME NEW k \in class, NEW set \in SUBSET (1..N), i \in set, Closed(records, set)
      PROVE  k \in set
  <2> DEFINE S == set \cap W
  <2>1. ClosedIn(records, W, S)
    BY <1>1, <1>4, <1>5 DEF ClosedIn, Closed
  <2>2. S \in SUBSET W /\ i \in S /\ k \in W /\ OneTree(f, i, k)
    BY <1>1, <1>5 DEF OneTree
  <2> HIDE DEF S
  <2>3. k \in S
    BY <1>1, <1>3, <2>1, <2>2 DEF ForestEffect, KeptIn, NotBeyond
  <2> QED
    BY <2>3 DEF S
<1>6. ASSUME NEW k \in Linked(records, i)
      PROVE  k \in class
  <2>1. class \in SUBSET (1..N) /\ i \in class
    BY <1>1 DEF OneTree
  <2>2. ASSUME NEW j \in class, NEW m \in 1..N, Near(records, j, m)
        PROVE  m \in class
    <3>1. j \in W /\ m \in W /\ Together(records, j, m) /\ Together(records, m, j) /\ OneTree(f, j, i)
      BY <1>2, <1>4, <2>2 DEF Mutual
    <3>2. MetIn(records, f, W, j, m) /\ MetIn(records, f, W, m, j)
      BY <1>1, <1>3, <3>1 DEF ForestEffect
    <3>3. j = m \/ j < m \/ m < j
      BY <1>1, <3>1
    <3>4. OneTree(f, j, m)
      BY <3>1, <3>2, <3>3 DEF MetIn, OneTree
    <3> QED
      BY <3>1, <3>4 DEF OneTree
  <2>3. Closed(records, class)
    BY <1>1, <2>2 DEF Closed
  <2> HIDE DEF class
  <2> QED
    BY <1>1, <2>1, <2>3 DEF Linked
<1>7. \A k \in class : k \in 1..N
  BY <1>1
<1> HIDE DEF class
<1>8. Linked(records, i) = class
  BY <1>1, <1>5, <1>6, <1>7 DEF Linked
<1> QED
  BY <1>8 DEF class

LEMMA CollapsedIs ==
    ASSUME NEW N \in Nat, NEW records, Counts(records, N), \A k \in 1..N : records[k].place \in Int,
           NEW i \in 1..N, Located(records[i])
    PROVE  {c \in CollapseStopArea(records).clusters : i \in c} = {Linked(records, i)}
<1> DEFINE named(j) == {k \in DOMAIN records : Core(records[k].name) = Core(records[j].name)}
           located(g) == {k \in g : Located(records[k])}
           nowhere(g) == {k \in g : ~Located(records[k])}
           of(g) == ClusterByDistance(records, located(g)) \cup ({nowhere(g)} \ {{}})
           W == NamedAs(records, i)
           class == {k \in W : OneTree(Forest(records, W), k, i)}
<1>1. CollapseStopArea(records).clusters = UNION {of(g) : g \in {named(j) : j \in DOMAIN records}}
  BY DEF CollapseStopArea
<1>2. W = located(named(i)) /\ i \in W /\ i \in DOMAIN records
  BY DEF NamedAs, Counts
<1>3. class = Linked(records, i)
  BY LinkedIs
<1>4. /\ \A S : \A c \in ClusterByDistance(records, S) : c \subseteq S
      /\ {c \in ClusterByDistance(records, W) : i \in c} = {class}
  <2>1. \A S : \A c \in ClusterByDistance(records, S) : c \subseteq S
    <3> SUFFICES ASSUME NEW S
                 PROVE  \A c \in ClusterByDistance(records, S) : c \subseteq S
      OBVIOUS
    <3>1. PICK f : f = Forest(records, S)
      OBVIOUS
    <3> QED
      BY <3>1, ClusterIs
  <2>2. PICK V, f : V = W /\ f = Forest(records, V)
    OBVIOUS
  <2>3. {c \in ClusterByDistance(records, V) : i \in c} = {{k \in V : OneTree(f, k, i)}}
    <3>1. i \in V /\ f = Forest(records, V)
      BY <1>2, <2>2
    <3>2. \A j \in V : {c \in ClusterByDistance(records, V) : j \in c} = {{k \in V : OneTree(f, k, j)}}
      BY <3>1, ClusterIs
    <3> QED
      BY <3>1, <3>2
  <2> QED
    BY <2>1, <2>2, <2>3
<1>5. class \in CollapseStopArea(records).clusters /\ i \in class
  <2> HIDE DEF class, W, located, nowhere, named
  <2>1. class \in of(named(i)) /\ i \in class
    BY <1>2, <1>4
  <2> HIDE DEF of
  <2> QED
    BY <1>1, <1>2, <2>1
<1>6. ASSUME NEW c \in CollapseStopArea(records).clusters, i \in c
      PROVE  c = class
  <2>1. PICK j \in DOMAIN records : c \in of(named(j))
    BY <1>1
  <2>2. c \in ClusterByDistance(records, located(named(j))) \/ c = nowhere(named(j))
    BY <2>1
  <2>3. c # nowhere(named(j))
    BY <1>6
  <2>4. i \in located(named(j))
    BY <1>4, <1>6, <2>2, <2>3
  <2>5. named(j) = named(i)
    BY <2>4
  <2> HIDE DEF class, W, nowhere, named, located
  <2> QED
    BY <1>2, <1>4, <1>6, <2>2, <2>3, <2>5
<1> HIDE DEF class
<1> QED
  BY <1>3, <1>5, <1>6

(* Stations are collapsed into one exactly if a chain of records of their  *)
(* name, each within the distance of the next, links them, in whatever     *)
(* order the pairs are met (osm.go:91, the union-find of :141-175).        *)
THEOREM ChainsAreClusters == AlgorithmsSpec => []ClustersAreChains
<1> DEFINE Clustered(told, q) ==
        \A i \in DOMAIN q : Located(q[i]) => {c \in told.clusters : i \in c} = {Linked(q, i)}
<1>1. ClustersAreChains <=> (Replied("collapse") => Clustered(Told, question))
  BY DEF ClustersAreChains
<1>2. ClustersAreChains' <=> (Replied("collapse")' => Clustered(Told', question'))
  BY DEF ClustersAreChains
<1>3. PlanInit => Questioned /\ ClustersAreChains
  BY QuestionedInit, <1>1 DEF Replied
<1>4. Questioned /\ ClustersAreChains /\ [AlgorithmsNext]_planVars => ClustersAreChains'
  <2> SUFFICES ASSUME Questioned, ClustersAreChains, [AlgorithmsNext]_planVars, Replied("collapse")'
               PROVE  Clustered(Told', question)
    BY <1>2, Stays
  <2>0. topic = "collapse"
    BY Stays DEF Replied
  <2>1. CASE answer' = answer
    <3>1. Told' = Told /\ Replied("collapse")
      BY <2>1, Stays DEF Replied, Told
    <3> HIDE DEF Clustered
    <3> QED
      BY <1>1, <3>1
  <2>2. CASE Collapse
    <3>1. Told' = CollapseStopArea(question)
      BY <2>2, ToldIs DEF Collapse
    <3>2. question \in Seq(Range(question)) /\ \A i \in DOMAIN question : question[i].place \in Int
      BY <2>0, SkeletonJoinAssumption DEF Questioned
    <3>3. PICK N \in Nat : Counts(question, N)
      BY <3>2, SeqCounts
    <3>4. \A i \in DOMAIN question : i \in 1..N
      BY <3>3 DEF Counts
    <3>5. \A k \in 1..N : question[k].place \in Int
      BY <3>2, <3>3 DEF Counts
    <3> QED
      BY <3>1, <3>3, <3>4, <3>5, CollapsedIs
  <2> QED
    BY <2>0, <2>1, <2>2, Answering
<1> QED
  BY <1>3, <1>4, QuestionedStays, PTL DEF AlgorithmsSpec

-----------------------------------------------------------------------------
(***************************************************************************)
(* The join and its pages (SkeletonJoin).  What a station of OSM may be    *)
(* compared with bears the same scores in a page as in the whole, whatever *)
(* the turns: where no two are as good, the same one is taken.             *)
(***************************************************************************)
LEMMA JoinScoreIn ==
    ASSUME NEW a, NEW b, a.place \in Int, b.place \in Int
    PROVE  JoinScore(a, b) \in Int
<1> DEFINE w == Weights(a, b)
           f == [Features(a, b) EXCEPT !.name = NormalizedSimilarity(a.name, b.name)]
<1>1. /\ w.name \in Nat /\ w.geom \in Nat /\ w.settlement \in Nat /\ w.transport \in Nat
      /\ w.name > 0
  BY DEF Weights
<1>2. f.name \in Int /\ f.geom \in Int /\ f.settlement \in Int /\ f.transport \in Int
  BY NormalizedIn, PercentIn, GeometryIn DEF Features
<1> HIDE DEF w, f
<1>3. Mean(w, f, 100) \in Int
  BY <1>1, <1>2, MeanIn
<1> QED
  BY <1>3 DEF JoinScore, w, f

LEMMA TopOf ==
    ASSUME NEW n \in Nat, NEW D \in SUBSET (1..n), D # {}, NEW scores \in [D -> Int]
    PROVE  \E m \in D : \A j \in D : scores[j] <= scores[m]
<1>1. PICK d \in D : TRUE
  OBVIOUS
<1>2. n > 0
  BY <1>1
<1> DEFINE all == [i \in 1..n |-> IF i \in D THEN scores[i] ELSE scores[d]]
<1>3. all \in [1..n -> Int]
  BY <1>1
<1>4. PICK m \in 1..n : \A j \in 1..n : all[j] <= all[m]
  <2> HIDE DEF all
  <2> QED
    BY <1>2, <1>3, GreatestOf
<1>5. /\ \A j \in D : j \in 1..n /\ all[j] = scores[j]
      /\ m \notin D => all[m] = scores[d]
  OBVIOUS
<1> HIDE DEF all
<1>6. CASE m \in D
  BY <1>4, <1>5, <1>6
<1>7. CASE m \notin D
  BY <1>1, <1>4, <1>5, <1>7
<1> QED
  BY <1>6, <1>7

LEMMA FirstBestIn ==
    ASSUME NEW n \in Nat, NEW D \in SUBSET (1..n), D # {}, NEW scores \in [D -> Int],
           NEW turns, \A j \in D : turns[j] \in Nat
    PROVE  FirstBest(scores, turns) \in D
           /\ \A j \in D : scores[j] <= scores[FirstBest(scores, turns)]
<1>1. PICK m \in D : \A j \in D : scores[j] <= scores[m]
  BY TopOf
<1> DEFINE top == {i \in D : scores[i] = scores[m]}
           ts == {turns[i] : i \in top}
<1>2. PICK t \in ts : \A u \in ts : t <= u
  <2>1. ts \in SUBSET Nat /\ turns[m] \in ts
    OBVIOUS
  <2> HIDE DEF ts
  <2> QED
    BY <2>1, LeastOf
<1>3. PICK i \in top : turns[i] = t
  BY <1>2
<1> DEFINE Best1(k) == \A j \in D : scores[k] > scores[j] \/ (scores[k] = scores[j] /\ turns[k] <= turns[j])
<1>4. i \in D /\ Best1(i)
  <2>1. ASSUME NEW j \in D
        PROVE  scores[i] > scores[j] \/ (scores[i] = scores[j] /\ turns[i] <= turns[j])
    <3>1. scores[i] = scores[m] /\ scores[j] <= scores[m] /\ scores[i] \in Int /\ scores[j] \in Int
      BY <1>1, <1>3
    <3>2. CASE scores[j] = scores[m]
      <4>1. turns[j] \in ts
        BY <3>2
      <4> QED
        BY <1>2, <1>3, <3>1, <3>2, <4>1
    <3>3. CASE scores[j] # scores[m]
      BY <3>1, <3>3
    <3> QED
      BY <3>2, <3>3
  <2> QED
    BY <1>3, <2>1
<1>5. FirstBest(scores, turns) = CHOOSE k \in D : Best1(k)
  BY DEF FirstBest
<1> HIDE DEF Best1
<1>6. PICK k : k = FirstBest(scores, turns) /\ k \in D /\ Best1(k)
  BY <1>4, <1>5
<1>7. \A j \in D : scores[j] <= scores[k]
  <2>1. \A j \in D : scores[j] \in Int
    OBVIOUS
  <2> QED
    BY <1>6, <2>1 DEF Best1
<1> QED
  BY <1>6, <1>7

(* A source is a list of records with places on the line.                  *)
IsSource(list, N) == Counts(list, N) /\ \A k \in 1..N : list[k].place \in Int

TurnsOf(turns, M) == DOMAIN turns \in SUBSET (1..M) /\ \A j \in DOMAIN turns : turns[j] \in Nat

LEMMA TurnsIn ==
    ASSUME NEW M \in Nat, NEW yandex, IsSource(yandex, M), NEW o, o.place \in Int,
           NEW free \in SUBSET (1..M), NEW paged \in BOOLEAN
    PROVE  TurnsOf(Turns(paged, o, yandex, free), M)
<1>1. DOMAIN yandex = 1..M /\ Len(yandex) = M
  BY DEF IsSource, Counts
<1>2. TurnsOf([j \in DOMAIN yandex |-> j], M) /\ TurnsOf([j \in free |-> j], M)
  BY <1>1 DEF TurnsOf
<1>3. TurnsOf(NearbyYandex(o, yandex), M)
  <2> DEFINE near == {k \in DOMAIN yandex :
                Located(yandex[k]) => CellsOff(o, yandex[k]) \in -1..1 /\ InWindow(o, yandex[k])}
             turn(j) == IF Located(yandex[j]) THEN Len(yandex) * (CellsOff(o, yandex[j]) + 1) + j
                        ELSE Len(yandex) * 3 + j
  <2>1. NearbyYandex(o, yandex) = [j \in near |-> turn(j)]
    BY DEF NearbyYandex
  <2>2. ASSUME NEW j \in near
        PROVE  j \in 1..M /\ turn(j) \in Nat
    <3>1. j \in 1..M
      BY <1>1
    <3>2. CASE Located(yandex[j])
      <4>1. PICK c : c = CellsOff(o, yandex[j])
        OBVIOUS
      <4>2. c = -1 \/ c = 0 \/ c = 1
        BY <3>2, <4>1
      <4>3. M * (c + 1) + j \in Nat
        BY <3>1, <4>2
      <4> QED
        BY <1>1, <3>1, <3>2, <4>1, <4>3
    <3>3. CASE ~Located(yandex[j])
      BY <1>1, <3>1, <3>3
    <3> QED
      BY <3>2, <3>3
  <2> HIDE DEF near, turn
  <2> QED
    BY <2>1, <2>2 DEF TurnsOf
<1> QED
  BY <1>2, <1>3 DEF Turns

Outcomes == {"enriched", "duplicate_ambiguous", "identity_only"}
Fates(M) == [fate : Outcomes, with : 0..M]

LEMMA JoinWithTakes ==
    ASSUME NEW M \in Nat, NEW o, NEW y, NEW with \in 1..M, NEW company, NEW score, NEW next,
           NEW fate, fate = JoinWith(o, y, with, company, score, next)
    PROVE  fate \in Fates(M) /\ fate.with \in {0, with}
<1> DEFINE good == score >= JoinThreshold /\ (score - next >= JoinMargin \/ next = 0)
                   /\ (CodesEqual(o, y) \/ Beside(o, y))
           unsure == score >= JoinThreshold - JoinMargin /\ company > 1 /\ score - next < JoinAmbiguity
<1>1. fate = CASE good -> [fate |-> "enriched", with |-> with]
               [] ~good /\ unsure -> [fate |-> "duplicate_ambiguous", with |-> with]
               [] ~good /\ ~unsure -> [fate |-> "identity_only", with |-> 0]
  BY DEF JoinWith
<1> HIDE DEF good, unsure
<1>2. \/ fate = [fate |-> "enriched", with |-> with]
      \/ fate = [fate |-> "duplicate_ambiguous", with |-> with]
      \/ fate = [fate |-> "identity_only", with |-> 0]
  BY <1>1
<1> QED
  BY <1>2 DEF Fates, Outcomes

Takes(M, fate, free) == fate \in Fates(M) /\ fate.with \in {0} \cup free

LEMMA JoinOneTakes ==
    ASSUME NEW M \in Nat, NEW yandex, IsSource(yandex, M), NEW o, o.place \in Int,
           NEW free \in SUBSET (1..M), NEW turns, TurnsOf(turns, M)
    PROVE  Takes(M, JoinOne(o, yandex, turns, free), free)
<1> DEFINE D == DOMAIN turns \cap free
           scores == [j \in D |-> JoinScore(o, yandex[j])]
<1>1. D \in SUBSET (1..M) /\ D \subseteq free /\ \A j \in D : turns[j] \in Nat
  BY DEF TurnsOf
<1>2. scores \in [D -> Int]
  <2>1. \A j \in D : yandex[j].place \in Int
    BY DEF IsSource
  <2> HIDE DEF D
  <2>2. \A j \in D : JoinScore(o, yandex[j]) \in Int
    BY <2>1, JoinScoreIn
  <2> QED
    BY <2>2
<1>3. JoinOne(o, yandex, turns, free) = JoinLeft(o, yandex, turns, scores)
  BY DEF JoinOne
<1> HIDE DEF D, scores
<1>4. CASE D = {}
  <2>1. JoinOne(o, yandex, turns, free) = [fate |-> "identity_only", with |-> 0]
    BY <1>2, <1>3, <1>4 DEF JoinLeft
  <2> QED
    BY <2>1 DEF Takes, Fates, Outcomes
<1>5. CASE D # {}
  <2>1. PICK best : best = FirstBest(scores, turns) /\ best \in D
    BY <1>1, <1>2, <1>5, FirstBestIn
  <2>2. PICK company, score, next :
          JoinOne(o, yandex, turns, free) = JoinWith(o, yandex[best], best, company, score, next)
    BY <1>2, <1>3, <1>5, <2>1 DEF JoinLeft, JoinBest
  <2>3. best \in 1..M /\ best \in free
    BY <1>1, <2>1
  <2>4. PICK fate : fate = JoinOne(o, yandex, turns, free)
    OBVIOUS
  <2>5. fate \in Fates(M) /\ fate.with \in {0, best}
    BY <2>2, <2>3, <2>4, JoinWithTakes
  <2> QED
    BY <2>3, <2>4, <2>5 DEF Takes
<1> QED
  BY <1>4, <1>5

(* No station of Yandex serves two of OSM: one that is taken is not free.  *)
NoneTwice(acc) ==
    /\ \A i \in DOMAIN acc.fates : acc.fates[i].with \notin acc.free
    /\ \A i, j \in DOMAIN acc.fates :
          i # j /\ acc.fates[i].with # 0 => acc.fates[i].with # acc.fates[j].with

Accs(M) == {acc \in [fates : Seq(Fates(M)), free : SUBSET (1..M)] : NoneTwice(acc)}

JoinedEffect(M, acc, n) == n \in Accs(M) /\ Len(n.fates) = Len(acc.fates) + 1

LEMMA JoinedIn ==
    ASSUME NEW M \in Nat, NEW yandex, IsSource(yandex, M), NEW o, o.place \in Int,
           NEW paged \in BOOLEAN, NEW acc \in Accs(M), NEW n, n = Joined(paged, acc, o, yandex)
    PROVE  JoinedEffect(M, acc, n)
<1>1. PICK fates, free : fates = acc.fates /\ free = acc.free
  OBVIOUS
<1>2. fates \in Seq(Fates(M)) /\ free \in SUBSET (1..M) /\ NoneTwice(acc)
  BY <1>1 DEF Accs
<1>3. PICK fate : fate = JoinOne(o, yandex, Turns(paged, o, yandex, free), free)
  OBVIOUS
<1>4. Takes(M, fate, free)
  BY <1>2, <1>3, TurnsIn, JoinOneTakes
<1>5. n = [fates |-> Append(fates, fate), free |-> free \ {fate.with}]
  BY <1>1, <1>3 DEF Joined
<1>6. fate \in Fates(M) /\ (fate.with = 0 \/ fate.with \in free)
  BY <1>4 DEF Takes
<1>7. PICK L \in Nat : L = Len(fates)
  BY <1>2
<1>8. PICK all : all = Append(fates, fate)
  OBVIOUS
<1>9. /\ all \in Seq(Fates(M)) /\ Len(all) = L + 1 /\ DOMAIN all = 1..(L + 1) /\ DOMAIN fates = 1..L
      /\ all[L + 1] = fate /\ \A i \in 1..L : all[i] = fates[i]
  BY <1>2, <1>6, <1>7, <1>8
<1>10. /\ \A i \in 1..L : fates[i].with \notin free
       /\ \A i, j \in 1..L : i # j /\ fates[i].with # 0 => fates[i].with # fates[j].with
  BY <1>1, <1>2, <1>9 DEF NoneTwice
<1>11. \A i \in 1..(L + 1) : i \in 1..L \/ i = L + 1
  OBVIOUS
<1>12. 0 \notin free
  BY <1>2
<1>13. \A i \in 1..(L + 1) : all[i].with \notin free \ {fate.with}
  BY <1>9, <1>10, <1>11
<1>14. ASSUME NEW i \in 1..(L + 1), NEW j \in 1..(L + 1), i # j, all[i].with # 0
       PROVE  all[i].with # all[j].with
  <2>1. CASE i \in 1..L /\ j \in 1..L
    BY <1>9, <1>10, <1>14, <2>1
  <2>2. CASE i \in 1..L /\ j = L + 1
    BY <1>6, <1>9, <1>10, <1>14, <2>2
  <2>3. CASE i = L + 1 /\ j \in 1..L
    BY <1>6, <1>9, <1>10, <1>14, <2>3
  <2> QED
    BY <1>11, <1>14, <2>1, <2>2, <2>3
<1>15. NoneTwice(n)
  BY <1>5, <1>8, <1>9, <1>13, <1>14 DEF NoneTwice
<1>16. n \in [fates : Seq(Fates(M)), free : SUBSET (1..M)]
  <2>1. PICK rest, F : rest = free \ {fate.with} /\ F = Seq(Fates(M))
    OBVIOUS
  <2>2. n = [fates |-> all, free |-> rest] /\ all \in F /\ rest \in SUBSET (1..M)
    BY <1>2, <1>5, <1>8, <1>9, <2>1
  <2>3. n \in [fates : F, free : SUBSET (1..M)]
    BY <2>2
  <2> QED
    BY <2>1, <2>3
<1> QED
  BY <1>1, <1>5, <1>7, <1>8, <1>9, <1>15, <1>16 DEF JoinedEffect, Accs

(* The join as it goes on.                                                 *)
JoinRun(g, paged, osm, yandex, N, M) ==
    /\ g \in [0..N -> Accs(M)]
    /\ g[0] = [fates |-> <<>>, free |-> 1..M]
    /\ \A n \in 1..N : g[n] = Joined(paged, g[n - 1], osm[n], yandex)
    /\ JoinedFrom(paged, osm, yandex) = g[N]

LEMMA JoinedFromIs ==
    ASSUME NEW N \in Nat, NEW M \in Nat, NEW osm, IsSource(osm, N), NEW yandex, IsSource(yandex, M),
           NEW paged \in BOOLEAN
    PROVE  \E g : JoinRun(g, paged, osm, yandex, N, M)
<1> DEFINE Body(n, v) == Joined(paged, v, osm[n], yandex)
           V == Accs(M)
           base == [fates |-> <<>>, free |-> 1..M]
           step == [p \in (1..N) \X V |-> Body(p[1], p[2])]
<1>0. ASSUME NEW n \in 1..N, NEW v \in V
      PROVE  Body(n, v) \in V
  <2>1. PICK o, b : o = osm[n] /\ b = Body(n, v)
    OBVIOUS
  <2>2. o.place \in Int
    BY <2>1 DEF IsSource
  <2>3. JoinedEffect(M, v, b)
    BY <2>1, <2>2, JoinedIn
  <2> QED
    BY <2>1, <2>3 DEF JoinedEffect
<1>a. base \in V
  BY DEF Accs, NoneTwice
<1>b. Len(osm) = N /\ DOMAIN yandex = 1..M
  BY DEF IsSource, Counts
<1> HIDE DEF base
<1>1. PICK g \in [0..N -> V] : g[0] = base /\ \A n \in 1..N : g[n] = Body(n, g[n - 1])
  <2>1. step \in [(1..N) \X V -> V]
    <3> HIDE DEF Body, V
    <3> QED
      BY <1>0
  <2>2. \A n \in 1..N, v \in V : step[<<n, v>>] = Body(n, v)
    OBVIOUS
  <2> HIDE DEF step, Body, V
  <2>4. PICK g \in [0..N -> V] : g[0] = base /\ \A n \in 1..N : g[n] = step[<<n, g[n - 1]>>]
    <3>1. \E g \in [0..N -> V] : Recurs(g, N, base, step)
      BY <1>a, <2>1, Solvable
    <3> QED
      BY <3>1 DEF Recurs
  <2>5. ASSUME NEW n \in 1..N
        PROVE  g[n] = Body(n, g[n - 1])
    <3>1. n - 1 \in 0..N
      OBVIOUS
    <3>2. g[n - 1] \in V
      BY <3>1
    <3> QED
      BY <2>2, <2>4, <3>2
  <2> QED
    BY <2>4, <2>5
<1> HIDE DEF V, step
<1>2. g = [n \in 0..N |-> IF n = 0 THEN base ELSE Body(n, g[n - 1])]
  <2>1. \A n \in 0..N : n = 0 \/ n \in 1..N
    OBVIOUS
  <2> HIDE DEF Body
  <2> QED
    BY <1>1, <2>1
<1> DEFINE join[n \in 0..N] == IF n = 0 THEN [fates |-> <<>>, free |-> 1..M]
                               ELSE Joined(paged, join[n - 1], osm[n], yandex)
<1>3. join = [n \in 0..N |-> IF n = 0 THEN base ELSE Body(n, join[n - 1])]
  BY <1>2 DEF join, base
<1>4. JoinedFrom(paged, osm, yandex) = join[N]
  BY <1>b DEF JoinedFrom
<1> HIDE DEF join, Body
<1>5. \A n \in 0..N : join[n] = IF n = 0 THEN base ELSE Body(n, join[n - 1])
  BY <1>3
<1> DEFINE T == {n \in 0..N : join[n] \in V}
<1>6. 0 \in T
  BY <1>5, <1>a
<1>7. ASSUME NEW n \in 1..N, n - 1 \in T
      PROVE  n \in T
  <2>1. join[n] = Body(n, join[n - 1])
    BY <1>5
  <2> QED
    BY <1>0, <1>7, <2>1
<1> HIDE DEF T
<1>8. \A n \in 0..N : n \in T
  BY <1>6, <1>7, UpTo
<1>9. join \in [0..N -> V]
  <2>1. \A n \in 0..N : join[n] \in V
    BY <1>8 DEF T
  <2> QED
    BY <1>3, <2>1
<1>10. join[0] = base /\ \A n \in 1..N : join[n] = Body(n, join[n - 1])
  BY <1>5
<1> QED
  BY <1>4, <1>9, <1>10 DEF JoinRun, base, V, Body

(* What has been joined has a fate, and no two one station of Yandex.      *)
WellJoined(acc, N, M) == acc \in Accs(M) /\ DOMAIN acc.fates = 1..N

LEMMA JoinedWell ==
    ASSUME NEW N \in Nat, NEW M \in Nat, NEW osm, IsSource(osm, N), NEW yandex, IsSource(yandex, M),
           NEW paged \in BOOLEAN
    PROVE  WellJoined(JoinedFrom(paged, osm, yandex), N, M)
<1>1. PICK g : JoinRun(g, paged, osm, yandex, N, M)
  BY JoinedFromIs
<1> DEFINE T == {n \in 0..N : Len(g[n].fates) = n}
<1>2. g[0] = [fates |-> <<>>, free |-> 1..M]
  BY <1>1 DEF JoinRun
<1>3. 0 \in T
  BY <1>2
<1>4. ASSUME NEW n \in 1..N, n - 1 \in T
      PROVE  n \in T
  <2>1. PICK f, h : f = g[n - 1] /\ h = g[n]
    OBVIOUS
  <2>2. f \in Accs(M) /\ h = Joined(paged, f, osm[n], yandex) /\ osm[n].place \in Int
    BY <1>1, <2>1 DEF JoinRun, IsSource
  <2>3. JoinedEffect(M, f, h)
    BY <2>2, JoinedIn
  <2> QED
    BY <1>4, <2>1, <2>3 DEF JoinedEffect
<1> HIDE DEF T
<1>5. \A n \in 0..N : n \in T
  BY <1>3, <1>4, UpTo
<1>6. N \in 0..N /\ N \in T
  BY <1>5
<1>7. g[N] \in Accs(M) /\ Len(g[N].fates) = N
  BY <1>1, <1>6 DEF JoinRun, T
<1> QED
  BY <1>1, <1>7 DEF Accs, WellJoined, JoinRun

(* Company only matters where there is a rival.                            *)
LEMMA CompanyOfNone ==
    ASSUME NEW o, NEW y, NEW with, NEW c, NEW d, NEW score \in Int, NEW next,
           (c > 1 <=> d > 1) \/ next = 0
    PROVE  JoinWith(o, y, with, c, score, next) = JoinWith(o, y, with, d, score, next)
<1> DEFINE good == score >= JoinThreshold /\ (score - next >= JoinMargin \/ next = 0)
                   /\ (CodesEqual(o, y) \/ Beside(o, y))
           unsure(x) == score >= JoinThreshold - JoinMargin /\ x > 1 /\ score - next < JoinAmbiguity
           fate(x) == CASE good -> [fate |-> "enriched", with |-> with]
                        [] ~good /\ unsure(x) -> [fate |-> "duplicate_ambiguous", with |-> with]
                        [] ~good /\ ~unsure(x) -> [fate |-> "identity_only", with |-> 0]
<1>1. \A x : JoinWith(o, y, with, x, score, next) = fate(x)
  BY DEF JoinWith
<1>2. unsure(c) <=> unsure(d)
  <2>1. CASE c > 1 <=> d > 1
    BY <2>1
  <2>2. CASE next = 0
    <3>1. /\ JoinThreshold \in Int /\ JoinMargin \in Int /\ JoinAmbiguity \in Int
          /\ JoinAmbiguity <= JoinThreshold - JoinMargin
      BY JoinScale
    <3>2. ~(score >= JoinThreshold - JoinMargin /\ score - next < JoinAmbiguity)
      BY <2>2, <3>1
    <3> QED
      BY <3>2
  <2> QED
    BY <2>1, <2>2
<1> HIDE DEF good, unsure
<1> QED
  BY <1>1, <1>2

(* What is near enough to be compared is in a cell beside.                 *)
LEMMA BesideCells ==
    ASSUME NEW o, NEW y, o.place \in Int, y.place \in Int, Apart(o, y) <= 4 * GeoThreshold
    PROVE  CellsOff(o, y) \in -1..1
<1>1. PICK a \in Int, b \in Int : a = o.place /\ b = y.place
  OBVIOUS
<1>2. JoinCell \in Nat \ {0} /\ GeoThreshold \in Nat /\ 4 * GeoThreshold <= JoinCell
  BY JoinScale
<1>3. a - b <= 1 * JoinCell /\ b - a <= 1 * JoinCell
  BY <1>1, <1>2 DEF Apart
<1>4. a \div JoinCell - b \div JoinCell <= 1
  BY <1>2, <1>3, CellsApart
<1>5. b \div JoinCell - a \div JoinCell <= 1
  BY <1>2, <1>3, CellsApart
<1>6. PICK p \in Int, q \in Int : p = a \div JoinCell /\ q = b \div JoinCell
  BY <1>2, DivFacts
<1>7. q - p \in -1..1
  BY <1>4, <1>5, <1>6
<1> QED
  BY <1>1, <1>6, <1>7 DEF CellsOff

ComparableWith(o, yandex, M) ==
    \A j \in 1..M :
        /\ Located(o) /\ Located(yandex[j]) => Apart(o, yandex[j]) <= 4 * GeoThreshold
        /\ \A k \in (1..M) \ {j} : JoinScore(o, yandex[j]) # JoinScore(o, yandex[k])

TurnsCover(o, yandex, free, M) ==
    /\ DOMAIN Turns(FALSE, o, yandex, free) = 1..M
    /\ DOMAIN Turns(TRUE, o, yandex, free) = IF Located(o) THEN 1..M ELSE free

LEMMA TurnsAreAll ==
    ASSUME NEW M \in Nat, NEW yandex, IsSource(yandex, M), NEW o, o.place \in Int,
           NEW free, ComparableWith(o, yandex, M)
    PROVE  TurnsCover(o, yandex, free, M)
<1>1. DOMAIN yandex = 1..M /\ \A k \in 1..M : yandex[k].place \in Int
  BY DEF IsSource, Counts
<1>2. ASSUME Located(o), NEW k \in 1..M, Located(yandex[k])
      PROVE  CellsOff(o, yandex[k]) \in -1..1 /\ InWindow(o, yandex[k])
  <2>1. PICK y : y = yandex[k]
    OBVIOUS
  <2>2. y.place \in Int /\ Apart(o, y) <= 4 * GeoThreshold
    BY <1>1, <1>2, <2>1 DEF ComparableWith
  <2>3. CellsOff(o, y) \in -1..1
    BY <2>2, BesideCells
  <2> QED
    BY <2>1, <2>2, <2>3 DEF InWindow
<1>3. Located(o) => DOMAIN NearbyYandex(o, yandex) = 1..M
  BY <1>1, <1>2 DEF NearbyYandex
<1> QED
  BY <1>1, <1>3 DEF Turns, TurnsCover

LEMMA FewLeft ==
    ASSUME NEW M \in Nat, NEW free \in SUBSET (1..M), NEW b \in free, free # {b}
    PROVE  Cardinality(free) > 1 /\ Cardinality(1..M) > 1
<1>1. PICK k \in free : k # b
  OBVIOUS
<1>2. IsFiniteSet(1..M) /\ Cardinality(1..M) = M
  BY FS_Interval
<1>3. /\ IsFiniteSet(free) /\ Cardinality(free) \in Nat /\ Cardinality(free) <= M
  BY <1>2, FS_Subset, FS_CardinalityType
<1>4. Cardinality({b, k}) = 2 /\ {b, k} \subseteq free
  <2>1. IsFiniteSet({b}) /\ Cardinality({b}) = 1
    BY FS_Singleton
  <2>2. {b, k} = {b} \cup {k} /\ k \notin {b}
    BY <1>1
  <2> QED
    BY <1>1, <2>1, <2>2, FS_AddElement
<1>5. 2 <= Cardinality(free)
  BY <1>3, <1>4, FS_Subset
<1> QED
  BY <1>2, <1>3, <1>5

LEMMA OneFate ==
    ASSUME NEW M \in Nat, NEW yandex, IsSource(yandex, M), NEW o, o.place \in Int,
           NEW free \in SUBSET (1..M), ComparableWith(o, yandex, M)
    PROVE  JoinOne(o, yandex, Turns(TRUE, o, yandex, free), free)
             = JoinOne(o, yandex, Turns(FALSE, o, yandex, free), free)
<1>1. PICK p, w : p = Turns(TRUE, o, yandex, free) /\ w = Turns(FALSE, o, yandex, free)
  OBVIOUS
<1>2. DOMAIN w = 1..M /\ DOMAIN p = IF Located(o) THEN 1..M ELSE free
  <2>1. TurnsCover(o, yandex, free, M)
    BY TurnsAreAll
  <2> QED
    BY <1>1, <2>1 DEF TurnsCover
<1>3. DOMAIN w \cap free = free /\ DOMAIN p \cap free = free
  BY <1>2
<1> DEFINE scores == [j \in free |-> JoinScore(o, yandex[j])]
<1>4. JoinOne(o, yandex, p, free) = JoinLeft(o, yandex, p, scores)
      /\ JoinOne(o, yandex, w, free) = JoinLeft(o, yandex, w, scores)
  BY <1>3 DEF JoinOne
<1>5. scores \in [free -> Int]
  <2>1. \A j \in free : yandex[j].place \in Int
    BY DEF IsSource
  <2>2. \A j \in free : JoinScore(o, yandex[j]) \in Int
    BY <2>1, JoinScoreIn
  <2> QED
    BY <2>2
<1>6. \A j, k \in free : j # k => scores[j] # scores[k]
  BY DEF ComparableWith
<1> HIDE DEF scores
<1>7. CASE free = {}
  BY <1>1, <1>4, <1>5, <1>7 DEF JoinLeft
<1>8. CASE free # {}
  <2>1. (\A j \in free : p[j] \in Nat) /\ (\A j \in free : w[j] \in Nat)
    <3>1. TurnsOf(p, M) /\ TurnsOf(w, M)
      BY <1>1, TurnsIn
    <3> QED
      BY <1>3, <3>1 DEF TurnsOf
  <2>2. PICK b : b = FirstBest(scores, p) /\ b \in free /\ \A j \in free : scores[j] <= scores[b]
    BY <1>5, <1>8, <2>1, FirstBestIn
  <2>3. PICK c : c = FirstBest(scores, w) /\ c \in free /\ \A j \in free : scores[j] <= scores[c]
    BY <1>5, <1>8, <2>1, FirstBestIn
  <2>4. b = c
    <3>1. scores[b] \in Int /\ scores[c] \in Int /\ scores[b] <= scores[c] /\ scores[c] <= scores[b]
      BY <1>5, <2>2, <2>3
    <3>2. scores[b] = scores[c]
      BY <3>1
    <3> QED
      BY <1>6, <2>2, <2>3, <3>2
  <2> DEFINE next == Max({0} \cup {scores[j] : j \in DOMAIN scores \ {b}})
  <2>5. /\ JoinLeft(o, yandex, p, scores)
             = JoinWith(o, yandex[b], b, Cardinality(DOMAIN p), scores[b], next)
        /\ JoinLeft(o, yandex, w, scores)
             = JoinWith(o, yandex[b], b, Cardinality(DOMAIN w), scores[b], next)
    BY <1>5, <1>8, <2>2, <2>3, <2>4 DEF JoinLeft, JoinBest
  <2>6. (Cardinality(DOMAIN p) > 1 <=> Cardinality(DOMAIN w) > 1) \/ next = 0
    <3>1. CASE Located(o)
      BY <1>2, <3>1
    <3>2. CASE ~Located(o) /\ free = {b}
      <4>1. {0} \cup {scores[j] : j \in DOMAIN scores \ {b}} = {0}
        BY <1>5, <3>2
      <4>2. Max({0}) = 0
        BY DEF Max
      <4> QED
        BY <4>1, <4>2
    <3>3. CASE ~Located(o) /\ free # {b}
      <4>1. Cardinality(free) > 1 /\ Cardinality(1..M) > 1
        BY <2>2, <3>3, FewLeft
      <4> QED
        BY <1>2, <3>3, <4>1
    <3> QED
      BY <3>1, <3>2, <3>3
  <2> HIDE DEF next
  <2>7. scores[b] \in Int
    BY <1>5, <2>2
  <2>8. JoinLeft(o, yandex, p, scores) = JoinLeft(o, yandex, w, scores)
    BY <2>5, <2>6, <2>7, CompanyOfNone
  <2> QED
    BY <1>1, <1>4, <2>8
<1> QED
  BY <1>7, <1>8

LEMMA PagesJoin ==
    ASSUME NEW N \in Nat, NEW M \in Nat, NEW osm, IsSource(osm, N), NEW yandex, IsSource(yandex, M),
           Comparable(osm, yandex)
    PROVE  PagedJoin(osm, yandex) = Join(osm, yandex)
<1>1. PICK g : JoinRun(g, TRUE, osm, yandex, N, M)
  BY JoinedFromIs
<1>2. PICK h : JoinRun(h, FALSE, osm, yandex, N, M)
  BY JoinedFromIs
<1> DEFINE T == {n \in 0..N : g[n] = h[n]}
<1>3. 0 \in T
  BY <1>1, <1>2 DEF JoinRun
<1>4. ASSUME NEW n \in 1..N, n - 1 \in T
      PROVE  n \in T
  <2>1. PICK acc, o : acc = g[n - 1] /\ o = osm[n]
    OBVIOUS
  <2>2. /\ acc = h[n - 1] /\ acc \in Accs(M)
        /\ g[n] = Joined(TRUE, acc, o, yandex) /\ h[n] = Joined(FALSE, acc, o, yandex)
    BY <1>1, <1>2, <1>4, <2>1 DEF JoinRun
  <2>3. o.place \in Int /\ ComparableWith(o, yandex, M)
    BY <2>1 DEF IsSource, Counts, Comparable, ComparableWith
  <2>4. PICK free : free = acc.free /\ free \in SUBSET (1..M)
    BY <2>2 DEF Accs
  <2>5. JoinOne(o, yandex, Turns(TRUE, o, yandex, free), free)
          = JoinOne(o, yandex, Turns(FALSE, o, yandex, free), free)
    BY <2>3, <2>4, OneFate
  <2>6. Joined(TRUE, acc, o, yandex) = Joined(FALSE, acc, o, yandex)
    BY <2>4, <2>5 DEF Joined
  <2>7. g[n] = h[n]
    BY <2>2, <2>6, Zenon
  <2>8. n \in 0..N
    OBVIOUS
  <2> QED
    BY <2>7, <2>8
<1> HIDE DEF T
<1>5. \A n \in 0..N : n \in T
  BY <1>3, <1>4, UpTo
<1>6. N \in T
  BY <1>5
<1> QED
  BY <1>1, <1>2, <1>6 DEF T, JoinRun, PagedJoin, Join

(* Where all may be compared and none are as good, the pager's pages give  *)
(* the skeleton of one whole join (join_stream.go:18); and no station of   *)
(* Yandex is ever taken by two of OSM (join.go).                           *)
THEOREM PagesJoinAsOne == AlgorithmsSpec => []PagesAreTheJoin
<1> DEFINE Agreed(told, q) ==
        /\ Comparable(q.osm, q.yandex) => told.paged = told.whole
        /\ \A i, j \in DOMAIN q.osm :
              i # j /\ told.paged.fates[i].with # 0 =>
                  told.paged.fates[i].with # told.paged.fates[j].with
<1>1. PagesAreTheJoin <=> (Replied("join") => Agreed(Told, question))
  BY DEF PagesAreTheJoin
<1>2. PagesAreTheJoin' <=> (Replied("join")' => Agreed(Told', question'))
  BY DEF PagesAreTheJoin
<1>3. PlanInit => Questioned /\ PagesAreTheJoin
  BY QuestionedInit, <1>1 DEF Replied
<1>4. Questioned /\ PagesAreTheJoin /\ [AlgorithmsNext]_planVars => PagesAreTheJoin'
  <2> SUFFICES ASSUME Questioned, PagesAreTheJoin, [AlgorithmsNext]_planVars, Replied("join")'
               PROVE  Agreed(Told', question)
    BY <1>2, Stays
  <2>0. topic = "join"
    BY Stays DEF Replied
  <2>1. CASE answer' = answer
    <3>1. Told' = Told /\ Replied("join")
      BY <2>1, Stays DEF Replied, Told
    <3> HIDE DEF Agreed
    <3> QED
      BY <1>1, <3>1
  <2>2. CASE JoinSources
    <3>1. PICK osm, yandex : osm = question.osm /\ yandex = question.yandex
      OBVIOUS
    <3>2. PICK paged, whole : paged = PagedJoin(osm, yandex) /\ whole = Join(osm, yandex)
      OBVIOUS
    <3>3. Told' = Skeleton(paged, whole)
      BY <2>2, <3>1, <3>2, ToldIs DEF JoinSources
    <3>4. Told'.paged = paged /\ Told'.whole = whole
      BY <3>3 DEF Skeleton
    <3>5. /\ osm \in Seq(Range(osm)) /\ \A i \in DOMAIN osm : osm[i].place \in Int
          /\ yandex \in Seq(Range(yandex)) /\ \A i \in DOMAIN yandex : yandex[i].place \in Int
      BY <2>0, <3>1, SkeletonJoinAssumption DEF Questioned
    <3>6. PICK N \in Nat : IsSource(osm, N)
      <4>1. PICK N \in Nat : Counts(osm, N)
        BY <3>5, SeqCounts
      <4> QED
        BY <3>5, <4>1 DEF Counts, IsSource
    <3>7. PICK M \in Nat : IsSource(yandex, M)
      <4>1. PICK M \in Nat : Counts(yandex, M)
        BY <3>5, SeqCounts
      <4> QED
        BY <3>5, <4>1 DEF Counts, IsSource
    <3>8. Comparable(osm, yandex) => paged = whole
      BY <3>2, <3>6, <3>7, PagesJoin
    <3>9. paged \in Accs(M) /\ DOMAIN paged.fates = 1..N
      <4>1. WellJoined(JoinedFrom(TRUE, osm, yandex), N, M)
        BY <3>6, <3>7, JoinedWell
      <4> QED
        BY <3>2, <4>1 DEF PagedJoin, WellJoined
    <3>10. ASSUME NEW i \in DOMAIN osm, NEW j \in DOMAIN osm, i # j, paged.fates[i].with # 0
           PROVE  paged.fates[i].with # paged.fates[j].with
      <4>1. i \in DOMAIN paged.fates /\ j \in DOMAIN paged.fates
        BY <3>6, <3>9, <3>10 DEF IsSource, Counts
      <4>2. NoneTwice(paged)
        BY <3>9 DEF Accs
      <4> QED
        BY <3>10, <4>1, <4>2 DEF NoneTwice
    <3> QED
      BY <3>1, <3>4, <3>8, <3>10
  <2> QED
    BY <2>0, <2>1, <2>2, Answering
<1> QED
  BY <1>3, <1>4, QuestionedStays, PTL DEF AlgorithmsSpec

-----------------------------------------------------------------------------
(* Feeds that are written, sorted and read back.  A list in order has each *)
(* member of its set once, and what follows a member in it follows it in   *)
(* the order (ListedNext); so the times of a trip, however they are put    *)
(* into a feed, are read in the order of their numbers (TripIsRead).  The  *)
(* rows of a compiled feed name rows of files that are imported before     *)
(* theirs (CompiledIsWhole), so none of them is passed over (RowIsRead).   *)

(* The order of a finite set, and its members listed in it.                *)
Orders(S, before) ==
    /\ IsFiniteSet(S)
    /\ \A a \in S : <<a, a>> \notin before
    /\ \A a, b \in S : a # b => <<a, b>> \in before \/ <<b, a>> \in before
    /\ \A a, b, c \in S : <<a, b>> \in before /\ <<b, c>> \in before => <<a, c>> \in before

Lists(e, n, S, before) ==
    /\ e \in [1..n -> S]
    /\ \A a \in S : \E k \in 1..n : e[k] = a
    /\ \A i, j \in 1..n : i < j <=> <<e[i], e[j]>> \in before

LEMMA InOrderIs ==
    ASSUME NEW S, NEW before, Orders(S, before)
    PROVE  \E n \in Nat : Lists(InOrder(S, before), n, S, before)
<1> DEFINE n == Cardinality(S)
           below(a) == {b \in S : <<b, a>> \in before}
           place == [a \in S |-> Cardinality(below(a)) + 1]
<1>1. n \in Nat
  BY FS_CardinalityType DEF Orders
<1>2. ASSUME NEW a \in S
      PROVE  Cardinality(below(a)) \in 0..(n - 1)
  <2>1. IsFiniteSet(S \ {a}) /\ Cardinality(S \ {a}) = n - 1
    BY FS_RemoveElement DEF Orders
  <2>2. below(a) \in SUBSET (S \ {a})
    BY DEF Orders
  <2> HIDE DEF n
  <2>3. /\ IsFiniteSet(below(a)) /\ Cardinality(below(a)) <= n - 1
        /\ Cardinality(below(a)) \in Nat
    BY <2>1, <2>2, FS_Subset, FS_CardinalityType
  <2> QED
    BY <1>1, <2>3
<1>3. ASSUME NEW a \in S, NEW b \in S, <<a, b>> \in before
      PROVE  Cardinality(below(a)) < Cardinality(below(b))
  <2>1. below(a) \in SUBSET (below(b) \ {a}) /\ a \in below(b)
    BY <1>3 DEF Orders
  <2>2. below(b) \in SUBSET S
    OBVIOUS
  <2>3. IsFiniteSet(below(b))
    BY <2>2, FS_Subset DEF Orders
  <2> HIDE DEF below
  <2>4. IsFiniteSet(below(b) \ {a}) /\ Cardinality(below(b) \ {a}) = Cardinality(below(b)) - 1
    BY <2>1, <2>3, FS_RemoveElement
  <2>5. Cardinality(below(a)) <= Cardinality(below(b)) - 1
    BY <2>1, <2>4, FS_Subset
  <2> QED
    BY <1>1, <1>2, <2>5
<1> HIDE DEF n, below
<1>4. place \in [S -> 1..n]
  BY <1>1, <1>2
<1>5. \A a, b \in S : place[a] < place[b] <=> <<a, b>> \in before
  <2>1. \A a, b \in S : <<a, b>> \in before => place[a] < place[b]
    BY <1>1, <1>2, <1>3
  <2>2. \A a, b \in S : a # b => <<a, b>> \in before \/ <<b, a>> \in before
    BY DEF Orders
  <2>3. \A a \in S : place[a] \in Int
    BY <1>4
  <2> HIDE DEF place
  <2> SUFFICES ASSUME NEW a \in S, NEW b \in S, place[a] < place[b]
               PROVE  <<a, b>> \in before
    BY <2>1
  <2>4. place[a] \in Int /\ place[b] \in Int /\ a # b /\ ~(place[b] < place[a])
    BY <2>3
  <2> QED
    BY <2>1, <2>2, <2>4
<1>6. \A a, b \in S : place[a] = place[b] => a = b
  <2>1. \A a, b \in S : a # b => <<a, b>> \in before \/ <<b, a>> \in before
    BY DEF Orders
  <2>2. \A a \in S : place[a] \in Int
    BY <1>4
  <2> HIDE DEF place
  <2> SUFFICES ASSUME NEW a \in S, NEW b \in S, place[a] = place[b], a # b
               PROVE  FALSE
    OBVIOUS
  <2>3. place[a] \in Int /\ ~(place[a] < place[b]) /\ ~(place[b] < place[a])
    BY <2>2
  <2> QED
    BY <1>5, <2>1, <2>3
<1>7. \A k \in 1..n : \E a \in S : place[a] = k
  <2> HIDE DEF place
  <2>1. place \in Injection(S, 1..n)
    BY <1>4, <1>6 DEF Injection, IsInjective
  <2>2. IsFiniteSet(1..n) /\ Cardinality(1..n) = n
    BY <1>1, FS_Interval
  <2>3. Cardinality(S) = Cardinality(1..n) <=> place \in Surjection(S, 1..n)
    BY <2>1, <2>2, FS_Injection
  <2>4. place \in Surjection(S, 1..n)
    BY <2>2, <2>3 DEF n
  <2> QED
    BY <2>4 DEF Surjection
<1> DEFINE e == [k \in 1..n |-> CHOOSE a \in S : Cardinality(below(a)) = k - 1]
<1>8. InOrder(S, before) = e
  BY DEF InOrder, n, below
<1>9. \A k \in 1..n : e[k] \in S /\ place[e[k]] = k
  <2> SUFFICES ASSUME NEW k \in 1..n
               PROVE  e[k] \in S /\ place[e[k]] = k
    OBVIOUS
  <2>1. PICK a \in S : place[a] = k
    BY <1>7
  <2>2. Cardinality(below(a)) = k - 1
    BY <1>1, <1>2, <2>1
  <2>3. PICK b : b = CHOOSE a1 \in S : Cardinality(below(a1)) = k - 1
    OBVIOUS
  <2>4. b \in S /\ Cardinality(below(b)) = k - 1
    BY <2>2, <2>3
  <2> QED
    BY <1>1, <2>3, <2>4
<1>10. e \in [1..n -> S]
  BY <1>9
<1> HIDE DEF e, place
<1>11. \A a \in S : place[a] \in 1..n /\ e[place[a]] = a
  BY <1>4, <1>6, <1>9
<1>12. \A i, j \in 1..n : i < j <=> <<e[i], e[j]>> \in before
  BY <1>5, <1>9
<1> QED
  BY <1>1, <1>8, <1>10, <1>11, <1>12 DEF Lists

(* One member follows another: in a list, and in an order.                 *)
FollowsIn(e, n, a, b) == \E k \in 1..(n - 1) : e[k] = a /\ e[k + 1] = b

IsNext(S, before, a, b) ==
    <<a, b>> \in before /\ \A c \in S : ~(<<a, c>> \in before /\ <<c, b>> \in before)

LEMMA ListedNext ==
    ASSUME NEW S, NEW before, Orders(S, before), NEW n \in Nat, NEW e, Lists(e, n, S, before),
           NEW a \in S, NEW b \in S
    PROVE  FollowsIn(e, n, a, b) <=> IsNext(S, before, a, b)
<1>1. ASSUME NEW k \in 1..(n - 1), e[k] = a, e[k + 1] = b
      PROVE  <<a, b>> \in before /\ \A c \in S : ~(<<a, c>> \in before /\ <<c, b>> \in before)
  <2>1. k \in 1..n /\ k + 1 \in 1..n
    OBVIOUS
  <2>2. <<a, b>> \in before
    BY <1>1, <2>1 DEF Lists
  <2>3. ASSUME NEW c \in S, <<a, c>> \in before, <<c, b>> \in before
        PROVE  FALSE
    <3>1. PICK m \in 1..n : e[m] = c
      BY DEF Lists
    <3>2. k < m /\ m < k + 1
      BY <1>1, <2>1, <2>3, <3>1 DEF Lists
    <3> QED
      BY <3>2
  <2> QED
    BY <2>2, <2>3
<1>2. ASSUME <<a, b>> \in before, \A c \in S : ~(<<a, c>> \in before /\ <<c, b>> \in before)
      PROVE  \E k \in 1..(n - 1) : e[k] = a /\ e[k + 1] = b
  <2>1. PICK i \in 1..n, j \in 1..n : e[i] = a /\ e[j] = b
    BY DEF Lists
  <2>2. i < j
    BY <1>2, <2>1 DEF Lists
  <2>3. ~(i + 1 < j)
    <3> SUFFICES ASSUME i + 1 < j
                 PROVE  FALSE
      OBVIOUS
    <3>1. i + 1 \in 1..n /\ i < i + 1
      BY <2>2
    <3>2. e[i + 1] \in S /\ <<a, e[i + 1]>> \in before /\ <<e[i + 1], b>> \in before
      BY <2>1, <3>1 DEF Lists
    <3> QED
      BY <1>2, <3>2
  <2>4. j = i + 1 /\ i \in 1..(n - 1)
    BY <2>2, <2>3
  <2> QED
    BY <2>1, <2>4
<1> QED
  BY <1>1, <1>2 DEF FollowsIn, IsNext

LEMMA OrderedByTwo ==
    ASSUME NEW S, IsFiniteSet(S), NEW f \in [S -> Int], NEW g \in [S -> Int], NEW before,
           \A a, b \in S : f[a] = f[b] /\ g[a] = g[b] => a = b,
           \A a, b \in S : <<a, b>> \in before <=> f[a] < f[b] \/ (f[a] = f[b] /\ g[a] < g[b])
    PROVE  Orders(S, before)
<1>1. \A a \in S : f[a] \in Int /\ g[a] \in Int
  OBVIOUS
<1>2. \A a \in S : <<a, a>> \notin before
  BY <1>1
<1>3. ASSUME NEW a \in S, NEW b \in S, a # b
      PROVE  <<a, b>> \in before \/ <<b, a>> \in before
  BY <1>1, <1>3
<1>4. ASSUME NEW a \in S, NEW b \in S, NEW c \in S, <<a, b>> \in before, <<b, c>> \in before
      PROVE  <<a, c>> \in before
  <2>1. PICK fa \in Int, fb \in Int, fc \in Int : fa = f[a] /\ fb = f[b] /\ fc = f[c]
    BY <1>1
  <2>2. PICK ga \in Int, gb \in Int, gc \in Int : ga = g[a] /\ gb = g[b] /\ gc = g[c]
    BY <1>1
  <2>3. (fa < fb \/ (fa = fb /\ ga < gb)) /\ (fb < fc \/ (fb = fc /\ gb < gc))
    BY <1>4, <2>1, <2>2
  <2>4. fa < fc \/ (fa = fc /\ ga < gc)
    BY <2>3
  <2> QED
    BY <2>1, <2>2, <2>4
<1> QED
  BY <1>2, <1>3, <1>4 DEF Orders

LEMMA NumbersInOrder ==
    ASSUME NEW S \in SUBSET Int, IsFiniteSet(S)
    PROVE  Orders(S, ByNumber(S))
<1> DEFINE f == [a \in S |-> a]
<1>1. f \in [S -> Int] /\ \A a \in S : f[a] = a /\ a \in Int
  OBVIOUS
<1>2. \A a, b \in S : <<a, b>> \in ByNumber(S) <=> a < b
  BY DEF ByNumber
<1>3. \A a, b \in S : <<a, b>> \in ByNumber(S) <=> f[a] < f[b] \/ (f[a] = f[b] /\ f[a] < f[b])
  BY <1>1, <1>2
<1>4. \A a, b \in S : f[a] = f[b] /\ f[a] = f[b] => a = b
  BY <1>1
<1> HIDE DEF f
<1>5. f \in [S -> Int]
  BY <1>1, Zenon
<1> QED
  BY <1>3, <1>4, <1>5, OrderedByTwo

(* No two numbers have one text.                                           *)
LEMMA TextRankIs ==
    ASSUME NEW a \in Nat, NEW b \in Nat
    PROVE  TextRank(a) \in Int /\ (TextRank(a) = TextRank(b) => a = b)
<1> DEFINE rank(n) == \/ n < 10 /\ TextRank(n) = 10000000 * n - 1000
                      \/ n > 9 /\ n < 100 /\ TextRank(n) = 1000000 * n - 100
                      \/ n > 99 /\ n < 1000 /\ TextRank(n) = 100000 * n - 10
                      \/ n > 999 /\ TextRank(n) = 10000 * n - 1
<1>1. ASSUME NEW n \in Nat
      PROVE  rank(n)
  <2>1. CASE n < 10
    BY <2>1 DEF TextRank
  <2>2. CASE n > 9 /\ n < 100
    BY <2>2 DEF TextRank
  <2>3. CASE n > 99 /\ n < 1000
    BY <2>3 DEF TextRank
  <2>4. CASE n > 999
    BY <2>4 DEF TextRank
  <2> QED
    BY <2>1, <2>2, <2>3, <2>4
<1>2. rank(a) /\ rank(b)
  BY <1>1
<1> QED
  BY <1>2

(* What is asked of the times of a trip.                                   *)
IsCalls(net, times) ==
    /\ times \in Seq(Range(times))
    /\ \A i \in DOMAIN times :
          /\ times[i].stop \in net.stops /\ times[i].seq \in Nat /\ times[i].seq < 10000
          /\ times[i].arr \in Int /\ times[i].dep \in Int
    /\ \A i, j \in DOMAIN times :
          /\ times[i].seq = times[j].seq => i = j
          /\ Succeeding(times, i, j) => times[i].dep <= times[j].arr + Midnight

LEMMA NetworkCalls ==
    ASSUME NEW net, IsNetwork(net), NEW t \in DOMAIN net.trips
    PROVE  IsCalls(net, net.trips[t].times) /\ t \in Int /\ net.trips[t].route \in DOMAIN net.routes
<1>1. t \in Int
  BY DEF IsNetwork, AreNumbers
<1>2. net.trips[t].route \in DOMAIN net.routes
  BY DEF IsNetwork
<1>3. IsCalls(net, net.trips[t].times)
  BY DEF IsNetwork, IsCalls
<1> QED
  BY <1>1, <1>2, <1>3

IsHalt(net, c) == \E t \in DOMAIN net.trips : \E i \in DOMAIN net.trips[t].times : c = <<t, i>>

LEMMA HaltsAre ==
    ASSUME NEW net, IsNetwork(net)
    PROVE  /\ IsFiniteSet(Halts(net))
           /\ \A c : c \in Halts(net) <=> IsHalt(net, c)
<1> DEFINE D == DOMAIN net.trips
           of(t) == {t} \X DOMAIN net.trips[t].times
           f == [t \in D |-> of(t)]
           sets == {of(t) : t \in D}
<1>1. IsFiniteSet(D)
  BY DEF IsNetwork, AreNumbers
<1>2. \A t \in D : IsFiniteSet(of(t))
  <2> SUFFICES ASSUME NEW t \in D
               PROVE  IsFiniteSet(of(t))
    OBVIOUS
  <2>1. PICK times : times = net.trips[t].times
    OBVIOUS
  <2>2. PICK N \in Nat : DOMAIN times = 1..N
    <3>1. IsCalls(net, times)
      BY <2>1, NetworkCalls
    <3>2. PICK N \in Nat : Counts(times, N)
      BY <3>1, SeqCounts DEF IsCalls
    <3> QED
      BY <3>2 DEF Counts
  <2>3. IsFiniteSet(1..N)
    BY <2>2, FS_Interval
  <2>4. IsFiniteSet({t})
    BY FS_Singleton
  <2>5. IsFiniteSet({t} \X (1..N))
    BY <2>3, <2>4, FS_Product
  <2> QED
    BY <2>1, <2>2, <2>5
<1>3. IsFiniteSet(sets)
  <2>1. f \in Surjection(D, sets)
    BY DEF Surjection
  <2> HIDE DEF f, sets
  <2> QED
    BY <1>1, <2>1, FS_Surjection
<1>4. \A T \in sets : IsFiniteSet(T)
  BY <1>2
<1>5. Halts(net) = UNION sets
  BY DEF Halts
<1>6. IsFiniteSet(Halts(net))
  <2> HIDE DEF sets
  <2> QED
    BY <1>3, <1>4, <1>5, FS_UNION
<1>7. \A c : c \in Halts(net) <=> IsHalt(net, c)
  BY DEF Halts, IsHalt
<1> QED
  BY <1>6, <1>7

LEMMA HaltsInOrder ==
    ASSUME NEW net, IsNetwork(net), NEW before, before = ByText(net) \/ before = ByPlace(net)
    PROVE  Orders(Halts(net), before)
<1> DEFINE S == Halts(net)
           f == [c \in S |-> c[1]]
           text == [c \in S |-> TextRank(HaltOf(net, c).seq)]
           place == [c \in S |-> c[2]]
<1>1. ASSUME NEW c \in S
      PROVE  /\ c = <<c[1], c[2]>> /\ c[1] \in DOMAIN net.trips /\ c[1] \in Int /\ c[2] \in Int
             /\ c[2] \in DOMAIN net.trips[c[1]].times
             /\ IsCalls(net, net.trips[c[1]].times)
  <2>1. PICK t \in DOMAIN net.trips : \E i \in DOMAIN net.trips[t].times : c = <<t, i>>
    BY HaltsAre DEF IsHalt
  <2>5. PICK i \in DOMAIN net.trips[t].times : c = <<t, i>>
    BY <2>1
  <2>2. IsCalls(net, net.trips[t].times) /\ t \in Int
    BY NetworkCalls
  <2>3. PICK times : times = net.trips[t].times
    OBVIOUS
  <2>6. PICK N \in Nat : Counts(times, N)
    <3>1. times \in Seq(Range(times))
      BY <2>2, <2>3 DEF IsCalls
    <3> QED
      BY <3>1, SeqCounts
  <2>4. i \in Int
    BY <2>3, <2>6 DEF Counts
  <2> QED
    BY <2>2, <2>4, <2>5
<1>2. \A c \in S : HaltOf(net, c).seq \in Nat
  <2> SUFFICES ASSUME NEW c \in S
               PROVE  HaltOf(net, c).seq \in Nat
    OBVIOUS
  <2>1. PICK times, i : times = net.trips[c[1]].times /\ i = c[2]
    OBVIOUS
  <2>2. IsCalls(net, times) /\ i \in DOMAIN times
    BY <1>1, <2>1
  <2>3. times[i].seq \in Nat /\ times[i].seq < 10000
    BY <2>2 DEF IsCalls
  <2> QED
    BY <2>1, <2>3 DEF HaltOf
<1>3. f \in [S -> Int] /\ place \in [S -> Int]
  BY <1>1
<1>4. text \in [S -> Int]
  <2>1. ASSUME NEW c \in S
        PROVE  TextRank(HaltOf(net, c).seq) \in Int
    <3>1. PICK q \in Nat : q = HaltOf(net, c).seq
      BY <1>2
    <3> QED
      BY <3>1, TextRankIs
  <2> QED
    BY <2>1
<1>5. \A a, b \in S : f[a] = f[b] /\ place[a] = place[b] => a = b
  BY <1>1
<1>6. ASSUME NEW a \in S, NEW b \in S, f[a] = f[b], text[a] = text[b]
      PROVE  a = b
  <2>1. HaltOf(net, a).seq = HaltOf(net, b).seq
    <3>1. PICK p \in Nat, q \in Nat : p = HaltOf(net, a).seq /\ q = HaltOf(net, b).seq
      BY <1>2
    <3>2. TextRank(p) = TextRank(q)
      BY <1>6, <3>1
    <3> QED
      BY <3>1, <3>2, TextRankIs
  <2>2. PICK times : times = net.trips[a[1]].times
    OBVIOUS
  <2>3. a[1] = b[1]
    BY <1>6
  <2>4. times[a[2]].seq = times[b[2]].seq
    BY <2>1, <2>2, <2>3 DEF HaltOf
  <2>5. IsCalls(net, times) /\ a[2] \in DOMAIN times /\ b[2] \in DOMAIN times
    BY <1>1, <2>2, <2>3
  <2>6. a[2] = b[2]
    BY <2>4, <2>5 DEF IsCalls
  <2> QED
    BY <1>1, <2>3, <2>6
<1>7. \A a, b \in S : <<a, b>> \in ByText(net) <=> f[a] < f[b] \/ (f[a] = f[b] /\ text[a] < text[b])
  BY DEF ByText
<1>8. \A a, b \in S : <<a, b>> \in ByPlace(net) <=> f[a] < f[b] \/ (f[a] = f[b] /\ place[a] < place[b])
  BY DEF ByPlace
<1>9. IsFiniteSet(S)
  BY HaltsAre
<1> HIDE DEF S, f, text, place
<1>10. Orders(S, ByText(net))
  BY <1>3, <1>4, <1>6, <1>7, <1>9, OrderedByTwo
<1>11. Orders(S, ByPlace(net))
  BY <1>3, <1>5, <1>8, <1>9, OrderedByTwo
<1> QED
  BY <1>10, <1>11 DEF S

(* Every member of a set is at one place of a list, and nothing else is.   *)
Permutes(e, n, S) ==
    /\ e \in [1..n -> S]
    /\ \A a \in S : \E k \in 1..n : e[k] = a
    /\ \A i, j \in 1..n : e[i] = e[j] => i = j

LEMMA ListsPermute ==
    ASSUME NEW S, NEW before, Orders(S, before)
    PROVE  \E n \in Nat : Permutes(InOrder(S, before), n, S)
<1>0. PICK e : e = InOrder(S, before)
  OBVIOUS
<1>1. PICK n \in Nat : Lists(e, n, S, before)
  BY <1>0, InOrderIs
<1>2. ASSUME NEW i \in 1..n, NEW j \in 1..n, e[i] = e[j]
      PROVE  i = j
  <2>1. e[i] \in S /\ <<e[i], e[j]>> \notin before /\ <<e[j], e[i]>> \notin before
    BY <1>1, <1>2 DEF Lists, Orders
  <2>2. ~(i < j) /\ ~(j < i)
    BY <1>1, <2>1 DEF Lists
  <2> QED
    BY <2>2
<1>3. Permutes(e, n, S)
  BY <1>1, <1>2 DEF Permutes, Lists
<1> QED
  BY <1>0, <1>3

TimeRowOf(net, c) ==
    [trip |-> c[1], stop |-> HaltOf(net, c).stop, seq |-> HaltOf(net, c).seq,
     arr |-> HaltOf(net, c).arr, dep |-> HaltOf(net, c).dep]

(* The times of a feed are those of the network.                           *)
BearsTimes(feed, net, n, e) ==
    /\ Permutes(e, n, Halts(net))
    /\ feed.stop_times = [k \in 1..n |-> TimeRowOf(net, e[k])]

LEMMA TimeRowsAre ==
    ASSUME NEW net, IsNetwork(net), NEW before, before = ByText(net) \/ before = ByPlace(net)
    PROVE  \E n \in Nat : \E e : /\ Permutes(e, n, Halts(net))
                                 /\ TimeRows(net, before) = [k \in 1..n |-> TimeRowOf(net, e[k])]
<1>1. Orders(Halts(net), before)
  BY HaltsInOrder
<1>2. PICK e : e = InOrder(Halts(net), before)
  OBVIOUS
<1>3. PICK n \in Nat : Permutes(e, n, Halts(net))
  BY <1>1, <1>2, ListsPermute
<1>4. DOMAIN e = 1..n
  BY <1>3 DEF Permutes
<1>5. TimeRows(net, before) = [k \in 1..n |-> TimeRowOf(net, e[k])]
  BY <1>2, <1>4 DEF TimeRows, TimeRowOf
<1> QED
  BY <1>3, <1>5

SeqOrder(times) ==
    {p \in (DOMAIN times) \X (DOMAIN times) : times[p[1]].seq < times[p[2]].seq}

LEMMA SeqsInOrder ==
    ASSUME NEW net, NEW times, IsCalls(net, times)
    PROVE  /\ Orders(DOMAIN times, SeqOrder(times))
           /\ \A a, b \in DOMAIN times : <<a, b>> \in SeqOrder(times) <=> times[a].seq < times[b].seq
<1> DEFINE D == DOMAIN times
           f == [a \in D |-> times[a].seq]
<1>1. PICK N \in Nat : D = 1..N
  <2>1. PICK N \in Nat : Counts(times, N)
    BY SeqCounts DEF IsCalls
  <2> QED
    BY <2>1 DEF Counts
<1>2. IsFiniteSet(D)
  BY <1>1, FS_Interval
<1>3. f \in [D -> Int] /\ \A a \in D : f[a] = times[a].seq
  BY DEF IsCalls
<1>4. \A a, b \in D : f[a] = f[b] /\ f[a] = f[b] => a = b
  BY <1>3 DEF IsCalls
<1>5. \A a, b \in D : <<a, b>> \in SeqOrder(times) <=> f[a] < f[b]
  BY <1>3 DEF SeqOrder
<1> HIDE DEF D, f
<1>6. \A a, b \in D : <<a, b>> \in SeqOrder(times) <=> f[a] < f[b] \/ (f[a] = f[b] /\ f[a] < f[b])
  BY <1>3, <1>5
<1>7. f \in [D -> Int]
  BY <1>3
<1>8. Orders(D, SeqOrder(times))
  BY <1>2, <1>4, <1>6, <1>7, OrderedByTwo
<1> QED
  BY <1>3, <1>5, <1>8 DEF D

(* A trip read back has its times in the order of their numbers.           *)
TripRead(net, t, m, w, times, read) ==
    /\ Lists(w, m, DOMAIN times, SeqOrder(times))
    /\ read = [k \in 1..m |-> TimeRowOf(net, <<t, w[k]>>)]

LEMMA TripIsRead ==
    ASSUME NEW net, IsNetwork(net), NEW feed, NEW n \in Nat, NEW e, BearsTimes(feed, net, n, e),
           NEW t \in DOMAIN net.trips, NEW times, times = net.trips[t].times
    PROVE  \E m \in Nat : \E w : TripRead(net, t, m, w, times, LoadTimes(feed, t))
<1> DEFINE list == feed.stop_times
           K == {k \in 1..n : e[k][1] = t}
           f == [k \in K |-> list[k].seq]
           g == [k \in K |-> k]
           D == DOMAIN times
<1>1. IsCalls(net, times)
  BY NetworkCalls
<1>2. \A k \in 1..n : list[k] = TimeRowOf(net, e[k]) /\ list[k].trip = e[k][1]
  BY DEF BearsTimes, TimeRowOf
<1>3. DOMAIN list = 1..n
  BY DEF BearsTimes
<1>4. ASSUME NEW k \in K
      PROVE  /\ k \in 1..n /\ e[k] = <<t, e[k][2]>> /\ e[k][2] \in D
             /\ list[k].seq = times[e[k][2]].seq /\ list[k].seq \in Int
  <2>1. e[k] \in Halts(net)
    BY DEF BearsTimes, Permutes
  <2>2. PICK u \in DOMAIN net.trips : \E i \in DOMAIN net.trips[u].times : e[k] = <<u, i>>
    BY <2>1, HaltsAre DEF IsHalt
  <2>3. PICK i \in DOMAIN net.trips[u].times : e[k] = <<u, i>>
    BY <2>2
  <2>4. u = t /\ e[k][2] = i /\ i \in D
    BY <2>3
  <2>5. list[k].seq = times[i].seq
    <3>1. PICK c : c = e[k]
      OBVIOUS
    <3>2. c = <<t, i>> /\ list[k] = TimeRowOf(net, c)
      BY <1>2, <2>3, <2>4, <3>1
    <3>3. HaltOf(net, c) = times[i]
      BY <3>2 DEF HaltOf
    <3>4. list[k].seq = HaltOf(net, c).seq
      BY <3>2 DEF TimeRowOf
    <3> QED
      BY <3>3, <3>4
  <2> QED
    BY <1>1, <2>3, <2>4, <2>5 DEF IsCalls
<1>5. \A a, b \in K : f[a] = f[b] /\ g[a] = g[b] => a = b
  OBVIOUS
<1>6. f \in [K -> Int] /\ g \in [K -> Int]
  BY <1>4
<1>7. \A a, b \in K : <<a, b>> \in BySeq(list, K) <=> f[a] < f[b] \/ (f[a] = f[b] /\ g[a] < g[b])
  BY DEF BySeq
<1>8. IsFiniteSet(K)
  <2>1. IsFiniteSet(1..n) /\ K \in SUBSET (1..n)
    BY FS_Interval
  <2> QED
    BY <2>1, FS_Subset
<1>9. {k \in DOMAIN list : list[k].trip = t} = K
  BY <1>2, <1>3
<1> HIDE DEF K, f, g, list
<1>10. Orders(K, BySeq(list, K))
  BY <1>5, <1>6, <1>7, <1>8, OrderedByTwo
<1>11. PICK s : s = InOrder(K, BySeq(list, K))
  OBVIOUS
<1>12. PICK m \in Nat : Lists(s, m, K, BySeq(list, K))
  BY <1>10, <1>11, InOrderIs
<1> DEFINE w == [k \in 1..m |-> e[s[k]][2]]
<1>13. s \in [1..m -> K]
  BY <1>12 DEF Lists
<1>14. LoadTimes(feed, t) = [k \in 1..m |-> list[s[k]]]
  <2>1. LoadTimes(feed, t) = [k \in DOMAIN InOrder(K, BySeq(list, K)) |-> list[InOrder(K, BySeq(list, K))[k]]]
    BY <1>9 DEF LoadTimes, list
  <2> QED
    BY <1>11, <1>13, <2>1
<1>15. \A k \in 1..m : s[k] \in K /\ w[k] = e[s[k]][2] /\ w[k] \in D /\ e[s[k]] = <<t, w[k]>>
  BY <1>4, <1>13
<1>16. w \in [1..m -> D]
  BY <1>15
<1>17. ASSUME NEW i \in D
       PROVE  \E k \in 1..m : w[k] = i
  <2>1. <<t, i>> \in Halts(net)
    BY HaltsAre DEF IsHalt
  <2>2. PICK k \in 1..n : e[k] = <<t, i>>
    BY <2>1 DEF BearsTimes, Permutes
  <2>3. k \in K
    BY <2>2 DEF K
  <2>4. PICK j \in 1..m : s[j] = k
    BY <1>12, <2>3 DEF Lists
  <2> QED
    BY <1>15, <2>2, <2>4
<1> HIDE DEF w
<1>18. ASSUME NEW i \in 1..m, NEW j \in 1..m
       PROVE  i < j <=> <<w[i], w[j]>> \in SeqOrder(times)
  <2>1. PICK a, b : a = s[i] /\ b = s[j]
    OBVIOUS
  <2>2. a \in K /\ b \in K /\ w[i] = e[a][2] /\ w[j] = e[b][2] /\ w[i] \in D /\ w[j] \in D
        /\ e[a] = <<t, w[i]>> /\ e[b] = <<t, w[j]>>
    BY <1>15, <2>1
  <2>3. list[a].seq = times[w[i]].seq /\ list[b].seq = times[w[j]].seq /\ a \in 1..n /\ b \in 1..n
        /\ list[a].seq \in Int /\ list[b].seq \in Int
    BY <1>4, <2>2
  <2>4. i < j <=> <<a, b>> \in BySeq(list, K)
    BY <1>12, <2>1 DEF Lists
  <2>5. <<a, b>> \in BySeq(list, K)
          <=> list[a].seq < list[b].seq \/ (list[a].seq = list[b].seq /\ a < b)
    BY <2>2 DEF BySeq
  <2>6. list[a].seq = list[b].seq => a = b
    <3>1. list[a].seq = list[b].seq => w[i] = w[j]
      <4>1. PICK p, q : p = w[i] /\ q = w[j]
        OBVIOUS
      <4>2. p \in DOMAIN times /\ q \in DOMAIN times
        BY <2>2, <4>1
      <4>3. times[p].seq = times[q].seq => p = q
        BY <1>1, <4>2 DEF IsCalls
      <4> QED
        BY <2>3, <4>1, <4>3
    <3>2. w[i] = w[j] => e[a] = e[b]
      BY <2>2
    <3>3. e[a] = e[b] => a = b
      BY <2>3 DEF BearsTimes, Permutes
    <3> QED
      BY <3>1, <3>2, <3>3
  <2>7. <<w[i], w[j]>> \in SeqOrder(times) <=> times[w[i]].seq < times[w[j]].seq
    BY <1>1, <2>2, SeqsInOrder
  <2> QED
    BY <2>3, <2>4, <2>5, <2>6, <2>7
<1>19. Lists(w, m, D, SeqOrder(times))
  BY <1>16, <1>17, <1>18 DEF Lists
<1>20. \A k \in 1..m : list[s[k]] = TimeRowOf(net, <<t, w[k]>>)
  BY <1>2, <1>4, <1>15
<1>21. LoadTimes(feed, t) = [k \in 1..m |-> TimeRowOf(net, <<t, w[k]>>)]
  BY <1>14, <1>20
<1> QED
  BY <1>19, <1>21 DEF TripRead

IsRide(t, times, c) ==
    \E a \in DOMAIN times : \E b \in DOMAIN times :
        Succeeding(times, a, b) /\ c = Connection(t, times[a], times[b])

(* The rides of a trip lead from each stop to the next by their numbers.   *)
LEMMA TripRides ==
    ASSUME NEW net, IsNetwork(net), NEW t \in DOMAIN net.trips, NEW times, times = net.trips[t].times,
           NEW m \in Nat, NEW w, NEW read, TripRead(net, t, m, w, times, read)
    PROVE  \A c : c \in BuildConnections(t, read) <=> IsRide(t, times, c)
<1> DEFINE D == DOMAIN times
           before == SeqOrder(times)
<1>1. IsCalls(net, times)
  BY NetworkCalls
<1>2. Orders(D, before) /\ \A a, b \in D : <<a, b>> \in before <=> times[a].seq < times[b].seq
  BY <1>1, SeqsInOrder
<1>3. \A a, b \in D : Succeeding(times, a, b) <=> IsNext(D, before, a, b)
  BY <1>2 DEF Succeeding, IsNext
<1>4. Len(read) = m
  BY DEF TripRead
<1>5. w \in [1..m -> D] /\ Lists(w, m, D, before)
  BY DEF TripRead, Lists
<1> HIDE DEF before
<1>6. ASSUME NEW k \in 1..(m - 1)
      PROVE  Connection(t, read[k], read[k + 1]) = Connection(t, times[w[k]], times[w[k + 1]])
  <2>1. ASSUME NEW i \in 1..m
        PROVE  /\ read[i].stop = times[w[i]].stop /\ read[i].dep = times[w[i]].dep
               /\ read[i].arr = times[w[i]].arr
    <3>1. PICK c : c = <<t, w[i]>>
      OBVIOUS
    <3>2. HaltOf(net, c) = times[w[i]]
      BY <3>1 DEF HaltOf
    <3>3. read[i] = TimeRowOf(net, c)
      BY <3>1 DEF TripRead
    <3> QED
      BY <3>2, <3>3 DEF TimeRowOf
  <2>2. k \in 1..m /\ k + 1 \in 1..m
    OBVIOUS
  <2>3. PICK p, q : p = read[k] /\ q = read[k + 1]
    OBVIOUS
  <2>4. PICK x, y : x = times[w[k]] /\ y = times[w[k + 1]]
    OBVIOUS
  <2>5. /\ p.stop = x.stop /\ p.dep = x.dep /\ p.arr = x.arr
        /\ q.stop = y.stop /\ q.dep = y.dep /\ q.arr = y.arr
    BY <2>1, <2>2, <2>3, <2>4
  <2>6. Connection(t, p, q) = Connection(t, x, y)
    BY <2>5 DEF Connection
  <2> QED
    BY <2>3, <2>4, <2>6
<1>7. ASSUME NEW c \in BuildConnections(t, read)
      PROVE  IsRide(t, times, c)
  <2>1. PICK k \in 1..(m - 1) : c = Connection(t, read[k], read[k + 1])
    BY <1>4 DEF BuildConnections
  <2>2. PICK a \in D, b \in D : a = w[k] /\ b = w[k + 1]
    BY <1>5
  <2>3. a \in D /\ b \in D
    OBVIOUS
  <2>4. Succeeding(times, a, b)
    <3>1. FollowsIn(w, m, a, b)
      BY <2>2 DEF FollowsIn
    <3>2. IsNext(D, before, a, b)
      BY <1>2, <1>5, <3>1, ListedNext
    <3> QED
      BY <1>3, <2>3, <3>2
  <2>5. c = Connection(t, times[a], times[b])
    BY <1>6, <2>1, <2>2
  <2> QED
    BY <2>3, <2>4, <2>5 DEF IsRide
<1>8. ASSUME NEW c, IsRide(t, times, c)
      PROVE  c \in BuildConnections(t, read)
  <2>1. PICK a \in D : \E b \in D : Succeeding(times, a, b) /\ c = Connection(t, times[a], times[b])
    BY <1>8 DEF IsRide
  <2>2. PICK b \in D : Succeeding(times, a, b) /\ c = Connection(t, times[a], times[b])
    BY <2>1
  <2>3. PICK k \in 1..(m - 1) : w[k] = a /\ w[k + 1] = b
    <3>1. IsNext(D, before, a, b)
      BY <1>3, <2>2
    <3>2. FollowsIn(w, m, a, b)
      BY <1>2, <1>5, <3>1, ListedNext
    <3> QED
      BY <3>2 DEF FollowsIn
  <2>4. c = Connection(t, read[k], read[k + 1])
    BY <1>6, <2>2, <2>3
  <2> QED
    BY <1>4, <2>4 DEF BuildConnections
<1> QED
  BY <1>7, <1>8

BearsTrips(feed, net) ==
    \A t : t \in DOMAIN net.trips <=> \E i \in DOMAIN feed.trips : feed.trips[i].id = t

LEMMA RidesRead ==
    ASSUME NEW net, IsNetwork(net), NEW feed, NEW n \in Nat, NEW e, BearsTimes(feed, net, n, e),
           BearsTrips(feed, net), "stops" \notin feed.unreadable
    PROVE  \A c : c \in Load(feed).connections
                    <=> \E t \in DOMAIN net.trips : IsRide(t, net.trips[t].times, c)
<1>1. \A t \in DOMAIN net.trips : \A c :
        c \in BuildConnections(t, LoadTimes(feed, t)) <=> IsRide(t, net.trips[t].times, c)
  <2> SUFFICES ASSUME NEW t \in DOMAIN net.trips
               PROVE  \A c : c \in BuildConnections(t, LoadTimes(feed, t)) <=> IsRide(t, net.trips[t].times, c)
    OBVIOUS
  <2>1. PICK times, read : times = net.trips[t].times /\ read = LoadTimes(feed, t)
    OBVIOUS
  <2>2. PICK m \in Nat : \E w : TripRead(net, t, m, w, times, read)
    BY <2>1, TripIsRead
  <2>3. PICK w : TripRead(net, t, m, w, times, read)
    BY <2>2
  <2>4. \A c : c \in BuildConnections(t, read) <=> IsRide(t, times, c)
    BY <2>1, <2>3, TripRides
  <2> QED
    BY <2>1, <2>4
<1>2. \A c : c \in Load(feed).connections
               <=> \E t \in DOMAIN net.trips : c \in BuildConnections(t, LoadTimes(feed, t))
  <2>1. Load(feed).connections
          = UNION {BuildConnections(feed.trips[i].id, LoadTimes(feed, feed.trips[i].id)) :
                       i \in DOMAIN feed.trips}
    BY DEF Load
  <2> QED
    BY <2>1 DEF BearsTrips
<1> QED
  BY <1>1, <1>2

LEMMA RidesAreKept ==
    ASSUME NEW net, IsNetwork(net), NEW feed, NEW n \in Nat, NEW e, BearsTimes(feed, net, n, e),
           BearsTrips(feed, net), "stops" \notin feed.unreadable
    PROVE  /\ {<<c.trip, c.from, c.to, c.dep>> : c \in Load(feed).connections} = RidesOf(net)
           /\ \A c \in Load(feed).connections : c.dep <= c.arr
<1>1. PICK all : all = Load(feed).connections
  OBVIOUS
<1>2. \A c : c \in all <=> \E t \in DOMAIN net.trips : IsRide(t, net.trips[t].times, c)
  BY <1>1, RidesRead
<1> DEFINE rides(t) ==
        {<<t, net.trips[t].times[p[1]].stop, net.trips[t].times[p[2]].stop, net.trips[t].times[p[1]].dep>> :
            p \in {q \in (DOMAIN net.trips[t].times) \X (DOMAIN net.trips[t].times) :
                        Succeeding(net.trips[t].times, q[1], q[2])}}
<1>3. RidesOf(net) = UNION {rides(t) : t \in DOMAIN net.trips}
  BY DEF RidesOf
<1>4. ASSUME NEW t, NEW r
      PROVE  r \in rides(t) <=> \E c : IsRide(t, net.trips[t].times, c) /\ r = <<c.trip, c.from, c.to, c.dep>>
  <2>1. PICK times : times = net.trips[t].times
    OBVIOUS
  <2>2. r \in rides(t) <=>
          \E a \in DOMAIN times : \E b \in DOMAIN times :
              Succeeding(times, a, b) /\ r = <<t, times[a].stop, times[b].stop, times[a].dep>>
    <3> DEFINE P == {q \in (DOMAIN times) \X (DOMAIN times) : Succeeding(times, q[1], q[2])}
    <3>1. r \in rides(t) <=>
            \E p \in P : r = <<t, times[p[1]].stop, times[p[2]].stop, times[p[1]].dep>>
      BY <2>1
    <3>2. \A p \in P : p[1] \in DOMAIN times /\ p[2] \in DOMAIN times /\ Succeeding(times, p[1], p[2])
      OBVIOUS
    <3>3. ASSUME NEW a \in DOMAIN times, NEW b \in DOMAIN times, Succeeding(times, a, b)
          PROVE  \E p \in P : p[1] = a /\ p[2] = b
      <4>1. PICK p : p = <<a, b>>
        OBVIOUS
      <4>2. p \in P /\ p[1] = a /\ p[2] = b
        BY <3>3, <4>1
      <4> QED
        BY <4>2
    <3> HIDE DEF P, rides
    <3> QED
      BY <3>1, <3>2, <3>3
  <2>3. \A a, b : LET c == Connection(t, times[a], times[b])
                  IN c.trip = t /\ c.from = times[a].stop /\ c.to = times[b].stop /\ c.dep = times[a].dep
    BY DEF Connection
  <2>4. ASSUME NEW c, IsRide(t, times, c)
        PROVE  \E a \in DOMAIN times : \E b \in DOMAIN times :
                  Succeeding(times, a, b)
                  /\ <<c.trip, c.from, c.to, c.dep>> = <<t, times[a].stop, times[b].stop, times[a].dep>>
    BY <2>3, <2>4 DEF IsRide
  <2>5. ASSUME NEW a \in DOMAIN times, NEW b \in DOMAIN times, Succeeding(times, a, b),
               r = <<t, times[a].stop, times[b].stop, times[a].dep>>
        PROVE  \E c : IsRide(t, times, c) /\ r = <<c.trip, c.from, c.to, c.dep>>
    <3>1. PICK c : c = Connection(t, times[a], times[b])
      OBVIOUS
    <3>2. IsRide(t, times, c)
      BY <2>5, <3>1 DEF IsRide
    <3>3. r = <<c.trip, c.from, c.to, c.dep>>
      BY <2>3, <2>5, <3>1
    <3> QED
      BY <3>2, <3>3
  <2> HIDE DEF rides
  <2> QED
    BY <2>1, <2>2, <2>4, <2>5
<1> HIDE DEF rides
<1>5. \A r : r \in {<<c.trip, c.from, c.to, c.dep>> : c \in all} <=> r \in RidesOf(net)
  <2>1. \A r : r \in RidesOf(net) <=> \E t \in DOMAIN net.trips : r \in rides(t)
    BY <1>3
  <2>2. \A r : r \in {<<c.trip, c.from, c.to, c.dep>> : c \in all}
                 <=> \E c \in all : r = <<c.trip, c.from, c.to, c.dep>>
    OBVIOUS
  <2> QED
    BY <1>2, <1>4, <2>1, <2>2
<1>6. {<<c.trip, c.from, c.to, c.dep>> : c \in all} = RidesOf(net)
  BY <1>5
<1>7. ASSUME NEW c \in all
      PROVE  c.dep <= c.arr
  <2>1. PICK t \in DOMAIN net.trips : IsRide(t, net.trips[t].times, c)
    BY <1>2
  <2>2. PICK times : times = net.trips[t].times /\ IsRide(t, times, c)
    BY <2>1
  <2>3. IsCalls(net, times)
    BY <2>2, NetworkCalls
  <2>4. PICK a \in DOMAIN times : \E b \in DOMAIN times :
          Succeeding(times, a, b) /\ c = Connection(t, times[a], times[b])
    BY <2>2 DEF IsRide
  <2>5. PICK b \in DOMAIN times : Succeeding(times, a, b) /\ c = Connection(t, times[a], times[b])
    BY <2>4
  <2>6. times[a].dep \in Int /\ times[b].arr \in Int /\ times[a].dep <= times[b].arr + Midnight
    BY <2>3, <2>5 DEF IsCalls
  <2>7. Midnight \in Nat
    BY GtfsFeedAssumption
  <2>8. c.dep = times[a].dep
        /\ c.arr = IF times[b].arr < times[a].dep THEN times[b].arr + Midnight ELSE times[b].arr
    BY <2>5 DEF Connection
  <2> QED
    BY <2>6, <2>7, <2>8
<1> QED
  BY <1>1, <1>6, <1>7

(* The rows of a file, one for each of a set of numbers.                   *)
HasIds(list, S) ==
    /\ list \in Seq(Range(list))
    /\ \A v : v \in S <=> \E i \in DOMAIN list : list[i].id = v

LEMMA ListedIs ==
    ASSUME NEW n \in Nat, NEW f, f = [k \in 1..n |-> f[k]]
    PROVE  f \in Seq(Range(f)) /\ DOMAIN f = 1..n
<1>1. DOMAIN f = 1..n
  OBVIOUS
<1>2. \A k \in 1..n : f[k] \in Range(f)
  BY <1>1 DEF Range
<1>3. f \in [1..n -> Range(f)]
  BY <1>1, <1>2
<1> QED
  BY <1>1, <1>3

LEMMA IdsOfNumbers ==
    ASSUME NEW S, AreNumbers(S), NEW rows, rows = InOrder(S, ByNumber(S)),
           NEW list, DOMAIN list = DOMAIN rows, list = [k \in DOMAIN list |-> list[k]],
           \A k \in DOMAIN rows : list[k].id = rows[k]
    PROVE  HasIds(list, S)
<1>1. Orders(S, ByNumber(S))
  BY NumbersInOrder DEF AreNumbers
<1>2. PICK n \in Nat : Permutes(rows, n, S)
  BY <1>1, ListsPermute
<1>3. DOMAIN rows = 1..n /\ \A k \in 1..n : rows[k] \in S
  BY <1>2 DEF Permutes
<1>4. list \in Seq(Range(list))
  BY <1>3, ListedIs
<1>5. \A v \in S : \E k \in 1..n : rows[k] = v
  BY <1>2 DEF Permutes
<1> QED
  BY <1>3, <1>4, <1>5 DEF HasIds

LEMMA CompiledIs ==
    ASSUME NEW net, IsNetwork(net), NEW feed, feed = Compile(net)
    PROVE  /\ HasIds(feed.stops, net.stops) /\ HasIds(feed.routes, DOMAIN net.routes)
           /\ HasIds(feed.trips, DOMAIN net.trips) /\ HasIds(feed.calendar, Calendar(net))
           /\ feed.calendar_dates = <<>> /\ feed.frequencies = <<>>
           /\ feed.stop_times = TimeRows(net, ByText(net)) /\ feed.unreadable = {}
           /\ \A i \in DOMAIN feed.trips :
                 /\ feed.trips[i].route = net.trips[feed.trips[i].id].route
                 /\ feed.trips[i].service = Numbered(net.trips[feed.trips[i].id].service)
<1> DEFINE rows(S) == InOrder(S, ByNumber(S))
<1>1. PICK stops, routes, trips, days :
        /\ stops = rows(net.stops) /\ routes = rows(DOMAIN net.routes)
        /\ trips = rows(DOMAIN net.trips) /\ days = rows(Calendar(net))
  OBVIOUS
<1>2. /\ feed.stops = [k \in DOMAIN stops |-> [id |-> stops[k], code |-> stops[k]]]
      /\ feed.routes = [k \in DOMAIN routes |-> [id |-> routes[k], mode |-> RouteType(net.routes[routes[k]])]]
      /\ feed.trips = [k \in DOMAIN trips |-> [id |-> trips[k], route |-> net.trips[trips[k]].route,
                                               service |-> Numbered(net.trips[trips[k]].service)]]
      /\ feed.calendar = [k \in DOMAIN days |-> [id |-> days[k], days |-> {}, dates |-> <<>>]]
  BY <1>1 DEF Compile, Files
<1>3. /\ feed.calendar_dates = <<>> /\ feed.frequencies = <<>>
      /\ feed.stop_times = TimeRows(net, ByText(net)) /\ feed.unreadable = {}
  BY DEF Compile, Files
<1>4. /\ AreNumbers(net.stops) /\ AreNumbers(DOMAIN net.routes) /\ AreNumbers(DOMAIN net.trips)
      /\ AreNumbers(Calendar(net))
  <2>1. /\ AreNumbers(net.stops) /\ AreNumbers(DOMAIN net.routes) /\ AreNumbers(DOMAIN net.trips)
        /\ AreNumbers(net.services)
    BY DEF IsNetwork
  <2>2. AreNumbers({1})
    <3>1. IsFiniteSet({1})
      BY FS_Singleton
    <3> QED
      BY <3>1 DEF AreNumbers
  <2> QED
    BY <2>1, <2>2 DEF Calendar
<1>5. /\ \A k \in DOMAIN stops : feed.stops[k].id = stops[k]
      /\ \A k \in DOMAIN routes : feed.routes[k].id = routes[k]
      /\ \A k \in DOMAIN trips : feed.trips[k].id = trips[k]
      /\ \A k \in DOMAIN days : feed.calendar[k].id = days[k]
  BY <1>2
<1>6. /\ DOMAIN feed.stops = DOMAIN stops /\ feed.stops = [k \in DOMAIN feed.stops |-> feed.stops[k]]
      /\ DOMAIN feed.routes = DOMAIN routes /\ feed.routes = [k \in DOMAIN feed.routes |-> feed.routes[k]]
      /\ DOMAIN feed.trips = DOMAIN trips /\ feed.trips = [k \in DOMAIN feed.trips |-> feed.trips[k]]
      /\ DOMAIN feed.calendar = DOMAIN days
      /\ feed.calendar = [k \in DOMAIN feed.calendar |-> feed.calendar[k]]
  BY <1>2
<1>7. HasIds(feed.stops, net.stops)
  BY <1>1, <1>4, <1>5, <1>6, IdsOfNumbers
<1>8. HasIds(feed.routes, DOMAIN net.routes)
  BY <1>1, <1>4, <1>5, <1>6, IdsOfNumbers
<1>9. HasIds(feed.trips, DOMAIN net.trips)
  BY <1>1, <1>4, <1>5, <1>6, IdsOfNumbers
<1>10. HasIds(feed.calendar, Calendar(net))
  BY <1>1, <1>4, <1>5, <1>6, IdsOfNumbers
<1>11. \A i \in DOMAIN feed.trips :
          /\ feed.trips[i].route = net.trips[feed.trips[i].id].route
          /\ feed.trips[i].service = Numbered(net.trips[feed.trips[i].id].service)
  BY <1>2
<1> QED
  BY <1>3, <1>7, <1>8, <1>9, <1>10, <1>11

LEMMA RegionalIs ==
    ASSUME NEW net, IsNetwork(net), NEW feed, feed = BuildPerRegion(net)
    PROVE  /\ HasIds(feed.trips, DOMAIN net.trips) /\ feed.stop_times = TimeRows(net, ByPlace(net))
           /\ feed.unreadable = net.quoting
<1>1. PICK trips : trips = InOrder(DOMAIN net.trips, ByNumber(DOMAIN net.trips))
  OBVIOUS
<1>2. feed.trips = [k \in DOMAIN trips |-> [id |-> trips[k], route |-> net.trips[trips[k]].route,
                                            service |-> Unchanged(net.trips[trips[k]].service)]]
  BY <1>1 DEF BuildPerRegion, Files
<1>3. feed.stop_times = TimeRows(net, ByPlace(net)) /\ feed.unreadable = net.quoting
  BY DEF BuildPerRegion, Files
<1>4. AreNumbers(DOMAIN net.trips)
  BY DEF IsNetwork
<1>5. \A k \in DOMAIN trips : feed.trips[k].id = trips[k]
  BY <1>2
<1>6. DOMAIN feed.trips = DOMAIN trips /\ feed.trips = [k \in DOMAIN feed.trips |-> feed.trips[k]]
  BY <1>2
<1>7. HasIds(feed.trips, DOMAIN net.trips)
  BY <1>1, <1>4, <1>5, <1>6, IdsOfNumbers
<1> QED
  BY <1>3, <1>7

(* What both exports keep.                                                 *)
KeepsRides(read, net) ==
    /\ {<<c.trip, c.from, c.to, c.dep>> : c \in read.connections} = RidesOf(net)
    /\ \A c \in read.connections : c.dep <= c.arr

IsRead(read, net) == read.read => KeepsRides(read, net)

LEMMA BothKeepRides ==
    ASSUME NEW net, IsNetwork(net)
    PROVE  /\ IsRead(Load(Compile(net)), net) /\ Load(Compile(net)).read
           /\ IsRead(Load(BuildPerRegion(net)), net)
           /\ "stops" \notin net.quoting => Load(BuildPerRegion(net)).read
<1>0. \A feed : Load(feed).read <=> "stops" \notin feed.unreadable
  BY DEF Load
<1>1. ASSUME NEW feed, NEW before, before = ByText(net) \/ before = ByPlace(net),
             HasIds(feed.trips, DOMAIN net.trips), feed.stop_times = TimeRows(net, before)
      PROVE  IsRead(Load(feed), net)
  <2>1. PICK n \in Nat : \E e : Permutes(e, n, Halts(net))
                                /\ TimeRows(net, before) = [k \in 1..n |-> TimeRowOf(net, e[k])]
    BY <1>1, TimeRowsAre
  <2>2. PICK e : Permutes(e, n, Halts(net))
                 /\ TimeRows(net, before) = [k \in 1..n |-> TimeRowOf(net, e[k])]
    BY <2>1
  <2>3. BearsTimes(feed, net, n, e)
    BY <1>1, <2>2 DEF BearsTimes
  <2>4. BearsTrips(feed, net)
    BY <1>1 DEF HasIds, BearsTrips
  <2>5. CASE "stops" \notin feed.unreadable
    BY <2>3, <2>4, <2>5, RidesAreKept DEF KeepsRides, IsRead
  <2> QED
    BY <1>0, <2>5 DEF IsRead
<1>2. PICK compiled, regional : compiled = Compile(net) /\ regional = BuildPerRegion(net)
  OBVIOUS
<1>3. /\ HasIds(compiled.trips, DOMAIN net.trips) /\ compiled.stop_times = TimeRows(net, ByText(net))
      /\ compiled.unreadable = {}
  BY <1>2, CompiledIs
<1>4. /\ HasIds(regional.trips, DOMAIN net.trips) /\ regional.stop_times = TimeRows(net, ByPlace(net))
      /\ regional.unreadable = net.quoting
  BY <1>2, RegionalIs
<1>5. IsRead(Load(compiled), net)
  BY <1>1, <1>3
<1>6. IsRead(Load(regional), net)
  BY <1>1, <1>4
<1>7. Load(compiled).read /\ ("stops" \notin net.quoting => Load(regional).read)
  BY <1>0, <1>3, <1>4
<1> QED
  BY <1>2, <1>5, <1>6, <1>7

Widens(f, g) == DOMAIN f \subseteq DOMAIN g

(* What was read of a feed stays read.                                     *)
ReadOn(a, b) ==
    /\ Widens(a.stops, b.stops) /\ Widens(a.canon.services, b.canon.services)
    /\ a.routes \subseteq b.routes /\ Widens(a.trips, b.trips)
    /\ Widens(a.canon.times, b.canon.times)

(* A row that was read.                                                    *)
WasRead(s, step) ==
    /\ step[1] = "stops" => step[2].id \in DOMAIN s.stops
    /\ step[1] = "calendar" => step[2].id \in DOMAIN s.canon.services
    /\ step[1] = "routes" => step[2].id \in s.routes
    /\ step[1] = "trips" => step[2].id \in DOMAIN s.trips
    /\ step[1] = "stop_times" => \E key \in DOMAIN s.canon.times : key[1][2] = step[2].trip

LEMMA ReadStays ==
    ASSUME NEW a, NEW b, ReadOn(a, b), NEW step, WasRead(a, step)
    PROVE  WasRead(b, step)
  BY DEF ReadOn, WasRead, Widens

(* A row whose trip, route, stop and service were read before it.          *)
CanBeRead(s, step) ==
    /\ step[1] \in GtfsFiles \ {"calendar_dates", "frequencies"}
    /\ step[1] = "trips" =>
          step[2].route \in s.routes /\ step[2].service \in DOMAIN s.canon.services
    /\ step[1] = "stop_times" =>
          step[2].trip \in DOMAIN s.trips /\ step[2].stop \in DOMAIN s.stops

TripsKeyed(s) == \A t \in DOMAIN s.trips : s.trips[t][2] = t

(* The times there are, and those of the row.                              *)
OnlyTimes(a, b, step) ==
    \A key \in DOMAIN b.canon.times :
        key \in DOMAIN a.canon.times \/ (step[1] = "stop_times" /\ key[1][2] = step[2].trip)

ReadEffect(a, b, step) ==
    /\ IsImport(b) /\ ~b.canon.dead /\ ReadOn(a, b) /\ WasRead(b, step) /\ TripsKeyed(b)
    /\ OnlyTimes(a, b, step)

LEMMA RowIsRead ==
    ASSUME NEW a, IsImport(a), ~a.canon.dead, TripsKeyed(a), NEW step, CanBeRead(a, step),
           NEW b, b = ImportRow(a, step)
    PROVE  ReadEffect(a, b, step)
<1> DEFINE row == step[2]
           c == a.canon
           n == b.canon
<1>1. CASE step[1] = "stops"
  <2>1. StopRowEffect(a, row, b)
    <3>1. b = StopRow(a, row)
      BY <1>1, ImportRowIs DEF CanBeRead
    <3> QED
      BY <3>1, StopRowIs
  <2>2. Changes(c, n, {"terminals"}) /\ IsImport(b)
    BY <2>1 DEF StopRowEffect
  <2>3. n.services = c.services /\ n.times = c.times /\ n.dead = c.dead
    BY <2>2 DEF Changes, CanonFields
  <2>4. b.stops = Set(a.stops, row.id, row.code) /\ b.routes = a.routes /\ b.trips = a.trips
    BY <2>1 DEF StopRowEffect
  <2>5. DOMAIN b.stops = DOMAIN a.stops \cup {row.id}
    BY <2>4 DEF Set
  <2> QED
    BY <1>1, <2>2, <2>3, <2>4, <2>5 DEF ReadEffect, ReadOn, Widens, WasRead, TripsKeyed, OnlyTimes
<1>2. CASE step[1] = "calendar"
  <2>1. ServiceRowEffect(a, row, b)
    <3>1. b = ServiceRow(a, row)
      BY <1>2, ImportRowIs DEF CanBeRead
    <3> QED
      BY <3>1, ServiceRowIs
  <2>2. Changes(c, n, {"services", "days"}) /\ IsImport(b)
    BY <2>1 DEF ServiceRowEffect
  <2>3. n.times = c.times /\ n.dead = c.dead
    BY <2>2 DEF Changes, CanonFields
  <2>4. /\ n.services = Set(c.services, row.id, row.dates)
        /\ b.stops = a.stops /\ b.routes = a.routes /\ b.trips = a.trips
    BY <2>1 DEF ServiceRowEffect
  <2>5. DOMAIN n.services = DOMAIN c.services \cup {row.id}
    BY <2>4 DEF Set
  <2> QED
    BY <1>2, <2>2, <2>3, <2>4, <2>5 DEF ReadEffect, ReadOn, Widens, WasRead, TripsKeyed, OnlyTimes
<1>3. CASE step[1] = "routes"
  <2>1. RouteRowEffect(a, row, b)
    <3>1. b = RouteRow(a, row)
      BY <1>3, ImportRowIs DEF CanBeRead
    <3> QED
      BY <3>1, RouteRowIs
  <2>2. Changes(c, n, {"routes"}) /\ IsImport(b)
    BY <2>1 DEF RouteRowEffect
  <2>3. n.services = c.services /\ n.times = c.times /\ n.dead = c.dead
    BY <2>2 DEF Changes, CanonFields
  <2>4. b.stops = a.stops /\ b.routes = a.routes \cup {row.id} /\ b.trips = a.trips
    BY <2>1 DEF RouteRowEffect
  <2> QED
    BY <1>3, <2>2, <2>3, <2>4 DEF ReadEffect, ReadOn, Widens, WasRead, TripsKeyed, OnlyTimes
<1>4. CASE step[1] = "trips"
  <2>1. TripRowEffect(a, row, b)
    <3>1. b = TripRow(a, row)
      BY <1>4, ImportRowIs DEF CanBeRead
    <3> QED
      BY <3>1, TripRowIs
  <2>0. PICK key : key = <<row.route, row.id>>
    OBVIOUS
  <2>2. /\ Changes(c, n, {"trips"}) /\ IsImport(b) /\ b.trips = Set(a.trips, row.id, key)
        /\ b.stops = a.stops /\ b.routes = a.routes
    BY <1>4, <2>0, <2>1 DEF TripRowEffect, CanBeRead
  <2>3. n.services = c.services /\ n.times = c.times /\ n.dead = c.dead
    BY <2>2 DEF Changes, CanonFields
  <2>4. /\ DOMAIN b.trips = DOMAIN a.trips \cup {row.id}
        /\ \A t \in DOMAIN a.trips \cup {row.id} : b.trips[t] = IF t = row.id THEN key ELSE a.trips[t]
    BY <2>2 DEF Set
  <2>5. TripsKeyed(b)
    BY <2>0, <2>4 DEF TripsKeyed
  <2> QED
    BY <1>4, <2>2, <2>3, <2>4, <2>5 DEF ReadEffect, ReadOn, Widens, WasRead, OnlyTimes
<1>5. CASE step[1] = "stop_times"
  <2>1. TimeRowEffect(a, row, b)
    <3>1. b = TimeRow(a, row)
      BY <1>5, ImportRowIs DEF CanBeRead, GtfsFiles
    <3> QED
      BY <3>1, TimeRowIs
  <2>0. PICK key, v : key = <<a.trips[row.trip], row.seq>> /\ v = <<a.stops[row.stop], row.arr, row.dep>>
    OBVIOUS
  <2>2. /\ Changes(c, n, {"times"}) /\ IsImport(b) /\ n.times = Set(c.times, key, v)
        /\ b.stops = a.stops /\ b.routes = a.routes /\ b.trips = a.trips
    BY <1>5, <2>0, <2>1 DEF TimeRowEffect, CanBeRead
  <2>3. n.services = c.services /\ n.dead = c.dead
    BY <2>2 DEF Changes, CanonFields
  <2>4. DOMAIN n.times = DOMAIN c.times \cup {key}
    BY <2>2 DEF Set
  <2>5. key[1][2] = row.trip
    BY <1>5, <2>0 DEF TripsKeyed, CanBeRead
  <2> QED
    BY <1>5, <2>2, <2>3, <2>4, <2>5 DEF ReadEffect, ReadOn, Widens, WasRead, TripsKeyed, OnlyTimes
<1>6. step[1] \in {"stops", "calendar", "routes", "trips", "stop_times"}
  BY DEF CanBeRead, GtfsFiles
<1> QED
  BY <1>1, <1>2, <1>3, <1>4, <1>5, <1>6

(* A feed whose rows all name rows of it.                                  *)
NamesRow(list, id) == \E j \in DOMAIN list : list[j].id = id

IsWhole(feed) ==
    /\ IsFeed(feed) /\ feed.calendar_dates = <<>> /\ feed.frequencies = <<>>
    /\ \A i \in DOMAIN feed.trips :
          NamesRow(feed.routes, feed.trips[i].route) /\ NamesRow(feed.calendar, feed.trips[i].service)
    /\ \A i \in DOMAIN feed.stop_times :
          NamesRow(feed.trips, feed.stop_times[i].trip) /\ NamesRow(feed.stops, feed.stop_times[i].stop)

(* After a number of rows.                                                 *)
ReadTo(s, steps, n) ==
    /\ IsImport(s[n]) /\ ~s[n].canon.dead /\ TripsKeyed(s[n])
    /\ \A i \in 1..n : WasRead(s[n], steps[i])
    /\ \A key \in DOMAIN s[n].canon.times :
          \E i \in 1..n : steps[i][1] = "stop_times" /\ key[1][2] = steps[i][2].trip

LEMMA EarlierRead ==
    ASSUME NEW feed, NEW steps, StepsOf(steps, feed, GtfsFiles), NEW s,
           NEW n \in DOMAIN steps, ReadTo(s, steps, n - 1),
           NEW file \in GtfsFiles, FileRank(file) < FileRank(steps[n][1]), NEW id, NamesRow(feed[file], id)
    PROVE  \E step : WasRead(s[n - 1], step) /\ step[1] = file /\ step[2].id = id
<1>1. PICK k \in DOMAIN feed[file] : feed[file][k].id = id
  BY DEF NamesRow
<1>2. PICK i \in DOMAIN steps : steps[i][1] = file /\ steps[i][2] = feed[file][k]
  BY DEF StepsOf
<1>3. DOMAIN steps = 1..Len(steps) /\ Len(steps) \in Nat
  BY DEF StepsOf
<1>4. \A f \in GtfsFiles : FileRank(f) \in Int
  BY FileRanks DEF GtfsFiles
<1>5. steps[n][1] \in GtfsFiles
  BY DEF StepsOf
<1>6. ~(n < i) /\ n # i
  BY <1>2, <1>4, <1>5 DEF StepsOf
<1>7. i \in 1..(n - 1)
  BY <1>3, <1>6
<1>8. WasRead(s[n - 1], steps[i])
  BY <1>7 DEF ReadTo
<1> QED
  BY <1>1, <1>2, <1>8

LEMMA NextCanBeRead ==
    ASSUME NEW feed, IsWhole(feed), NEW steps, StepsOf(steps, feed, GtfsFiles), NEW s,
           NEW n \in DOMAIN steps, ReadTo(s, steps, n - 1)
    PROVE  CanBeRead(s[n - 1], steps[n])
<1>1. PICK a, step : a = s[n - 1] /\ step = steps[n]
  OBVIOUS
<1>2. step[1] \in GtfsFiles /\ IsRowOf(feed, step)
  BY <1>1 DEF StepsOf
<1>3. PICK k \in DOMAIN feed[step[1]] : step[2] = feed[step[1]][k]
  BY <1>2 DEF IsRowOf
<1>4. step[1] \notin {"calendar_dates", "frequencies"}
  BY <1>3 DEF IsWhole
<1>5. ASSUME step[1] = "trips"
      PROVE  step[2].route \in a.routes /\ step[2].service \in DOMAIN a.canon.services
  <2>1. NamesRow(feed["routes"], step[2].route) /\ NamesRow(feed["calendar"], step[2].service)
    BY <1>3, <1>5 DEF IsWhole
  <2>2. FileRank("routes") < FileRank(steps[n][1]) /\ FileRank("calendar") < FileRank(steps[n][1])
    BY <1>1, <1>5, FileRanks
  <2>3. "routes" \in GtfsFiles /\ "calendar" \in GtfsFiles
    BY DEF GtfsFiles
  <2>4. PICK x : WasRead(s[n - 1], x) /\ x[1] = "routes" /\ x[2].id = step[2].route
    BY <2>1, <2>2, <2>3, EarlierRead
  <2>5. PICK y : WasRead(s[n - 1], y) /\ y[1] = "calendar" /\ y[2].id = step[2].service
    BY <2>1, <2>2, <2>3, EarlierRead
  <2> QED
    BY <1>1, <2>4, <2>5 DEF WasRead
<1>6. ASSUME step[1] = "stop_times"
      PROVE  step[2].trip \in DOMAIN a.trips /\ step[2].stop \in DOMAIN a.stops
  <2>1. NamesRow(feed["trips"], step[2].trip) /\ NamesRow(feed["stops"], step[2].stop)
    BY <1>3, <1>6 DEF IsWhole
  <2>2. FileRank("trips") < FileRank(steps[n][1]) /\ FileRank("stops") < FileRank(steps[n][1])
    BY <1>1, <1>6, FileRanks
  <2>3. "trips" \in GtfsFiles /\ "stops" \in GtfsFiles
    BY DEF GtfsFiles
  <2>4. PICK x : WasRead(s[n - 1], x) /\ x[1] = "trips" /\ x[2].id = step[2].trip
    BY <2>1, <2>2, <2>3, EarlierRead
  <2>5. PICK y : WasRead(s[n - 1], y) /\ y[1] = "stops" /\ y[2].id = step[2].stop
    BY <2>1, <2>2, <2>3, EarlierRead
  <2> QED
    BY <1>1, <2>4, <2>5 DEF WasRead
<1> QED
  BY <1>1, <1>2, <1>4, <1>5, <1>6 DEF CanBeRead

LEMMA WholeIsRead ==
    ASSUME NEW feed, IsWhole(feed), NEW steps, StepsOf(steps, feed, GtfsFiles), NEW N \in Nat,
           Len(steps) = N, NEW s, Imports(s, EmptyCanon, steps, N)
    PROVE  ReadTo(s, steps, N)
<1> DEFINE T == {n \in 0..N : ReadTo(s, steps, n)}
<1>0. DOMAIN steps = 1..N
  BY DEF StepsOf
<1>1. 0 \in T
  <2>1. PICK n : n = s[0]
    OBVIOUS
  <2>2. FreshEffect(EmptyCanon, n)
    BY <2>1, EmptyIs, FreshIs DEF Imports
  <2>3. IsImport(n) /\ n.trips = <<>> /\ n.canon.dead = FALSE
    BY <2>2 DEF FreshEffect
  <2>4. n.canon.times = <<>>
    <3>1. n.canon["times"] = EmptyCanon["times"]
      BY <2>2 DEF FreshEffect, CanonFields
    <3> QED
      BY <3>1 DEF EmptyCanon
  <2>5. TripsKeyed(n)
    BY <2>3 DEF TripsKeyed
  <2> QED
    BY <2>1, <2>3, <2>4, <2>5 DEF ReadTo
<1>2. ASSUME NEW n \in 1..N, n - 1 \in T
      PROVE  n \in T
  <2>1. PICK a, b, step : a = s[n - 1] /\ b = s[n] /\ step = steps[n]
    OBVIOUS
  <2>2. ReadTo(s, steps, n - 1)
    BY <1>2
  <2>3. CanBeRead(a, step)
    BY <1>0, <2>1, <2>2, NextCanBeRead
  <2>4. IsImport(a) /\ ~a.canon.dead /\ TripsKeyed(a) /\ b = ImportRow(a, step)
    BY <2>1, <2>2 DEF ReadTo, Imports
  <2>5. ReadEffect(a, b, step)
    BY <2>3, <2>4, RowIsRead
  <2>6. \A i \in 1..n : WasRead(b, steps[i])
    <3> SUFFICES ASSUME NEW i \in 1..n
                 PROVE  WasRead(b, steps[i])
      OBVIOUS
    <3>1. CASE i = n
      BY <2>1, <2>5, <3>1 DEF ReadEffect
    <3>2. CASE i # n
      <4>1. i \in 1..(n - 1)
        BY <3>2
      <4>2. WasRead(a, steps[i])
        BY <2>1, <2>2, <4>1 DEF ReadTo
      <4>3. ReadOn(a, b)
        BY <2>5 DEF ReadEffect
      <4> QED
        BY <4>2, <4>3, ReadStays
    <3> QED
      BY <3>1, <3>2
  <2>7. ASSUME NEW key \in DOMAIN b.canon.times
        PROVE  \E i \in 1..n : steps[i][1] = "stop_times" /\ key[1][2] = steps[i][2].trip
    <3>1. CASE key \in DOMAIN a.canon.times
      <4>1. PICK i \in 1..(n - 1) : steps[i][1] = "stop_times" /\ key[1][2] = steps[i][2].trip
        BY <2>1, <2>2, <3>1 DEF ReadTo
      <4> QED
        BY <4>1
    <3>2. CASE step[1] = "stop_times" /\ key[1][2] = step[2].trip
      BY <2>1, <3>2
    <3> QED
      BY <2>5, <3>1, <3>2 DEF ReadEffect, OnlyTimes
  <2>8. ReadTo(s, steps, n)
    BY <2>1, <2>5, <2>6, <2>7 DEF ReadTo, ReadEffect
  <2> QED
    BY <2>8
<1>3. \A n \in 0..N : n \in T
  <2> HIDE DEF T
  <2> QED
    BY <1>1, <1>2, UpTo
<1> QED
  BY <1>3

LEMMA WholeIsImported ==
    ASSUME NEW feed, IsWhole(feed), NEW canon, canon = ImportGtfsFeed(EmptyCanon, Steps(feed))
    PROVE  /\ ~canon.dead
           /\ {key[1][2] : key \in DOMAIN canon.times}
                = {feed.stop_times[i].trip : i \in DOMAIN feed.stop_times}
<1>1. PICK steps : steps = Steps(feed)
  OBVIOUS
<1>2. StepsOf(steps, feed, GtfsFiles)
  BY <1>1, StepsAreOf DEF IsWhole
<1>3. PICK N \in Nat : Len(steps) = N /\ DOMAIN steps = 1..N
  BY <1>2 DEF StepsOf
<1>4. PICK s : Imports(s, EmptyCanon, steps, N) /\ ImportGtfsFeed(EmptyCanon, steps) = s[N].canon
  BY <1>3, ImportedRowByRow
<1>5. ReadTo(s, steps, N)
  BY <1>2, <1>3, <1>4, WholeIsRead
<1>6. PICK list : list = feed["stop_times"]
  OBVIOUS
<1>7. ASSUME NEW key \in DOMAIN canon.times
      PROVE  \E i \in DOMAIN list : key[1][2] = list[i].trip
  <2>1. PICK n \in 1..N : steps[n][1] = "stop_times" /\ key[1][2] = steps[n][2].trip
    BY <1>1, <1>4, <1>5 DEF ReadTo
  <2>2. PICK step : step = steps[n] /\ IsRowOf(feed, step)
    BY <1>2, <1>3 DEF StepsOf
  <2>3. PICK i \in DOMAIN list : step[2] = list[i]
    BY <1>6, <2>1, <2>2 DEF IsRowOf
  <2> QED
    BY <2>1, <2>2, <2>3
<1>8. ASSUME NEW i \in DOMAIN list
      PROVE  \E key \in DOMAIN canon.times : key[1][2] = list[i].trip
  <2>1. "stop_times" \in GtfsFiles
    BY DEF GtfsFiles
  <2>2. PICK n \in DOMAIN steps : steps[n][1] = "stop_times" /\ steps[n][2] = list[i]
    BY <1>2, <1>6, <2>1 DEF StepsOf
  <2>3. WasRead(s[N], steps[n])
    BY <1>3, <1>5 DEF ReadTo
  <2> QED
    BY <1>1, <1>4, <2>2, <2>3 DEF WasRead
<1>9. ~canon.dead
  BY <1>1, <1>4, <1>5 DEF ReadTo
<1>10. {key[1][2] : key \in DOMAIN canon.times} = {list[i].trip : i \in DOMAIN list}
  <2>1. \A v : v \in {key[1][2] : key \in DOMAIN canon.times} => v \in {list[i].trip : i \in DOMAIN list}
    BY <1>7
  <2>2. \A v : v \in {list[i].trip : i \in DOMAIN list} => v \in {key[1][2] : key \in DOMAIN canon.times}
    BY <1>8
  <2> QED
    BY <2>1, <2>2
<1> QED
  BY <1>6, <1>9, <1>10

LEMMA CompiledIsWhole ==
    ASSUME NEW net, IsNetwork(net), AllServed(net), NEW feed, feed = Compile(net)
    PROVE  /\ IsWhole(feed)
           /\ {feed.stop_times[i].trip : i \in DOMAIN feed.stop_times}
                = {t \in DOMAIN net.trips : net.trips[t].times # <<>>}
<1>1. /\ HasIds(feed.stops, net.stops) /\ HasIds(feed.routes, DOMAIN net.routes)
      /\ HasIds(feed.trips, DOMAIN net.trips) /\ HasIds(feed.calendar, Calendar(net))
      /\ feed.calendar_dates = <<>> /\ feed.frequencies = <<>>
      /\ feed.stop_times = TimeRows(net, ByText(net))
      /\ \A i \in DOMAIN feed.trips :
            /\ feed.trips[i].route = net.trips[feed.trips[i].id].route
            /\ feed.trips[i].service = Numbered(net.trips[feed.trips[i].id].service)
  BY CompiledIs
<1>2. PICK times : times = feed.stop_times
  OBVIOUS
<1>3. PICK before : before = ByText(net)
  OBVIOUS
<1>4. PICK n \in Nat : \E e : Permutes(e, n, Halts(net))
                              /\ TimeRows(net, before) = [k \in 1..n |-> TimeRowOf(net, e[k])]
  BY <1>3, TimeRowsAre
<1>5. PICK e : Permutes(e, n, Halts(net))
               /\ TimeRows(net, before) = [k \in 1..n |-> TimeRowOf(net, e[k])]
  BY <1>4
<1>6. times = [k \in 1..n |-> TimeRowOf(net, e[k])]
  BY <1>1, <1>2, <1>3, <1>5
<1>7. times \in Seq(Range(times)) /\ DOMAIN times = 1..n
  BY <1>6, ListedIs
<1>8. ASSUME NEW k \in 1..n
      PROVE  \E t \in DOMAIN net.trips : \E i \in DOMAIN net.trips[t].times :
                e[k] = <<t, i>> /\ times[k].trip = t /\ times[k].stop = net.trips[t].times[i].stop
  <2>1. e[k] \in Halts(net)
    BY <1>5 DEF Permutes
  <2>2. PICK t \in DOMAIN net.trips : \E i \in DOMAIN net.trips[t].times : e[k] = <<t, i>>
    BY <2>1, HaltsAre DEF IsHalt
  <2>3. PICK i \in DOMAIN net.trips[t].times : e[k] = <<t, i>>
    BY <2>2
  <2>4. PICK c : c = e[k] /\ c = <<t, i>>
    BY <2>3
  <2>5. times[k] = TimeRowOf(net, c)
    BY <1>6, <2>4
  <2>6. HaltOf(net, c) = net.trips[t].times[i]
    BY <2>4 DEF HaltOf
  <2> QED
    BY <2>3, <2>4, <2>5, <2>6 DEF TimeRowOf
<1>9. ASSUME NEW t \in DOMAIN net.trips
      PROVE  NamesRow(feed.routes, net.trips[t].route)
             /\ NamesRow(feed.calendar, Numbered(net.trips[t].service))
  <2>1. net.trips[t].route \in DOMAIN net.routes
    BY NetworkCalls
  <2>2. Numbered(net.trips[t].service) \in Calendar(net)
    BY DEF AllServed
  <2> QED
    BY <1>1, <2>1, <2>2 DEF HasIds, NamesRow
<1>10. ASSUME NEW i \in DOMAIN feed.trips
       PROVE  NamesRow(feed.routes, feed.trips[i].route) /\ NamesRow(feed.calendar, feed.trips[i].service)
  <2>1. PICK t \in DOMAIN net.trips : t = feed.trips[i].id
    BY <1>1 DEF HasIds
  <2> QED
    BY <1>1, <1>9, <2>1
<1>11. ASSUME NEW k \in DOMAIN times
       PROVE  NamesRow(feed.trips, times[k].trip) /\ NamesRow(feed.stops, times[k].stop)
  <2>1. PICK t \in DOMAIN net.trips : \E i \in DOMAIN net.trips[t].times :
          e[k] = <<t, i>> /\ times[k].trip = t /\ times[k].stop = net.trips[t].times[i].stop
    BY <1>7, <1>8
  <2>2. PICK i \in DOMAIN net.trips[t].times :
          times[k].trip = t /\ times[k].stop = net.trips[t].times[i].stop
    BY <2>1
  <2>3. PICK calls : calls = net.trips[t].times
    OBVIOUS
  <2>4. IsCalls(net, calls)
    BY <2>3, NetworkCalls
  <2>5. times[k].stop \in net.stops
    BY <2>2, <2>3, <2>4 DEF IsCalls
  <2> QED
    BY <1>1, <2>2, <2>5 DEF HasIds, NamesRow
<1>12. IsFeed(feed)
  <2>1. /\ feed["stops"] \in Seq(Range(feed["stops"])) /\ feed["routes"] \in Seq(Range(feed["routes"]))
        /\ feed["trips"] \in Seq(Range(feed["trips"]))
        /\ feed["calendar"] \in Seq(Range(feed["calendar"]))
    BY <1>1 DEF HasIds
  <2>2. <<>> \in Seq(Range(<<>>))
    OBVIOUS
  <2>3. ASSUME NEW file \in GtfsFiles
        PROVE  feed[file] \in Seq(Range(feed[file]))
    <3>1. CASE file \in {"stops", "routes", "trips", "calendar"}
      BY <2>1, <3>1
    <3>2. CASE file \in {"calendar_dates", "frequencies"}
      <4>1. feed[file] = <<>>
        BY <1>1, <3>2
      <4> QED
        BY <2>2, <4>1
    <3>3. CASE file = "stop_times"
      BY <1>2, <1>7, <3>3
    <3> QED
      BY <3>1, <3>2, <3>3 DEF GtfsFiles
  <2> QED
    BY <2>3 DEF IsFeed
<1>13. IsWhole(feed)
  BY <1>1, <1>2, <1>10, <1>11, <1>12 DEF IsWhole
<1>14. ASSUME NEW t \in DOMAIN net.trips, net.trips[t].times # <<>>
       PROVE  \E k \in DOMAIN times : times[k].trip = t
  <2>1. PICK calls : calls = net.trips[t].times
    OBVIOUS
  <2>2. calls \in Seq(Range(calls)) /\ calls # <<>>
    BY <1>14, <2>1, NetworkCalls DEF IsCalls
  <2>3. PICK L \in Nat : Counts(calls, L)
    BY <2>2, SeqCounts
  <2>4. 1 \in DOMAIN calls
    BY <2>2, <2>3 DEF Counts
  <2>5. <<t, 1>> \in Halts(net)
    BY <2>1, <2>4, HaltsAre DEF IsHalt
  <2>6. PICK k \in 1..n : e[k] = <<t, 1>>
    BY <1>5, <2>5 DEF Permutes
  <2> QED
    BY <1>7, <1>8, <2>6
<1>15. ASSUME NEW k \in DOMAIN times
       PROVE  times[k].trip \in DOMAIN net.trips /\ net.trips[times[k].trip].times # <<>>
  <2>1. PICK t \in DOMAIN net.trips : \E i \in DOMAIN net.trips[t].times :
          e[k] = <<t, i>> /\ times[k].trip = t /\ times[k].stop = net.trips[t].times[i].stop
    BY <1>7, <1>8
  <2>2. PICK calls, i : calls = net.trips[t].times /\ i \in DOMAIN calls
    BY <2>1
  <2>3. calls # <<>>
    BY <2>2
  <2> QED
    BY <2>1, <2>2, <2>3
<1>16. {times[k].trip : k \in DOMAIN times} = {t \in DOMAIN net.trips : net.trips[t].times # <<>>}
  BY <1>14, <1>15
<1> QED
  BY <1>2, <1>13, <1>16

(* What an export comes to.                                                *)
ExportsWell(told, net) ==
    /\ IsRead(told.compiled, net) /\ told.compiled.read
    /\ IsRead(told.regional, net) /\ ("stops" \notin net.quoting => told.regional.read)
    /\ AllServed(net) =>
          /\ ~told.imported.dead
          /\ {key[1][2] : key \in DOMAIN told.imported.times}
                = {t \in DOMAIN net.trips : net.trips[t].times # <<>>}

LEMMA ExportIs ==
    ASSUME NEW net, IsNetwork(net), NEW told,
           told.compiled = Load(Compile(net)), told.regional = Load(BuildPerRegion(net)),
           told.imported = ImportGtfsFeed(EmptyCanon, Steps(Compile(net)))
    PROVE  ExportsWell(told, net)
<1>1. /\ IsRead(told.compiled, net) /\ told.compiled.read
      /\ IsRead(told.regional, net) /\ ("stops" \notin net.quoting => told.regional.read)
  BY BothKeepRides
<1>2. ASSUME AllServed(net)
      PROVE  /\ ~told.imported.dead
             /\ {key[1][2] : key \in DOMAIN told.imported.times}
                  = {t \in DOMAIN net.trips : net.trips[t].times # <<>>}
  <2>1. PICK feed, canon : feed = Compile(net) /\ canon = told.imported
    OBVIOUS
  <2>2. /\ IsWhole(feed)
        /\ {feed.stop_times[i].trip : i \in DOMAIN feed.stop_times}
              = {t \in DOMAIN net.trips : net.trips[t].times # <<>>}
    BY <1>2, <2>1, CompiledIsWhole
  <2>3. canon = ImportGtfsFeed(EmptyCanon, Steps(feed))
    BY <2>1
  <2>4. /\ ~canon.dead
        /\ {key[1][2] : key \in DOMAIN canon.times}
              = {feed.stop_times[i].trip : i \in DOMAIN feed.stop_times}
    BY <2>2, <2>3, WholeIsImported
  <2> QED
    BY <2>1, <2>2, <2>4
<1> QED
  BY <1>1, <1>2 DEF ExportsWell

(* The compiled feed of a network can be read back, and the region's if no *)
(* name of a stop needs quoting; what is read has the rides of the network *)
(* and none that arrives before it departs; and where all trips have       *)
(* services of the calendar the compiled feed can be imported into an      *)
(* empty canon with the times of all trips that have any (compile.go:53,   *)
(* compiler.go:101).                                                       *)
THEOREM ExportsKeepRides == AlgorithmsSpec => []ExportKeepsRides
<1>1. ExportKeepsRides <=> (Replied("export") => ExportsWell(Told, question))
  <2>1. PICK told, net : told = Told /\ net = question
    OBVIOUS
  <2> QED
    BY DEF ExportKeepsRides, ExportsWell, IsRead, KeepsRides
<1>2. ExportKeepsRides' <=> (Replied("export")' => ExportsWell(Told', question'))
  BY DEF ExportKeepsRides, ExportsWell, IsRead, KeepsRides
<1>3. PlanInit => Questioned /\ ExportKeepsRides
  BY QuestionedInit, <1>1 DEF Replied
<1>4. Questioned /\ ExportKeepsRides /\ [AlgorithmsNext]_planVars => ExportKeepsRides'
  <2> SUFFICES ASSUME Questioned, ExportKeepsRides, [AlgorithmsNext]_planVars, Replied("export")'
               PROVE  ExportsWell(Told', question)
    BY <1>2, Stays
  <2>0. topic = "export"
    BY Stays DEF Replied
  <2>1. CASE answer' = answer
    <3>1. Told' = Told /\ Replied("export")
      BY <2>1, Stays DEF Replied, Told
    <3> QED
      BY <1>1, <3>1
  <2>2. CASE Export
    <3>1. PICK net : net = question
      OBVIOUS
    <3>2. IsNetwork(net)
      BY <2>0, <3>1, ExportAssumption DEF Questioned
    <3>3. PICK told : told = [compiled |-> Load(Compile(net)), regional |-> Load(BuildPerRegion(net)),
                              imported |-> ImportGtfsFeed(EmptyCanon, Steps(Compile(net)))]
      OBVIOUS
    <3>4. Told' = told
      BY <2>2, <3>1, <3>3, ToldIs DEF Export
    <3>5. /\ told.compiled = Load(Compile(net)) /\ told.regional = Load(BuildPerRegion(net))
          /\ told.imported = ImportGtfsFeed(EmptyCanon, Steps(Compile(net)))
      BY <3>3
    <3>6. ExportsWell(told, net)
      BY <3>2, <3>5, ExportIs
    <3> QED
      BY <3>1, <3>4, <3>6
  <2> QED
    BY <2>0, <2>1, <2>2, Answering
<1> QED
  BY <1>3, <1>4, QuestionedStays, PTL DEF AlgorithmsSpec
=============================================================================
