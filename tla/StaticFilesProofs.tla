-------------------------- MODULE StaticFilesProofs --------------------------
(***************************************************************************)
(* Theorems about StaticFiles and the Router that it extends, for all      *)
(* mounts, directories, routes and requests.  Which mount answers a        *)
(* request: find_if over the std::map takes the first claiming key in the  *)
(* order of the strings, and that order comes to the outermost mount and   *)
(* nothing else.  What content type the answer has: mime_type() looks at   *)
(* the whole name, and what it finds is about the last element only.       *)
(* Where the name leads: element by element, never above the directory.    *)
(* And what is left to the router: what std::regex makes of a pattern,     *)
(* part by part with backtracking, is what the pattern means as a whole,   *)
(* so the first route that fits answers, with the parameters of the        *)
(* greediest cut; this holds behind the mounts, too.                       *)
(***************************************************************************)
EXTENDS StaticFiles, TLAPS, SequenceTheorems, WellFoundedInduction

-----------------------------------------------------------------------------
(* Induction over data, as facts about sets of numbers. *)

\* A set of natural numbers that is not empty has a smallest member.
LEMMA Smallest ==
  ASSUME NEW S \in SUBSET Nat, S # {}
  PROVE  \E n \in S : \A k \in S : n <= k
<1>1. PICK n \in S : \A k \in S : ~ (<<k, n>> \in OpToRel(<, Nat))
  BY NatLessThanWellFounded, WFMin
<1>2. \A k \in S : ~ (k < n)
  BY <1>1 DEF OpToRel
<1> QED
  BY <1>2

\* What holds of 0 and passes from each number below n to the next holds of
\* all up to n.
LEMMA UpTo ==
  ASSUME NEW n \in Nat, NEW S, 0 \in S,
         \A k \in 0 .. n - 1 : k \in S => k + 1 \in S
  PROVE  \A k \in 0 .. n : k \in S
<1> SUFFICES ASSUME (0 .. n) \ S # {} PROVE FALSE
  OBVIOUS
<1>1. PICK k \in (0 .. n) \ S : \A j \in (0 .. n) \ S : k <= j
  <2> DEFINE T == (0 .. n) \ S
  <2>1. T \in SUBSET Nat /\ T # {}
    OBVIOUS
  <2> HIDE DEF T
  <2>2. \E k \in T : \A j \in T : k <= j
    BY <2>1, Smallest
  <2> QED
    BY <2>2 DEF T
<1>2. k - 1 \in 0 .. n - 1 /\ k - 1 \in S /\ (k - 1) + 1 = k
  BY <1>1
<1> QED
  BY <1>1, <1>2

\* What holds behind a text of n positions, and at each position if it holds
\* at all that follow, holds at all of them.
LEMMA DownTo ==
  ASSUME NEW n \in Nat, NEW S, n + 1 \in S,
         \A k \in 1 .. n : (k + 1 .. n + 1 \subseteq S) => k \in S
  PROVE  \A k \in 1 .. n + 1 : k \in S
<1> DEFINE T == {d \in Nat : n + 1 - d .. n + 1 \subseteq S}
<1>1. 0 \in T
  OBVIOUS
<1>2. ASSUME NEW d \in 0 .. n - 1, d \in T PROVE d + 1 \in T
  <2>1. n - d \in 1 .. n /\ n + 1 - d = (n - d) + 1 /\ n + 1 - (d + 1) = n - d /\ d + 1 \in Nat
    OBVIOUS
  <2>2. (n - d) + 1 .. n + 1 \subseteq S
    BY <1>2, <2>1
  <2>3. n - d \in S
    BY <2>1, <2>2
  <2>4. n - d .. n + 1 \subseteq S
    BY <2>1, <2>2, <2>3
  <2> QED
    BY <2>1, <2>4
<1>3. \A d \in 0 .. n : d \in T
  <2> HIDE DEF T
  <2> QED
    BY <1>1, <1>2, UpTo
<1>4. n + 1 - n .. n + 1 \subseteq S
  <2>1. n \in T
    BY <1>3
  <2> QED
    BY <2>1
<1> QED
  BY <1>4

\* A set of positions that is not empty has a last member, and Max is it.
LEMMA MaxOfPositions ==
  ASSUME NEW n \in Nat, NEW S \in SUBSET (0 .. n), S # {}
  PROVE  Max(S) \in S /\ \A k \in S : k <= Max(S)
<1> DEFINE T == {n - k : k \in S}
<1>1. PICK m \in T : \A l \in T : m <= l
  <2>1. T \subseteq Nat
    OBVIOUS
  <2>2. T # {}
    <3>1. PICK k \in S : TRUE
      OBVIOUS
    <3>2. n - k \in T
      BY <3>1
    <3> QED
      BY <3>2
  <2> HIDE DEF T
  <2> QED
    BY <2>1, <2>2, Smallest
<1>2. PICK x \in S : m = n - x
  OBVIOUS
<1>3. \A k \in S : k <= x
  BY <1>1, <1>2
<1> QED
  BY <1>3 DEF Max

\* A set of numbers that is not empty has a first member, and Min is it.
LEMMA MinOfPositions ==
  ASSUME NEW S \in SUBSET Nat, S # {}
  PROVE  Min(S) \in S /\ \A k \in S : Min(S) <= k
<1>1. PICK n \in S : \A k \in S : n <= k
  BY Smallest
<1> QED
  BY <1>1 DEF Min

-----------------------------------------------------------------------------
(* The recursions of Parts and Match end. *)

\* One step of Parts.
PartsStep(pattern, parts, i) ==
    IF i > Len(pattern) THEN <<>>
    ELSE IF pattern[i] = ":"
    THEN LET end == Find(pattern, i + 1, {":", "/"})
         IN <<[param |-> TRUE, text |-> SubSeq(pattern, i + 1, end - 1)]>> \o parts[end]
    ELSE <<[param |-> FALSE, text |-> <<pattern[i]>>]>> \o parts[i + 1]

\* A parameter ends behind the place where it begins.
LEMMA FindType ==
  ASSUME NEW s, Len(s) \in Nat, NEW i \in 1 .. Len(s) + 1, NEW cs
  PROVE  Find(s, i, cs) \in i .. Len(s) + 1
<1> DEFINE S == {j \in i .. Len(s) : s[j] \in cs} \cup {Len(s) + 1}
<1>1. S \in SUBSET Nat /\ S # {} /\ S \subseteq i .. Len(s) + 1
  OBVIOUS
<1> HIDE DEF S
<1>2. Min(S) \in S
  BY <1>1, MinOfPositions
<1> QED
  BY <1>1, <1>2 DEF Find, S

\* There is a function that takes the steps of Parts.
LEMMA PartsEquation ==
  ASSUME NEW pattern, Len(pattern) \in Nat
  PROVE  \A i \in 1 .. Len(pattern) + 1 :
            Parts(pattern)[i] = PartsStep(pattern, Parts(pattern), i)
<1> DEFINE n == Len(pattern)
           IsParts(f, k) == f = [i \in k .. n + 1 |-> PartsStep(pattern, f, i)]
           Exist == {k \in Nat : \E f : IsParts(f, k)}
<1>1. n + 1 \in Exist
  <2> DEFINE f == [i \in n + 1 .. n + 1 |-> <<>>]
  <2>1. \A i \in n + 1 .. n + 1 : PartsStep(pattern, f, i) = <<>>
    BY DEF PartsStep
  <2>2. f = [i \in n + 1 .. n + 1 |-> PartsStep(pattern, f, i)]
    <3> HIDE DEF n
    <3>1. [i \in n + 1 .. n + 1 |-> PartsStep(pattern, f, i)] = [i \in n + 1 .. n + 1 |-> <<>>]
      <4> HIDE DEF f
      <4> QED
        BY <2>1, Zenon
    <3> QED
      BY <3>1
  <2>3. \E g : IsParts(g, n + 1)
    BY <2>2
  <2> HIDE DEF IsParts
  <2> QED
    BY <2>3
<1>2. ASSUME NEW k \in 1 .. n, k + 1 \in Exist PROVE k \in Exist
  <2>1. PICK g : g = [i \in k + 1 .. n + 1 |-> PartsStep(pattern, g, i)]
    BY <1>2
  <2> DEFINE f == [i \in k .. n + 1 |-> PartsStep(pattern, g, i)]
  <2>2. \A i \in k + 1 .. n + 1 : f[i] = g[i]
    <3> SUFFICES ASSUME NEW i \in k + 1 .. n + 1 PROVE f[i] = g[i]
      OBVIOUS
    <3>1. f[i] = PartsStep(pattern, g, i)
      OBVIOUS
    <3> QED
      BY <2>1, <3>1
  <2>3. \A i \in k .. n + 1 : PartsStep(pattern, g, i) = PartsStep(pattern, f, i)
    <3> SUFFICES ASSUME NEW i \in k .. n + 1
                 PROVE  PartsStep(pattern, g, i) = PartsStep(pattern, f, i)
      OBVIOUS
    <3> DEFINE end == Find(pattern, i + 1, {":", "/"})
    <3>1. ~ (i > Len(pattern)) => g[end] = f[end] /\ g[i + 1] = f[i + 1]
      <4> SUFFICES ASSUME ~ (i > Len(pattern))
                   PROVE  g[end] = f[end] /\ g[i + 1] = f[i + 1]
        OBVIOUS
      <4>1. i + 1 \in 1 .. Len(pattern) + 1 /\ i + 1 \in k + 1 .. n + 1
        OBVIOUS
      <4>2. end \in i + 1 .. Len(pattern) + 1
        BY <4>1, FindType
      <4>3. end \in k + 1 .. n + 1
        BY <4>1, <4>2
      <4> HIDE DEF f, end
      <4> QED
        BY <2>2, <4>1, <4>3
    <3> HIDE DEF f
    <3> QED
      BY <3>1 DEF PartsStep
  <2>4. f = [i \in k .. n + 1 |-> PartsStep(pattern, f, i)]
    <3>1. [i \in k .. n + 1 |-> PartsStep(pattern, g, i)]
            = [i \in k .. n + 1 |-> PartsStep(pattern, f, i)]
      <4> HIDE DEF f
      <4> QED
        BY <2>3, Zenon
    <3> QED
      BY <3>1
  <2>5. \E h : IsParts(h, k)
    BY <2>4
  <2> HIDE DEF IsParts
  <2> QED
    BY <2>5
<1>3. \E f : IsParts(f, 1)
  <2>1. \A k \in 1 .. n : (k + 1 .. n + 1 \subseteq Exist) => k \in Exist
    <3> HIDE DEF Exist
    <3>1. \A k \in 1 .. n : k + 1 \in k + 1 .. n + 1
      OBVIOUS
    <3> QED
      BY <1>2, <3>1
  <2>2. 1 \in Exist
    <3> HIDE DEF Exist
    <3>1. \A k \in 1 .. n + 1 : k \in Exist
      BY <1>1, <2>1, DownTo
    <3> QED
      BY <3>1
  <2> HIDE DEF IsParts
  <2> QED
    BY <2>2
<1>4. Parts(pattern) = CHOOSE f : IsParts(f, 1)
  BY DEF Parts, PartsStep
<1>5. IsParts(Parts(pattern), 1)
  <2> HIDE DEF IsParts
  <2> QED
    BY <1>3, <1>4
<1> QED
  <2> DEFINE f == Parts(pattern)
  <2>1. f = [i \in 1 .. n + 1 |-> PartsStep(pattern, f, i)]
    BY <1>5
  <2> HIDE DEF f
  <2> SUFFICES ASSUME NEW i \in 1 .. n + 1 PROVE f[i] = PartsStep(pattern, f, i)
    BY DEF f
  <2>2. [j \in 1 .. n + 1 |-> PartsStep(pattern, f, j)][i] = PartsStep(pattern, f, i)
    OBVIOUS
  <2> QED
    BY <2>1, <2>2, Zenon

\* What a rule consists of.
Part == [param : BOOLEAN, text : Seq(STRING)]

\* A pattern has a rule.
LEMMA RuleType ==
  ASSUME NEW pattern \in Seq(STRING)
  PROVE  Rule(pattern) \in Seq(Part)
<1> DEFINE n == Len(pattern)
           f == Parts(pattern)
           Typed == {i \in Nat : f[i] \in Seq(Part)}
<1>1. n \in Nat
  BY LenProperties
<1>2. \A i \in 1 .. n + 1 : f[i] = PartsStep(pattern, f, i)
  BY <1>1, PartsEquation
<1> HIDE DEF f
<1>3. n + 1 \in Typed
  <2>1. n + 1 \in 1 .. n + 1 /\ n + 1 > Len(pattern)
    BY <1>1
  <2>2. f[n + 1] = <<>>
    BY <1>2, <2>1 DEF PartsStep
  <2>3. <<>> \in Seq(Part)
    BY EmptySeq
  <2>4. f[n + 1] \in Seq(Part)
    BY <2>2, <2>3, Zenon
  <2>5. n + 1 \in Nat
    BY <1>1
  <2> QED
    BY <2>4, <2>5
<1>4. ASSUME NEW i \in 1 .. n, i + 1 .. n + 1 \subseteq Typed PROVE i \in Typed
  <2> DEFINE end == Find(pattern, i + 1, {":", "/"})
             key == SubSeq(pattern, i + 1, end - 1)
             char == <<pattern[i]>>
  <2>1. /\ i \in 1 .. n + 1 /\ ~ (i > Len(pattern)) /\ i + 1 \in 1 .. n + 1
        /\ i + 1 \in i + 1 .. n + 1
    BY <1>1
  <2>2. end \in i + 1 .. n + 1
    BY <1>1, <2>1, FindType
  <2>3. f[end] \in Seq(Part) /\ f[i + 1] \in Seq(Part)
    BY <1>4, <2>1, <2>2
  <2>4. key \in Seq(STRING)
    <3> DEFINE to == end - 1
    <3>1. to \in Int /\ to \in i .. n
      BY <1>1, <2>2
    <3>2. \A j \in i + 1 .. to : pattern[j] \in STRING
      BY <1>1, <3>1, ElementOfSeq
    <3> HIDE DEF to
    <3> DEFINE t == SubSeq(pattern, i + 1, to)
    <3>3. t \in Seq(STRING)
      BY <3>1, <3>2, SubSeqProperties
    <3> QED
      BY <3>3 DEF to
  <2>5. char \in Seq(STRING)
    <3>1. pattern[i] \in STRING
      BY ElementOfSeq
    <3> QED
      BY <3>1
  <2> HIDE DEF end, key, char
  <2> DEFINE param == [param |-> TRUE, text |-> key]
             literal == [param |-> FALSE, text |-> char]
  <2>6. param \in Part /\ literal \in Part
    BY <2>4, <2>5 DEF Part
  <2>7. f[i] = <<param>> \o f[end] \/ f[i] = <<literal>> \o f[i + 1]
    BY <1>2, <2>1 DEF PartsStep, end, key, char
  <2> HIDE DEF param, literal
  <2>8. <<param>> \in Seq(Part) /\ <<literal>> \in Seq(Part)
    BY <2>6
  <2>9. f[i] \in Seq(Part)
    BY <2>3, <2>7, <2>8, ConcatProperties, ZenonT(40)
  <2> QED
    BY <2>9
<1>5. \A i \in 1 .. n + 1 : i \in Typed
  <2> HIDE DEF Typed, n
  <2> QED
    BY <1>1, <1>3, <1>4, DownTo
<1>6. f[1] \in Seq(Part)
  BY <1>1, <1>5
<1> QED
  BY <1>6 DEF Rule, f

\* One step of Match, for one position in the path and for all.
MatchAt(rule, path, match, i, j) ==
    IF i > Len(rule) THEN IF j > Len(path) THEN {<<>>} ELSE {}
    ELSE IF rule[i].param
    THEN LET ends == {k \in j .. Len(path) : match[i + 1][k + 1] # {}}
         IN IF ends = {} THEN {}
            ELSE {<<[key |-> rule[i].text,
                     val |-> SubSeq(path, j, Max(ends))]>> \o c :
                      c \in match[i + 1][Max(ends) + 1]}
    ELSE IF j <= Len(path) /\ Fits(rule[i].text[1], path[j])
    THEN match[i + 1][j + 1] ELSE {}

MatchStep(rule, path, match, i) ==
    [j \in 1 .. Len(path) + 1 |-> MatchAt(rule, path, match, i, j)]

\* There is a function that takes the steps of Match.
LEMMA MatchEquation ==
  ASSUME NEW rule, NEW path, Len(rule) \in Nat
  PROVE  \A i \in 1 .. Len(rule) + 1 : \A j \in 1 .. Len(path) + 1 :
            Match(rule, path)[i][j] = MatchAt(rule, path, Match(rule, path), i, j)
<1> DEFINE n == Len(rule)
           IsMatch(f, k) == f = [i \in k .. n + 1 |-> MatchStep(rule, path, f, i)]
           Exist == {k \in Nat : \E f : IsMatch(f, k)}
<1>1. n + 1 \in Exist
  <2> DEFINE f == [i \in n + 1 .. n + 1 |-> MatchStep(rule, path, rule, i)]
  <2>1. \A i \in n + 1 .. n + 1 :
           MatchStep(rule, path, f, i) = MatchStep(rule, path, rule, i)
    <3> SUFFICES ASSUME NEW i \in n + 1 .. n + 1
                 PROVE  MatchStep(rule, path, f, i) = MatchStep(rule, path, rule, i)
      OBVIOUS
    <3>1. i > Len(rule)
      OBVIOUS
    <3>2. \A j : MatchAt(rule, path, f, i, j) = MatchAt(rule, path, rule, i, j)
      BY <3>1, Zenon DEF MatchAt
    <3> QED
      BY <3>2 DEF MatchStep
  <2>2. f = [i \in n + 1 .. n + 1 |-> MatchStep(rule, path, f, i)]
    <3> HIDE DEF n
    <3>1. [i \in n + 1 .. n + 1 |-> MatchStep(rule, path, f, i)]
            = [i \in n + 1 .. n + 1 |-> MatchStep(rule, path, rule, i)]
      <4> HIDE DEF f
      <4> QED
        BY <2>1, Zenon
    <3> QED
      BY <3>1
  <2>3. \E g : IsMatch(g, n + 1)
    BY <2>2
  <2> HIDE DEF IsMatch
  <2> QED
    BY <2>3
<1>2. ASSUME NEW k \in 1 .. n, k + 1 \in Exist PROVE k \in Exist
  <2>1. PICK g : g = [i \in k + 1 .. n + 1 |-> MatchStep(rule, path, g, i)]
    BY <1>2
  <2> DEFINE f == [i \in k .. n + 1 |-> MatchStep(rule, path, g, i)]
  <2>2. \A i \in k + 1 .. n + 1 : f[i] = g[i]
    <3> SUFFICES ASSUME NEW i \in k + 1 .. n + 1 PROVE f[i] = g[i]
      OBVIOUS
    <3>1. f[i] = MatchStep(rule, path, g, i)
      OBVIOUS
    <3> QED
      BY <2>1, <3>1
  <2>3. \A i \in k .. n + 1 : MatchStep(rule, path, g, i) = MatchStep(rule, path, f, i)
    <3> SUFFICES ASSUME NEW i \in k .. n + 1
                 PROVE  MatchStep(rule, path, g, i) = MatchStep(rule, path, f, i)
      OBVIOUS
    <3>1. ~ (i > Len(rule)) => g[i + 1] = f[i + 1]
      <4> SUFFICES ASSUME ~ (i > Len(rule)) PROVE g[i + 1] = f[i + 1]
        OBVIOUS
      <4>1. i + 1 \in k + 1 .. n + 1
        OBVIOUS
      <4> HIDE DEF f
      <4> QED
        BY <2>2, <4>1
    <3> HIDE DEF f
    <3>2. \A j : MatchAt(rule, path, g, i, j) = MatchAt(rule, path, f, i, j)
      BY <3>1 DEF MatchAt
    <3> QED
      BY <3>2 DEF MatchStep
  <2>4. f = [i \in k .. n + 1 |-> MatchStep(rule, path, f, i)]
    <3>1. [i \in k .. n + 1 |-> MatchStep(rule, path, g, i)]
            = [i \in k .. n + 1 |-> MatchStep(rule, path, f, i)]
      <4> HIDE DEF f
      <4> QED
        BY <2>3, Zenon
    <3> QED
      BY <3>1
  <2>5. \E h : IsMatch(h, k)
    BY <2>4
  <2> HIDE DEF IsMatch
  <2> QED
    BY <2>5
<1>3. \E f : IsMatch(f, 1)
  <2>1. \A k \in 1 .. n : (k + 1 .. n + 1 \subseteq Exist) => k \in Exist
    <3> HIDE DEF Exist
    <3>1. \A k \in 1 .. n : k + 1 \in k + 1 .. n + 1
      OBVIOUS
    <3> QED
      BY <1>2, <3>1
  <2>2. 1 \in Exist
    <3> HIDE DEF Exist
    <3>1. \A k \in 1 .. n + 1 : k \in Exist
      BY <1>1, <2>1, DownTo
    <3> QED
      BY <3>1
  <2> HIDE DEF IsMatch
  <2> QED
    BY <2>2
<1>4. Match(rule, path) = CHOOSE f : IsMatch(f, 1)
  BY DEF Match, MatchStep, MatchAt
<1>5. IsMatch(Match(rule, path), 1)
  <2> HIDE DEF IsMatch
  <2> QED
    BY <1>3, <1>4
<1> QED
  <2> DEFINE f == Match(rule, path)
  <2>1. f = [i \in 1 .. n + 1 |-> MatchStep(rule, path, f, i)]
    BY <1>5
  <2> HIDE DEF f
  <2> SUFFICES ASSUME NEW i \in 1 .. n + 1, NEW j \in 1 .. Len(path) + 1
               PROVE  f[i][j] = MatchAt(rule, path, f, i, j)
    BY DEF f
  <2>2. [k \in 1 .. n + 1 |-> MatchStep(rule, path, f, k)][i] = MatchStep(rule, path, f, i)
    OBVIOUS
  <2>3. f[i] = MatchStep(rule, path, f, i)
    BY <2>1, <2>2, Zenon
  <2> QED
    BY <2>3 DEF MatchStep

-----------------------------------------------------------------------------
(* What Match computes.                                                    *)

\* The ways to place the ends of the parts of a rule, from part i on, in a
\* path, from position j on: e[p] is where the part before p ends.
Ends(rule, path, i, j) ==
    {e \in [i .. Len(rule) + 1 -> 0 .. Len(path)] :
        /\ e[i] = j - 1
        /\ e[Len(rule) + 1] = Len(path)
        /\ \A p \in i .. Len(rule) :
              /\ e[p] < e[p + 1]
              /\ \/ rule[p].param
                 \/ e[p + 1] = e[p] + 1 /\ Fits(rule[p].text[1], path[e[p] + 1])}

\* Where another way first differs from e, e has the longer part.
Greediest(rule, path, i, j, e) ==
    \A d \in Ends(rule, path, i, j) :
        \/ d = e
        \/ \E p \in i .. Len(rule) : e[p + 1] > d[p + 1] /\ \A q \in i .. p : e[q] = d[q]

\* What is captured.
Pair == [key : Seq(STRING), val : Seq(STRING)]

\* Each parameter has a capture, the text between its ends, and those before
\* it are the captures of parameters before it.
Captured(rule, path, i, e, c) ==
    /\ c \in Seq(Pair)
    /\ \A p \in i .. Len(rule) : rule[p].param =>
          \E q \in 1 .. Len(c) :
             /\ c[q].key = rule[p].text
             /\ c[q].val = SubSeq(path, e[p] + 1, e[p + 1])
             /\ \A r \in 1 .. q - 1 : \E t \in i .. p - 1 :
                   rule[t].param /\ rule[t].text = c[r].key

\* Match finds a way if there is one, and the captures of the greediest.
MatchIsRight(rule, path, i) ==
    \A j \in 1 .. Len(path) + 1 :
       /\ Ends(rule, path, i, j) # {} => Match(rule, path)[i][j] # {}
       /\ Match(rule, path)[i][j] # {} =>
             \E e \in Ends(rule, path, i, j), c \in Seq(Pair) :
                /\ Match(rule, path)[i][j] = {c}
                /\ Greediest(rule, path, i, j, e)
                /\ Captured(rule, path, i, e, c)

\* A part fits a piece of the path, from position j to k.
PartFits(part, path, j, k) == part.param \/ (k = j /\ Fits(part.text[1], path[j]))

\* Ends of the parts behind part i are ends from part i on, with that of the
\* part before.
LEMMA ExtendEnds ==
  ASSUME NEW rule \in Seq(Part), NEW path \in Seq(STRING),
         NEW i \in 1 .. Len(rule), NEW j \in 1 .. Len(path), NEW k \in j .. Len(path),
         NEW e \in Ends(rule, path, i + 1, k + 1), PartFits(rule[i], path, j, k)
  PROVE  [p \in i .. Len(rule) + 1 |-> IF p = i THEN j - 1 ELSE e[p]]
            \in Ends(rule, path, i, j)
<1> DEFINE n == Len(rule)
           m == Len(path)
           f == [p \in i .. n + 1 |-> IF p = i THEN j - 1 ELSE e[p]]
<1>1. n \in Nat /\ m \in Nat /\ i \in 1 .. n /\ j \in 1 .. m /\ k \in j .. m
  BY LenProperties
<1>2. /\ e \in [i + 1 .. n + 1 -> 0 .. m]
      /\ e[i + 1] = (k + 1) - 1 /\ e[n + 1] = m
      /\ \A p \in i + 1 .. n :
            /\ e[p] < e[p + 1]
            /\ rule[p].param \/ (e[p + 1] = e[p] + 1 /\ Fits(rule[p].text[1], path[e[p] + 1]))
  BY DEF Ends
<1> HIDE DEF n, m
<1>3. f[i] = j - 1 /\ \A p \in i + 1 .. n + 1 : f[p] = e[p]
  BY <1>1
<1>4. f \in [i .. n + 1 -> 0 .. m]
  <2>1. \A p \in i .. n + 1 : (IF p = i THEN j - 1 ELSE e[p]) \in 0 .. m
    BY <1>1, <1>2
  <2> QED
    BY <2>1
<1> HIDE DEF f
<1>5. f[n + 1] = m
  BY <1>1, <1>2, <1>3
<1>6. ASSUME NEW p \in i .. n
      PROVE  /\ f[p] < f[p + 1]
             /\ rule[p].param \/ (f[p + 1] = f[p] + 1 /\ Fits(rule[p].text[1], path[f[p] + 1]))
  <2>1. CASE p = i
    <3>1. f[p] = j - 1 /\ f[p + 1] = k /\ f[p] + 1 = j
      BY <1>1, <1>2, <1>3, <2>1
    <3>2. f[p] < f[p + 1]
      BY <1>1, <3>1
    <3>3. rule[p].param \/ (f[p + 1] = f[p] + 1 /\ Fits(rule[p].text[1], path[f[p] + 1]))
      BY <2>1, <3>1 DEF PartFits
    <3> QED
      BY <3>2, <3>3
  <2>2. CASE p # i
    <3>1. p \in i + 1 .. n /\ f[p] = e[p] /\ f[p + 1] = e[p + 1]
      BY <1>1, <1>3, <2>2
    <3> QED
      BY <1>2, <3>1
  <2> QED
    BY <2>1, <2>2
<1> QED
  BY <1>3, <1>4, <1>5, <1>6 DEF Ends, f, n, m

\* Ends from part i on are ends of the parts behind it.
LEMMA RestrictEnds ==
  ASSUME NEW rule \in Seq(Part), NEW path \in Seq(STRING),
         NEW i \in 1 .. Len(rule), NEW j \in 1 .. Len(path) + 1,
         NEW e \in Ends(rule, path, i, j)
  PROVE  /\ j \in 1 .. Len(path) /\ e[i + 1] \in j .. Len(path)
         /\ [p \in i + 1 .. Len(rule) + 1 |-> e[p]]
               \in Ends(rule, path, i + 1, e[i + 1] + 1)
         /\ PartFits(rule[i], path, j, e[i + 1])
<1> DEFINE n == Len(rule)
           m == Len(path)
           f == [p \in i + 1 .. n + 1 |-> e[p]]
<1>1. n \in Nat /\ m \in Nat /\ i \in 1 .. n /\ j \in 1 .. m + 1
  BY LenProperties
<1>2. /\ e \in [i .. n + 1 -> 0 .. m]
      /\ e[i] = j - 1 /\ e[n + 1] = m
      /\ \A p \in i .. n :
            /\ e[p] < e[p + 1]
            /\ rule[p].param \/ (e[p + 1] = e[p] + 1 /\ Fits(rule[p].text[1], path[e[p] + 1]))
  BY DEF Ends
<1> HIDE DEF n, m
<1>3. i \in i .. n /\ i + 1 \in i .. n + 1 /\ i + 1 \in i + 1 .. n + 1 /\ n + 1 \in i + 1 .. n + 1
  BY <1>1
<1>4. e[i + 1] \in 0 .. m /\ e[i] < e[i + 1]
  BY <1>2, <1>3
<1>5. j \in 1 .. m /\ e[i + 1] \in j .. m
  BY <1>1, <1>2, <1>4
<1>6. /\ f \in [i + 1 .. n + 1 -> 0 .. m]
      /\ \A p \in i + 1 .. n + 1 : f[p] = e[p]
  <2>1. \A p \in i + 1 .. n + 1 : e[p] \in 0 .. m
    BY <1>1, <1>2
  <2> QED
    BY <2>1
<1> HIDE DEF f
<1>7. \A p \in i + 1 .. n :
         /\ f[p] < f[p + 1]
         /\ rule[p].param \/ (f[p + 1] = f[p] + 1 /\ Fits(rule[p].text[1], path[f[p] + 1]))
  <2>1. \A p \in i + 1 .. n : p \in i + 1 .. n + 1 /\ p + 1 \in i + 1 .. n + 1 /\ p \in i .. n
    BY <1>1
  <2> QED
    BY <1>2, <1>6, <2>1
<1>8. f[i + 1] = (e[i + 1] + 1) - 1 /\ f[n + 1] = m
  BY <1>2, <1>3, <1>4, <1>6
<1>9. f \in Ends(rule, path, i + 1, e[i + 1] + 1)
  BY <1>6, <1>7, <1>8 DEF Ends, n, m
<1>10. PartFits(rule[i], path, j, e[i + 1])
  <2>1. e[i] + 1 = j
    BY <1>1, <1>2
  <2>2. rule[i].param \/ (e[i + 1] = e[i] + 1 /\ Fits(rule[i].text[1], path[e[i] + 1]))
    BY <1>2, <1>3
  <2> QED
    BY <2>1, <2>2 DEF PartFits
<1> QED
  BY <1>5, <1>9, <1>10 DEF f, n, m

\* Behind the last part, only the end of the path is left.
LEMMA MatchAtEnd ==
  ASSUME NEW rule \in Seq(Part), NEW path \in Seq(STRING)
  PROVE  MatchIsRight(rule, path, Len(rule) + 1)
<1> DEFINE n == Len(rule)
           m == Len(path)
           M == Match(rule, path)
           E(j) == Ends(rule, path, n + 1, j)
<1>1. n \in Nat /\ m \in Nat
  BY LenProperties
<1> SUFFICES ASSUME NEW j \in 1 .. m + 1
             PROVE  /\ E(j) # {} => M[n + 1][j] # {}
                    /\ M[n + 1][j] # {} =>
                          \E e \in E(j), c \in Seq(Pair) :
                             /\ M[n + 1][j] = {c}
                             /\ Greediest(rule, path, n + 1, j, e)
                             /\ Captured(rule, path, n + 1, e, c)
  BY DEF MatchIsRight
<1>2. M[n + 1][j] = IF j > m THEN {<<>>} ELSE {}
  <2>1. n + 1 \in 1 .. n + 1 /\ n + 1 > Len(rule)
    BY <1>1
  <2>2. M[n + 1][j] = MatchAt(rule, path, M, n + 1, j)
    BY <1>1, <2>1, MatchEquation
  <2> HIDE DEF M, n
  <2> QED
    BY <2>1, <2>2 DEF MatchAt
<1> HIDE DEF M
<1>3. CASE j > m
  <2> DEFINE e == [p \in n + 1 .. n + 1 |-> m]
  <2>1. e \in E(j)
    BY <1>1, <1>3 DEF Ends
  <2>2. \A d \in E(j) : d = e
    <3> SUFFICES ASSUME NEW d \in E(j) PROVE d = e
      OBVIOUS
    <3>1. d \in [n + 1 .. n + 1 -> 0 .. m] /\ d[n + 1] = m
      BY DEF Ends
    <3> HIDE DEF n, m
    <3> QED
      BY <1>1, <3>1
  <2>3. Greediest(rule, path, n + 1, j, e)
    BY <2>2 DEF Greediest
  <2>4. Captured(rule, path, n + 1, e, <<>>)
    <3>1. <<>> \in Seq(Pair) /\ n + 1 .. n = {}
      BY <1>1, EmptySeq
    <3> HIDE DEF e
    <3> QED
      BY <3>1 DEF Captured, n
  <2>5. M[n + 1][j] = {<<>>} /\ <<>> \in Seq(Pair)
    BY <1>2, <1>3, EmptySeq
  <2> HIDE DEF e, E
  <2> QED
    BY <2>1, <2>3, <2>4, <2>5
<1>4. CASE ~ (j > m)
  <2>1. E(j) = {}
    <3> SUFFICES ASSUME NEW d \in E(j) PROVE FALSE
      OBVIOUS
    <3>1. m = j - 1
      BY DEF Ends
    <3> QED
      BY <1>1, <1>4, <3>1
  <2> QED
    BY <1>2, <1>4, <2>1
<1> QED
  BY <1>3, <1>4

\* Ends from part i on, given those behind it.
Extended(rule, i, j, e) == [p \in i .. Len(rule) + 1 |-> IF p = i THEN j - 1 ELSE e[p]]

\* The greediest ends behind a part, and the furthest end of the part, are
\* the greediest from the part on.
LEMMA ExtendGreediest ==
  ASSUME NEW rule \in Seq(Part), NEW path \in Seq(STRING),
         NEW i \in 1 .. Len(rule), NEW j \in 1 .. Len(path), NEW k \in j .. Len(path),
         NEW e \in Ends(rule, path, i + 1, k + 1),
         Greediest(rule, path, i + 1, k + 1, e),
         \A d \in Ends(rule, path, i, j) : d[i + 1] <= k
  PROVE  Greediest(rule, path, i, j, Extended(rule, i, j, e))
<1> DEFINE n == Len(rule)
           f == Extended(rule, i, j, e)
<1>1. n \in Nat /\ Len(path) \in Nat /\ i \in 1 .. n
  BY LenProperties
<1>2. f = [p \in i .. n + 1 |-> IF p = i THEN j - 1 ELSE e[p]]
  BY DEF Extended
<1>3. f[i] = j - 1 /\ \A p \in i + 1 .. n + 1 : f[p] = e[p]
  BY <1>1, <1>2
<1>4. e[i + 1] = k
  BY <1>1 DEF Ends
<1> SUFFICES ASSUME NEW d \in Ends(rule, path, i, j)
             PROVE  \/ d = f
                    \/ \E p \in i .. n : f[p + 1] > d[p + 1] /\ \A q \in i .. p : f[q] = d[q]
  BY DEF Greediest
<1>5. /\ d \in [i .. n + 1 -> 0 .. Len(path)] /\ d[i] = j - 1
      /\ d[i + 1] <= k
      /\ d[i + 1] \in j .. Len(path)
      /\ [p \in i + 1 .. n + 1 |-> d[p]] \in Ends(rule, path, i + 1, d[i + 1] + 1)
  <2>1. d \in [i .. n + 1 -> 0 .. Len(path)] /\ d[i] = j - 1
    BY DEF Ends
  <2>2. j \in 1 .. Len(path) + 1
    BY <1>1
  <2>3. /\ d[i + 1] \in j .. Len(path)
        /\ [p \in i + 1 .. n + 1 |-> d[p]] \in Ends(rule, path, i + 1, d[i + 1] + 1)
    BY <2>2, RestrictEnds
  <2> QED
    BY <2>1, <2>3
<1> HIDE DEF n, f
<1>6. CASE d[i + 1] < k
  <2>1. i \in i .. n /\ f[i + 1] = k
    BY <1>1, <1>3, <1>4
  <2>2. \A q \in i .. i : f[q] = d[q]
    BY <1>1, <1>3, <1>5
  <2>3. f[i + 1] > d[i + 1]
    BY <1>5, <1>6, <2>1
  <2> QED
    BY <2>1, <2>2, <2>3
<1>7. CASE d[i + 1] = k
  <2> DEFINE r == [p \in i + 1 .. n + 1 |-> d[p]]
  <2>1. r \in Ends(rule, path, i + 1, k + 1)
    BY <1>5, <1>7
  <2>2. \A p \in i + 1 .. n + 1 : r[p] = d[p]
    OBVIOUS
  <2> HIDE DEF r
  <2>3. CASE r = e
    <3>1. \A p \in i .. n + 1 : d[p] = IF p = i THEN j - 1 ELSE e[p]
      BY <1>1, <1>5, <2>2, <2>3
    <3>2. d = [p \in i .. n + 1 |-> d[p]]
      BY <1>5
    <3>3. d = f
      BY <1>2, <3>1, <3>2
    <3> QED
      BY <3>3
  <2>4. CASE \E p \in i + 1 .. n : e[p + 1] > r[p + 1] /\ \A q \in i + 1 .. p : e[q] = r[q]
    <3>1. PICK p \in i + 1 .. n : e[p + 1] > r[p + 1] /\ \A q \in i + 1 .. p : e[q] = r[q]
      BY <2>4
    <3>2. p \in i .. n /\ p + 1 \in i + 1 .. n + 1
      BY <1>1
    <3>3. f[p + 1] > d[p + 1]
      BY <1>3, <2>2, <3>1, <3>2
    <3>4. \A q \in i .. p : f[q] = d[q]
      <4> SUFFICES ASSUME NEW q \in i .. p PROVE f[q] = d[q]
        OBVIOUS
      <4>1. CASE q = i
        BY <1>3, <1>5, <4>1
      <4>2. CASE q # i
        <5>1. q \in i + 1 .. p /\ q \in i + 1 .. n + 1
          BY <1>1, <3>2, <4>2
        <5> QED
          BY <1>3, <2>2, <3>1, <5>1
      <4> QED
        BY <4>1, <4>2
    <3> QED
      BY <3>2, <3>3, <3>4
  <2> QED
    BY <2>1, <2>3, <2>4 DEF Greediest, n
<1> QED
  BY <1>1, <1>5, <1>6, <1>7

\* A parameter adds its own capture before those of the parts behind it.
LEMMA CapturedByParameter ==
  ASSUME NEW rule \in Seq(Part), NEW path \in Seq(STRING),
         NEW i \in 1 .. Len(rule), NEW j \in 1 .. Len(path), NEW k \in j .. Len(path),
         NEW e \in Ends(rule, path, i + 1, k + 1), NEW c \in Seq(Pair),
         Captured(rule, path, i + 1, e, c), rule[i].param
  PROVE  Captured(rule, path, i, Extended(rule, i, j, e),
                  <<[key |-> rule[i].text, val |-> SubSeq(path, j, k)]>> \o c)
<1> DEFINE n == Len(rule)
           f == Extended(rule, i, j, e)
           pair == [key |-> rule[i].text, val |-> SubSeq(path, j, k)]
           all == <<pair>> \o c
<1>1. n \in Nat /\ Len(path) \in Nat /\ i \in 1 .. n /\ Len(c) \in Nat
  BY LenProperties
<1>2. f[i] = j - 1 /\ \A p \in i + 1 .. n + 1 : f[p] = e[p]
  BY <1>1 DEF Extended
<1>3. e[i + 1] = k
  BY <1>1 DEF Ends
<1>4. pair \in Pair
  <2>1. rule[i] \in Part
    BY ElementOfSeq
  <2>2. rule[i].text \in Seq(STRING)
    BY <2>1 DEF Part
  <2>3. SubSeq(path, j, k) \in Seq(STRING)
    <3>1. \A x \in j .. k : path[x] \in STRING
      BY <1>1, ElementOfSeq
    <3> QED
      BY <1>1, <3>1, SubSeqProperties
  <2> QED
    BY <2>2, <2>3 DEF Pair
<1>5. pair.key = rule[i].text /\ pair.val = SubSeq(path, j, k)
  OBVIOUS
<1> HIDE DEF pair
<1>6. /\ all \in Seq(Pair) /\ Len(all) = Len(c) + 1
      /\ all[1] = pair
      /\ \A q \in 1 .. Len(c) : all[q + 1] = c[q]
  <2> DEFINE one == <<pair>>
  <2>1. one \in Seq(Pair) /\ Len(one) = 1 /\ one[1] = pair
    BY <1>4
  <2> HIDE DEF one
  <2>2. /\ one \o c \in Seq(Pair) /\ Len(one \o c) = Len(one) + Len(c)
        /\ \A q \in 1 .. Len(one) + Len(c) :
              (one \o c)[q] = IF q <= Len(one) THEN one[q] ELSE c[q - Len(one)]
    <3>1. one \in Seq(Pair) /\ c \in Seq(Pair)
      BY <2>1
    <3> QED
      BY <3>1, ConcatProperties
  <2>3. 1 \in 1 .. Len(one) + Len(c) /\ 1 <= Len(one)
    BY <1>1, <2>1
  <2>4. \A q \in 1 .. Len(c) : /\ q + 1 \in 1 .. Len(one) + Len(c)
                               /\ ~ (q + 1 <= Len(one)) /\ (q + 1) - Len(one) = q
    BY <1>1, <2>1
  <2>5. Len(one \o c) = Len(c) + 1
    BY <1>1, <2>1, <2>2
  <2>6. (one \o c)[1] = pair /\ \A q \in 1 .. Len(c) : (one \o c)[q + 1] = c[q]
    BY <2>1, <2>2, <2>3, <2>4
  <2> QED
    BY <2>2, <2>5, <2>6 DEF one
<1> HIDE DEF all, f
<1>7. ASSUME NEW p \in i .. n, rule[p].param
      PROVE  \E q \in 1 .. Len(all) :
                /\ all[q].key = rule[p].text
                /\ all[q].val = SubSeq(path, f[p] + 1, f[p + 1])
                /\ \A r \in 1 .. q - 1 : \E t \in i .. p - 1 :
                      rule[t].param /\ rule[t].text = all[r].key
  <2>1. CASE p = i
    <3>1. 1 \in 1 .. Len(all)
      BY <1>1, <1>6
    <3>2. f[p] + 1 = j /\ f[p + 1] = k
      BY <1>1, <1>2, <1>3, <2>1
    <3>3. all[1].key = rule[p].text /\ all[1].val = SubSeq(path, f[p] + 1, f[p + 1])
      BY <1>5, <1>6, <2>1, <3>2
    <3>4. 1 .. 1 - 1 = {}
      OBVIOUS
    <3> QED
      BY <3>1, <3>3, <3>4
  <2>2. CASE p # i
    <3>1. p \in i + 1 .. n
      BY <1>1, <2>2
    <3>2. PICK q \in 1 .. Len(c) :
             /\ c[q].key = rule[p].text
             /\ c[q].val = SubSeq(path, e[p] + 1, e[p + 1])
             /\ \A r \in 1 .. q - 1 : \E t \in i + 1 .. p - 1 :
                   rule[t].param /\ rule[t].text = c[r].key
      BY <1>7, <3>1 DEF Captured, n
    <3>3. f[p] = e[p] /\ f[p + 1] = e[p + 1]
      BY <1>1, <1>2, <3>1
    <3>4. /\ q + 1 \in 1 .. Len(all) /\ all[q + 1] = c[q]
      BY <1>1, <1>6
    <3>5. ASSUME NEW r \in 1 .. (q + 1) - 1
          PROVE  \E t \in i .. p - 1 : rule[t].param /\ rule[t].text = all[r].key
      <4>1. CASE r = 1
        <5>1. i \in i .. p - 1
          BY <1>1, <3>1
        <5>2. rule[i].text = all[r].key
          BY <1>5, <1>6, <4>1
        <5> QED
          BY <5>1, <5>2
      <4>2. CASE r # 1
        <5> DEFINE s == r - 1
        <5>1. s \in 1 .. q - 1 /\ s \in 1 .. Len(c) /\ s + 1 = r
          BY <1>1, <4>2
        <5> HIDE DEF s
        <5>2. PICK t \in i + 1 .. p - 1 : rule[t].param /\ rule[t].text = c[s].key
          BY <3>2, <5>1
        <5>3. t \in i .. p - 1
          BY <1>1
        <5>4. all[r] = c[s]
          <6>1. all[s + 1] = c[s]
            BY <1>6, <5>1
          <6> QED
            BY <5>1, <6>1, Zenon
        <5> QED
          BY <5>2, <5>3, <5>4, Zenon
      <4> QED
        BY <4>1, <4>2
    <3> QED
      BY <3>2, <3>3, <3>4, <3>5
  <2> QED
    BY <2>1, <2>2
<1> QED
  BY <1>6, <1>7 DEF Captured, all, f, pair, n

\* A literal adds no capture.
LEMMA CapturedByLiteral ==
  ASSUME NEW rule \in Seq(Part), NEW path \in Seq(STRING),
         NEW i \in 1 .. Len(rule), NEW j \in 1 .. Len(path), NEW k \in j .. Len(path),
         NEW e \in Ends(rule, path, i + 1, k + 1), NEW c \in Seq(Pair),
         Captured(rule, path, i + 1, e, c), ~ rule[i].param
  PROVE  Captured(rule, path, i, Extended(rule, i, j, e), c)
<1> DEFINE n == Len(rule)
           f == Extended(rule, i, j, e)
<1>1. n \in Nat /\ i \in 1 .. n
  BY LenProperties
<1>2. \A p \in i + 1 .. n + 1 : f[p] = e[p]
  BY <1>1 DEF Extended
<1> HIDE DEF f
<1>3. ASSUME NEW p \in i .. n, rule[p].param
      PROVE  \E q \in 1 .. Len(c) :
                /\ c[q].key = rule[p].text
                /\ c[q].val = SubSeq(path, f[p] + 1, f[p + 1])
                /\ \A r \in 1 .. q - 1 : \E t \in i .. p - 1 :
                      rule[t].param /\ rule[t].text = c[r].key
  <2>1. p \in i + 1 .. n
    BY <1>1, <1>3
  <2>2. PICK q \in 1 .. Len(c) :
           /\ c[q].key = rule[p].text
           /\ c[q].val = SubSeq(path, e[p] + 1, e[p + 1])
           /\ \A r \in 1 .. q - 1 : \E t \in i + 1 .. p - 1 :
                 rule[t].param /\ rule[t].text = c[r].key
    BY <1>3, <2>1 DEF Captured
  <2>3. f[p] = e[p] /\ f[p + 1] = e[p + 1]
    BY <1>1, <1>2, <2>1
  <2>4. \A t \in i + 1 .. p - 1 : t \in i .. p - 1
    BY <1>1
  <2> QED
    BY <2>2, <2>3, <2>4
<1> QED
  BY <1>3 DEF Captured, f

\* What Match has found behind a part it has found from the part on, if the
\* part fits up to there and nothing reaches further.
LEMMA MatchExtends ==
  ASSUME NEW rule \in Seq(Part), NEW path \in Seq(STRING),
         NEW i \in 1 .. Len(rule), NEW j \in 1 .. Len(path), NEW k \in j .. Len(path),
         MatchIsRight(rule, path, i + 1), Match(rule, path)[i + 1][k + 1] # {},
         PartFits(rule[i], path, j, k),
         \A d \in Ends(rule, path, i, j) : d[i + 1] <= k
  PROVE  \E e \in Ends(rule, path, i, j), c \in Seq(Pair), b \in Seq(Pair) :
            /\ Match(rule, path)[i + 1][k + 1] = {c}
            /\ b = IF rule[i].param
                   THEN <<[key |-> rule[i].text, val |-> SubSeq(path, j, k)]>> \o c
                   ELSE c
            /\ Greediest(rule, path, i, j, e)
            /\ Captured(rule, path, i, e, b)
<1>1. k + 1 \in 1 .. Len(path) + 1
  BY LenProperties
<1>2. PICK e \in Ends(rule, path, i + 1, k + 1), c \in Seq(Pair) :
         /\ Match(rule, path)[i + 1][k + 1] = {c}
         /\ Greediest(rule, path, i + 1, k + 1, e)
         /\ Captured(rule, path, i + 1, e, c)
  BY <1>1 DEF MatchIsRight
<1> DEFINE f == Extended(rule, i, j, e)
           b == IF rule[i].param
                THEN <<[key |-> rule[i].text, val |-> SubSeq(path, j, k)]>> \o c
                ELSE c
<1>3. f \in Ends(rule, path, i, j)
  BY ExtendEnds DEF Extended
<1>4. Greediest(rule, path, i, j, f)
  BY <1>2, ExtendGreediest
<1>5. Captured(rule, path, i, f, b)
  <2>1. CASE rule[i].param
    BY <1>2, <2>1, CapturedByParameter
  <2>2. CASE ~ rule[i].param
    BY <1>2, <2>2, CapturedByLiteral
  <2> QED
    BY <2>1, <2>2
<1>6. b \in Seq(Pair)
  BY <1>5 DEF Captured
<1> HIDE DEF f
<1> QED
  BY <1>2, <1>3, <1>4, <1>5, <1>6

\* Part by part, Match is right.
LEMMA MatchStepIsRight ==
  ASSUME NEW rule \in Seq(Part), NEW path \in Seq(STRING),
         NEW i \in 1 .. Len(rule), MatchIsRight(rule, path, i + 1)
  PROVE  MatchIsRight(rule, path, i)
<1> DEFINE n == Len(rule)
           m == Len(path)
           M == Match(rule, path)
<1>1. n \in Nat /\ m \in Nat /\ i \in 1 .. n
  BY LenProperties
<1> SUFFICES ASSUME NEW j \in 1 .. m + 1
             PROVE  /\ Ends(rule, path, i, j) # {} => M[i][j] # {}
                    /\ M[i][j] # {} =>
                          \E e \in Ends(rule, path, i, j), c \in Seq(Pair) :
                             /\ M[i][j] = {c}
                             /\ Greediest(rule, path, i, j, e)
                             /\ Captured(rule, path, i, e, c)
  BY DEF MatchIsRight
<1>2. M[i][j] = MatchAt(rule, path, M, i, j) /\ ~ (i > Len(rule))
  <2>1. i \in 1 .. Len(rule) + 1
    BY <1>1
  <2> QED
    BY <1>1, <2>1, MatchEquation
<1>3. ASSUME NEW d \in Ends(rule, path, i, j)
      PROVE  /\ j \in 1 .. m /\ d[i + 1] \in j .. m
             /\ M[i + 1][d[i + 1] + 1] # {}
             /\ PartFits(rule[i], path, j, d[i + 1])
  <2>1. /\ j \in 1 .. m /\ d[i + 1] \in j .. m
        /\ Ends(rule, path, i + 1, d[i + 1] + 1) # {}
        /\ PartFits(rule[i], path, j, d[i + 1])
    BY RestrictEnds
  <2>2. d[i + 1] + 1 \in 1 .. m + 1
    BY <1>1, <2>1
  <2> QED
    BY <2>1, <2>2 DEF MatchIsRight
<1> HIDE DEF M
<1>4. CASE rule[i].param
  <2> DEFINE ends == {k \in j .. m : M[i + 1][k + 1] # {}}
             pair(k) == [key |-> rule[i].text, val |-> SubSeq(path, j, k)]
  <2>1. M[i][j] = IF ends = {} THEN {}
                  ELSE {<<pair(Max(ends))>> \o c : c \in M[i + 1][Max(ends) + 1]}
    BY <1>2, <1>4, Zenon DEF MatchAt
  <2>2. \A d \in Ends(rule, path, i, j) : d[i + 1] \in ends
    BY <1>3
  <2>3. CASE ends = {}
    BY <2>1, <2>2, <2>3
  <2>4. CASE ends # {}
    <3> DEFINE k == Max(ends)
    <3>1. ends \in SUBSET (0 .. m)
      BY <1>1
    <3>2. k \in ends /\ \A l \in ends : l <= k
      <4> HIDE DEF ends, m
      <4> QED
        BY <1>1, <2>4, <3>1, MaxOfPositions
    <3>3. /\ j \in 1 .. m /\ k \in j .. m /\ M[i + 1][k + 1] # {}
          /\ \A d \in Ends(rule, path, i, j) : d[i + 1] <= k
      <4> HIDE DEF k
      <4> QED
        BY <1>1, <2>2, <3>2
    <3> HIDE DEF ends, k
    <3>4. PICK e \in Ends(rule, path, i, j), c \in Seq(Pair), b \in Seq(Pair) :
             /\ M[i + 1][k + 1] = {c}
             /\ b = <<pair(k)>> \o c
             /\ Greediest(rule, path, i, j, e)
             /\ Captured(rule, path, i, e, b)
      <4>1. PartFits(rule[i], path, j, k)
        BY <1>4 DEF PartFits
      <4>2. \E e \in Ends(rule, path, i, j), c \in Seq(Pair), b \in Seq(Pair) :
               /\ M[i + 1][k + 1] = {c}
               /\ b = IF rule[i].param
                      THEN <<[key |-> rule[i].text, val |-> SubSeq(path, j, k)]>> \o c
                      ELSE c
               /\ Greediest(rule, path, i, j, e)
               /\ Captured(rule, path, i, e, b)
        BY <3>3, <4>1, MatchExtends DEF M
      <4> QED
        BY <1>4, <4>2
    <3>5. M[i][j] = {b}
      <4>1. M[i][j] = {<<pair(k)>> \o a : a \in {c}}
        BY <2>1, <2>4, <3>4 DEF k
      <4> HIDE DEF pair
      <4> QED
        BY <3>4, <4>1
    <3> QED
      BY <3>4, <3>5
  <2> QED
    BY <2>3, <2>4
<1>5. CASE ~ rule[i].param
  <2>1. M[i][j] = IF j <= m /\ Fits(rule[i].text[1], path[j])
                  THEN M[i + 1][j + 1] ELSE {}
    BY <1>2, <1>5, Zenon DEF MatchAt
  <2>2. \A d \in Ends(rule, path, i, j) :
           d[i + 1] = j /\ Fits(rule[i].text[1], path[j]) /\ j <= m
    BY <1>3, <1>5 DEF PartFits
  <2>3. Ends(rule, path, i, j) # {} => M[i][j] # {}
    BY <1>3, <2>1, <2>2
  <2>4. ASSUME M[i][j] # {}
        PROVE  \E e \in Ends(rule, path, i, j), c \in Seq(Pair) :
                  /\ M[i][j] = {c}
                  /\ Greediest(rule, path, i, j, e)
                  /\ Captured(rule, path, i, e, c)
    <3>1. /\ j <= m /\ Fits(rule[i].text[1], path[j])
          /\ M[i][j] = M[i + 1][j + 1]
      BY <2>1, <2>4
    <3>2. j \in 1 .. m /\ j \in j .. m /\ PartFits(rule[i], path, j, j)
      BY <1>1, <3>1 DEF PartFits
    <3>3. \A d \in Ends(rule, path, i, j) : d[i + 1] <= j
      BY <1>1, <2>2
    <3>4. \E e \in Ends(rule, path, i, j), c \in Seq(Pair), b \in Seq(Pair) :
             /\ M[i + 1][j + 1] = {c}
             /\ b = IF rule[i].param
                    THEN <<[key |-> rule[i].text, val |-> SubSeq(path, j, j)]>> \o c
                    ELSE c
             /\ Greediest(rule, path, i, j, e)
             /\ Captured(rule, path, i, e, b)
      BY <2>4, <3>1, <3>2, <3>3, MatchExtends DEF M
    <3> QED
      BY <1>5, <3>1, <3>4
  <2> QED
    BY <2>3, <2>4
<1> QED
  BY <1>4, <1>5

\* Match finds a way to cut a path into the parts of a rule if there is one,
\* and then captures the parameters of the greediest.
LEMMA MatchIsGreedy ==
  ASSUME NEW rule \in Seq(Part), NEW path \in Seq(STRING)
  PROVE  /\ Ends(rule, path, 1, 1) # {} <=> Captures(rule, path) # {}
         /\ Captures(rule, path) # {} =>
               \E e \in Ends(rule, path, 1, 1), c \in Seq(Pair) :
                  /\ Captures(rule, path) = {c}
                  /\ Greediest(rule, path, 1, 1, e)
                  /\ Captured(rule, path, 1, e, c)
<1> DEFINE n == Len(rule)
           Right == {i \in Nat : MatchIsRight(rule, path, i)}
<1>1. n \in Nat /\ Len(path) \in Nat
  BY LenProperties
<1>2. n + 1 \in Right
  BY <1>1, MatchAtEnd
<1>3. ASSUME NEW i \in 1 .. n, i + 1 .. n + 1 \subseteq Right PROVE i \in Right
  <2>1. i + 1 \in i + 1 .. n + 1 /\ i \in Nat
    BY <1>1
  <2>2. MatchIsRight(rule, path, i + 1)
    BY <1>3, <2>1
  <2>3. MatchIsRight(rule, path, i)
    BY <2>2, MatchStepIsRight
  <2> QED
    BY <2>1, <2>3
<1>4. \A i \in 1 .. n + 1 : i \in Right
  <2> HIDE DEF Right, n
  <2> QED
    BY <1>1, <1>2, <1>3, DownTo
<1>5. MatchIsRight(rule, path, 1) /\ 1 \in 1 .. Len(path) + 1
  BY <1>1, <1>4
<1> QED
  BY <1>5 DEF MatchIsRight, Captures

-----------------------------------------------------------------------------
(* From ends to cuts.                                                      *)

\* The cut of a path that ends its pieces at e.
Cut(path, e, n) == [p \in 1 .. n |-> SubSeq(path, e[p] + 1, e[p + 1])]

\* A piece of a path.
LEMMA Piece ==
  ASSUME NEW path \in Seq(STRING), NEW a \in 0 .. Len(path), NEW b \in 0 .. Len(path), a < b
  PROVE  /\ SubSeq(path, a + 1, b) \in Seq(STRING)
         /\ Len(SubSeq(path, a + 1, b)) = b - a
         /\ SubSeq(path, a + 1, b)[1] = path[a + 1]
<1> DEFINE m == Len(path)
           from == a + 1
           s == SubSeq(path, from, b)
<1>1. m \in Nat
  BY LenProperties
<1>2. a \in 0 .. m /\ b \in 0 .. m
  OBVIOUS
<1>3. from \in Int /\ b \in Int /\ from \in 1 .. m /\ from = a + 1
  BY <1>1, <1>2
<1>4. \A i \in from .. b : path[i] \in STRING
  <2> SUFFICES ASSUME NEW i \in from .. b PROVE path[i] \in STRING
    OBVIOUS
  <2>1. i \in 1 .. m
    BY <1>1, <1>2, <1>3
  <2> QED
    BY <2>1, ElementOfSeq
<1> HIDE DEF m, from
<1>5. /\ s \in Seq(STRING)
      /\ Len(s) = IF from <= b THEN b - from + 1 ELSE 0
      /\ \A i \in 1 .. b - from + 1 : s[i] = path[from + i - 1]
  BY <1>3, <1>4, SubSeqProperties
<1> HIDE DEF s
<1>6. Len(s) = b - a
  BY <1>1, <1>2, <1>3, <1>5
<1>7. 1 \in 1 .. b - from + 1 /\ from + 1 - 1 = from
  BY <1>1, <1>2, <1>3
<1>8. s[1] = path[from]
  BY <1>5, <1>7
<1> QED
  BY <1>5, <1>6, <1>8 DEF s, from

\* The ends of all the parts, and the length and the first character of each
\* piece.
LEMMA Pieces ==
  ASSUME NEW rule \in Seq(Part), NEW path \in Seq(STRING), NEW e,
         e \in [1 .. Len(rule) + 1 -> 0 .. Len(path)],
         \A p \in 1 .. Len(rule) : e[p] < e[p + 1],
         NEW p \in 1 .. Len(rule)
  PROVE  /\ e[p] \in 0 .. Len(path) /\ e[p + 1] \in 0 .. Len(path)
         /\ Cut(path, e, Len(rule))[p] = SubSeq(path, e[p] + 1, e[p + 1])
         /\ Len(Cut(path, e, Len(rule))[p]) = e[p + 1] - e[p]
         /\ Cut(path, e, Len(rule))[p][1] = path[e[p] + 1]
<1> DEFINE n == Len(rule)
<1>1. n \in Nat /\ p \in 1 .. n /\ p \in 1 .. n + 1 /\ p + 1 \in 1 .. n + 1
  BY LenProperties
<1>2. e[p] \in 0 .. Len(path) /\ e[p + 1] \in 0 .. Len(path) /\ e[p] < e[p + 1]
  BY <1>1
<1>3. Cut(path, e, n)[p] = SubSeq(path, e[p] + 1, e[p + 1])
  BY <1>1 DEF Cut
<1> DEFINE a == e[p]
           b == e[p + 1]
<1> HIDE DEF n, a, b
<1>4. /\ Len(SubSeq(path, a + 1, b)) = b - a
      /\ SubSeq(path, a + 1, b)[1] = path[a + 1]
  <2>1. a \in 0 .. Len(path) /\ b \in 0 .. Len(path) /\ a < b
    BY <1>2 DEF a, b
  <2> QED
    BY <2>1, Piece
<1> QED
  BY <1>2, <1>3, <1>4 DEF a, b, n

\* The good cuts are those of the ends that Match chooses from.
LEMMA GoodCutsByEnds ==
  ASSUME NEW rule \in Seq(Part), NEW path \in Seq(STRING)
  PROVE  /\ \A e \in Ends(rule, path, 1, 1) : Cut(path, e, Len(rule)) \in GoodCuts(rule, path)
         /\ \A cut \in GoodCuts(rule, path) :
               \E e \in Ends(rule, path, 1, 1) : cut = Cut(path, e, Len(rule))
<1> DEFINE n == Len(rule)
           m == Len(path)
           All1 == {e \in [1 .. n + 1 -> 0 .. m] :
                      /\ e[1] = 0 /\ e[n + 1] = m
                      /\ \A i \in 1 .. n : e[i] < e[i + 1]}
           Agrees(cut) == \A i \in DOMAIN rule :
              rule[i].param \/ (Len(cut[i]) = 1 /\ Fits(rule[i].text[1], cut[i][1]))
<1>1. n \in Nat /\ m \in Nat /\ DOMAIN rule = 1 .. n
  BY LenProperties
<1>2. Cuts(path, n) = {Cut(path, e, n) : e \in All1}
  BY DEF Cuts, Cut
<1>3. GoodCuts(rule, path) = {cut \in Cuts(path, n) : Agrees(cut)}
  BY DEF GoodCuts
<1>4. ASSUME NEW e \in All1
      PROVE  Agrees(Cut(path, e, n)) <=>
                \A p \in 1 .. n : rule[p].param
                   \/ (e[p + 1] = e[p] + 1 /\ Fits(rule[p].text[1], path[e[p] + 1]))
  <2>1. \A p \in 1 .. n :
           /\ e[p] \in 0 .. m /\ e[p + 1] \in 0 .. m
           /\ Len(Cut(path, e, n)[p]) = e[p + 1] - e[p]
           /\ Cut(path, e, n)[p][1] = path[e[p] + 1]
    <3>1. e \in [1 .. n + 1 -> 0 .. m] /\ \A p \in 1 .. n : e[p] < e[p + 1]
      OBVIOUS
    <3> QED
      BY <3>1, Pieces, ZenonT(40)
  <2>2. \A p \in 1 .. n : Len(Cut(path, e, n)[p]) = 1 <=> e[p + 1] = e[p] + 1
    <3> SUFFICES ASSUME NEW p \in 1 .. n
                 PROVE  Len(Cut(path, e, n)[p]) = 1 <=> e[p + 1] = e[p] + 1
      OBVIOUS
    <3> DEFINE len == Len(Cut(path, e, n)[p])
    <3>1. e[p] \in 0 .. m /\ e[p + 1] \in 0 .. m /\ len = e[p + 1] - e[p]
      BY <2>1
    <3> HIDE DEF len, m
    <3>2. len = 1 <=> e[p + 1] = e[p] + 1
      BY <1>1, <3>1
    <3> QED
      BY <3>2 DEF len
  <2> HIDE DEF n, m
  <2> QED
    BY <1>1, <2>1, <2>2
<1>5. \A e : e \in Ends(rule, path, 1, 1) <=>
                e \in All1 /\ \A p \in 1 .. n : rule[p].param
                   \/ (e[p + 1] = e[p] + 1 /\ Fits(rule[p].text[1], path[e[p] + 1]))
  <2>1. 1 - 1 = 0
    OBVIOUS
  <2> QED
    BY <2>1, Zenon DEF Ends
<1> HIDE DEF n, m, All1, Agrees
<1> QED
  BY <1>2, <1>3, <1>4, <1>5 DEF n, m

\* The lengths of the pieces.
LEMMA PieceLengths ==
  ASSUME NEW rule \in Seq(Part), NEW path \in Seq(STRING),
         NEW e \in Ends(rule, path, 1, 1)
  PROVE  \A q \in 1 .. Len(rule) :
            /\ e[q] \in Int /\ e[q + 1] \in Int
            /\ Len(Cut(path, e, Len(rule))[q]) = e[q + 1] - e[q]
<1> DEFINE n == Len(rule)
<1>1. e \in [1 .. n + 1 -> 0 .. Len(path)] /\ \A q \in 1 .. n : e[q] < e[q + 1]
  BY DEF Ends
<1> SUFFICES ASSUME NEW q \in 1 .. n
             PROVE  /\ e[q] \in Int /\ e[q + 1] \in Int
                    /\ Len(Cut(path, e, n)[q]) = e[q + 1] - e[q]
  OBVIOUS
<1>2. /\ e[q] \in 0 .. Len(path) /\ e[q + 1] \in 0 .. Len(path)
      /\ Len(Cut(path, e, n)[q]) = e[q + 1] - e[q]
  BY <1>1, Pieces, ZenonT(40)
<1>3. Len(path) \in Nat
  BY LenProperties
<1> QED
  BY <1>2, <1>3

\* Ends that reach further where they first differ make the greedier cut.
LEMMA FurtherIsGreedier ==
  ASSUME NEW rule \in Seq(Part), NEW path \in Seq(STRING),
         NEW e \in Ends(rule, path, 1, 1), NEW d \in Ends(rule, path, 1, 1),
         NEW p \in 1 .. Len(rule), e[p + 1] > d[p + 1], \A q \in 1 .. p : e[q] = d[q]
  PROVE  /\ Greedier(Cut(path, e, Len(rule)), Cut(path, d, Len(rule)))
         /\ ~ Greedier(Cut(path, d, Len(rule)), Cut(path, e, Len(rule)))
<1> DEFINE n == Len(rule)
           x == Cut(path, e, n)
           y == Cut(path, d, n)
<1>1. n \in Nat /\ p \in 1 .. n
  BY LenProperties
<1>2. \A q \in 1 .. n : /\ e[q] \in Int /\ e[q + 1] \in Int /\ d[q] \in Int /\ d[q + 1] \in Int
                        /\ Len(x[q]) = e[q + 1] - e[q] /\ Len(y[q]) = d[q + 1] - d[q]
  BY PieceLengths
<1>3. DOMAIN x = 1 .. n /\ DOMAIN y = 1 .. n
  BY DEF Cut
<1> DEFINE lx(q) == Len(x[q])
           ly(q) == Len(y[q])
<1>4. lx(p) > ly(p) /\ lx(p) \in Int /\ ly(p) \in Int
  <2> HIDE DEF x, y, n
  <2>1. lx(p) = e[p + 1] - e[p] /\ ly(p) = d[p + 1] - d[p] /\ e[p] = d[p]
    BY <1>1, <1>2
  <2>2. e[p] \in Int /\ e[p + 1] \in Int /\ d[p + 1] \in Int
    BY <1>1, <1>2
  <2> HIDE DEF lx, ly
  <2> QED
    BY <2>1, <2>2
<1>5. \A q \in 1 .. p - 1 : lx(q) = ly(q) /\ lx(q) \in Int
  <2> SUFFICES ASSUME NEW q \in 1 .. p - 1 PROVE lx(q) = ly(q) /\ lx(q) \in Int
    OBVIOUS
  <2>1. q \in 1 .. p /\ q + 1 \in 1 .. p /\ q \in 1 .. n
    BY <1>1
  <2> HIDE DEF x, y, n
  <2>2. lx(q) = e[q + 1] - e[q] /\ ly(q) = d[q + 1] - d[q] /\ e[q] = d[q] /\ e[q + 1] = d[q + 1]
    BY <1>2, <2>1
  <2>3. e[q] \in Int /\ e[q + 1] \in Int
    BY <1>2, <2>1
  <2> HIDE DEF lx, ly
  <2> QED
    BY <2>2, <2>3
<1>6. Greedier(x, y)
  <2> HIDE DEF x, y, n
  <2> QED
    BY <1>1, <1>3, <1>4, <1>5 DEF Greedier
<1>7. ~ Greedier(y, x)
  <2> HIDE DEF x, y, n
  <2> SUFFICES ASSUME NEW i \in 1 .. n, ly(i) > lx(i), \A q \in 1 .. i - 1 : ly(q) = lx(q)
               PROVE  FALSE
    BY <1>3 DEF Greedier
  <2> HIDE DEF lx, ly
  <2>1. CASE i < p
    <3>1. i \in 1 .. p - 1
      BY <1>1, <2>1
    <3> QED
      BY <1>5, <3>1
  <2>2. CASE i = p
    BY <1>4, <2>2
  <2>3. CASE p < i
    <3>1. p \in 1 .. i - 1
      BY <1>1, <2>3
    <3>2. ly(p) = lx(p)
      BY <3>1
    <3> QED
      BY <1>4, <3>2
  <2> QED
    BY <1>1, <2>1, <2>2, <2>3
<1> QED
  BY <1>6, <1>7 DEF x, y, n

\* The greediest cut is that of the ends that Match chooses.
BestCut(rule, path) ==
    CHOOSE cut \in GoodCuts(rule, path) :
        \A other \in GoodCuts(rule, path) : ~ Greedier(other, cut)

LEMMA GreediestIsBest ==
  ASSUME NEW rule \in Seq(Part), NEW path \in Seq(STRING),
         NEW e \in Ends(rule, path, 1, 1), Greediest(rule, path, 1, 1, e)
  PROVE  BestCut(rule, path) = Cut(path, e, Len(rule))
<1> DEFINE n == Len(rule)
           good == GoodCuts(rule, path)
           best == Cut(path, e, n)
<1>1. best \in good /\ \A cut \in good : \E d \in Ends(rule, path, 1, 1) : cut = Cut(path, d, n)
  BY GoodCutsByEnds
<1>2. ASSUME NEW d \in Ends(rule, path, 1, 1), d # e
      PROVE  Greedier(best, Cut(path, d, n)) /\ ~ Greedier(Cut(path, d, n), best)
  <2>1. PICK p \in 1 .. n : e[p + 1] > d[p + 1] /\ \A q \in 1 .. p : e[q] = d[q]
    BY <1>2 DEF Greediest
  <2> QED
    BY <2>1, FurtherIsGreedier
<1>3. ~ Greedier(best, best)
  <2> SUFFICES ASSUME NEW i \in DOMAIN best, Len(best[i]) > Len(best[i]) PROVE FALSE
    BY DEF Greedier
  <2>1. i \in 1 .. n
    BY DEF Cut
  <2> DEFINE len == Len(best[i])
  <2>2. len = e[i + 1] - e[i] /\ e[i] \in Int /\ e[i + 1] \in Int
    BY <2>1, PieceLengths
  <2>3. len > len
    OBVIOUS
  <2> HIDE DEF len
  <2> QED
    BY <2>2, <2>3
<1> HIDE DEF best
<1>4. \A other \in good : ~ Greedier(other, best)
  BY <1>1, <1>2, <1>3 DEF best
<1>5. \A cut \in good : (\A other \in good : ~ Greedier(other, cut)) => cut = best
  BY <1>1, <1>2 DEF best
<1> HIDE DEF good
<1>6. best = CHOOSE cut \in good : \A other \in good : ~ Greedier(other, cut)
  BY <1>1, <1>4, <1>5
<1> QED
  BY <1>6 DEF BestCut, good, best

\* A key that is there keeps its value.
LEMMA PutAllKeeps ==
  ASSUME NEW params, NEW pairs, NEW k \in DOMAIN params
  PROVE  k \in DOMAIN PutAll(params, pairs) /\ PutAll(params, pairs)[k] = params[k]
BY DEF PutAll

\* A key gets the value of the first pair that has it.
LEMMA PutAllFirst ==
  ASSUME NEW c \in Seq(Pair), NEW q \in 1 .. Len(c),
         \A r \in 1 .. q - 1 : c[r].key # c[q].key
  PROVE  c[q].key \in DOMAIN PutAll(<<>>, c) /\ PutAll(<<>>, c)[c[q].key] = c[q].val
<1> DEFINE key == c[q].key
           same == {r \in DOMAIN c : c[r].key = key}
<1>1. Len(c) \in Nat /\ DOMAIN c = 1 .. Len(c) /\ q \in DOMAIN c
  BY LenProperties
<1>2. Min(same) = q
  <2>1. same \in SUBSET Nat /\ q \in same
    BY <1>1
  <2>2. \A r \in same : ~ (r < q)
    BY <1>1
  <2> HIDE DEF same
  <2>3. Min(same) \in same /\ \A r \in same : Min(same) <= r
    <3>1. same # {}
      BY <2>1
    <3> QED
      BY <2>1, <3>1, MinOfPositions
  <2> DEFINE min == Min(same)
  <2>4. min \in Nat /\ q \in Nat /\ min <= q /\ ~ (min < q)
    BY <2>1, <2>2, <2>3
  <2> HIDE DEF min
  <2>5. min = q
    BY <2>4
  <2> QED
    BY <2>5 DEF min
<1>3. key \in {c[r].key : r \in DOMAIN c}
  BY <1>1
<1>4. DOMAIN <<>> = {}
  OBVIOUS
<1> DEFINE keys == DOMAIN <<>> \cup {c[r].key : r \in DOMAIN c}
           val(k) == IF k \in DOMAIN <<>> THEN <<>>[k]
                     ELSE c[Min({r \in DOMAIN c : c[r].key = k})].val
<1>5. PutAll(<<>>, c) = [k \in keys |-> val(k)]
  BY DEF PutAll
<1>6. key \in keys /\ val(key) = c[q].val
  BY <1>2, <1>3, <1>4
<1> HIDE DEF key, keys, val
<1>7. key \in DOMAIN PutAll(<<>>, c) /\ PutAll(<<>>, c)[key] = val(key)
  BY <1>5, <1>6
<1> QED
  BY <1>6, <1>7 DEF key

\* A route matches what its pattern means, and its handler gets the greediest
\* cut.
LEMMA MatchMeansCut ==
  ASSUME NEW rule \in Seq(Part), NEW path \in Seq(STRING)
  PROVE  /\ GoodCuts(rule, path) # {} <=> Captures(rule, path) # {}
         /\ Captures(rule, path) # {} =>
               \A pairs : \A i \in DOMAIN rule :
                  /\ rule[i].param
                  /\ \A j \in 1 .. i - 1 : rule[j].param => rule[j].text # rule[i].text
                  => LET params == PutAll(PathParams(CHOOSE c \in Captures(rule, path) : TRUE), pairs)
                     IN rule[i].text \in DOMAIN params /\
                        params[rule[i].text] = BestCut(rule, path)[i]
<1>1. Ends(rule, path, 1, 1) # {} <=> GoodCuts(rule, path) # {}
  BY GoodCutsByEnds
<1>2. Ends(rule, path, 1, 1) # {} <=> Captures(rule, path) # {}
  BY MatchIsGreedy
<1>3. ASSUME Captures(rule, path) # {}, NEW pairs, NEW i \in DOMAIN rule, rule[i].param,
             \A j \in 1 .. i - 1 : rule[j].param => rule[j].text # rule[i].text
      PROVE  LET params == PutAll(PathParams(CHOOSE c \in Captures(rule, path) : TRUE), pairs)
             IN rule[i].text \in DOMAIN params /\
                params[rule[i].text] = BestCut(rule, path)[i]
  <2>1. PICK e \in Ends(rule, path, 1, 1), c \in Seq(Pair) :
           /\ Captures(rule, path) = {c}
           /\ Greediest(rule, path, 1, 1, e)
           /\ Captured(rule, path, 1, e, c)
    BY <1>3, MatchIsGreedy
  <2>2. (CHOOSE x \in Captures(rule, path) : TRUE) = c
    BY <2>1
  <2>3. i \in 1 .. Len(rule)
    BY <1>3, LenProperties
  <2>4. PICK q \in 1 .. Len(c) :
           /\ c[q].key = rule[i].text
           /\ c[q].val = SubSeq(path, e[i] + 1, e[i + 1])
           /\ \A r \in 1 .. q - 1 : \E t \in 1 .. i - 1 :
                 rule[t].param /\ rule[t].text = c[r].key
    BY <1>3, <2>1, <2>3 DEF Captured
  <2>5. \A r \in 1 .. q - 1 : c[r].key # c[q].key
    BY <1>3, <2>4
  <2>6. BestCut(rule, path)[i] = c[q].val
    <3>1. BestCut(rule, path) = Cut(path, e, Len(rule))
      BY <2>1, GreediestIsBest
    <3>2. Cut(path, e, Len(rule))[i] = SubSeq(path, e[i] + 1, e[i + 1])
      BY <2>3 DEF Cut
    <3> QED
      BY <2>4, <3>1, <3>2
  <2> DEFINE own == PutAll(<<>>, c)
  <2>7. rule[i].text \in DOMAIN own /\ own[rule[i].text] = c[q].val
    BY <2>4, <2>5, PutAllFirst
  <2> HIDE DEF own
  <2>8. /\ rule[i].text \in DOMAIN PutAll(own, pairs)
        /\ PutAll(own, pairs)[rule[i].text] = c[q].val
    BY <2>7, PutAllKeeps
  <2>9. PathParams(CHOOSE x \in Captures(rule, path) : TRUE) = own
    BY <2>2 DEF PathParams, own
  <2> QED
    BY <2>6, <2>8, <2>9
<1> QED
  BY <1>1, <1>2, <1>3

-----------------------------------------------------------------------------
(* The inductive invariant. *)

Route == [method : Methods \cup {All}, rule : Seq(Part), pattern : Patterns]

\* A request as the routes get it.
IsRequest(req) ==
    /\ req.method \in Methods /\ req.target \in Targets
    /\ req = Canonical(req.method, req.target)

\* The routes are those of accepted patterns.
RoutesInv ==
    /\ prefix_ \in Prefixes \cup {<<>>}
    /\ api_routes_ \in Seq(Route)
    /\ Len(api_routes_) <= MaxRoutes
    /\ \A i \in DOMAIN api_routes_ : \A j \in DOMAIN api_routes_[i].rule :
          api_routes_[i].rule[j].text # <<>>

\* The answer is that of the routes and the prefix there still are.
ResponseInv ==
    /\ request = NoRequest => response = NotFound
    /\ request # NoRequest =>
          /\ IsRequest(request)
          /\ response = IF Requri[request.target].ok THEN Dispatch(request) ELSE BadRequest

RouterInv == RoutesInv /\ ResponseInv

\* The answer depends on nothing that a request changes.
LEMMA SameDispatch ==
  ASSUME UNCHANGED <<prefix_, api_routes_>>
  PROVE  Dispatch(request)' = Dispatch(request')
<1>1. prefix_' = prefix_ /\ api_routes_' = api_routes_
  OBVIOUS
<1>2. Behind(request.path)' = Behind(request'.path)
  BY <1>1 DEF Behind
<1>3. Matching(request)' = Matching(request')
  BY <1>1, Zenon DEF Matching, Behind
<1>4. \A i : Answer(i, request)' = Answer(i, request')
  BY <1>1, Zenon DEF Answer, Behind
<1> QED
  BY <1>1, <1>3, <1>4, Zenon DEF Dispatch

\* The path of a request is a text.
LEMMA RequestType ==
  ASSUME NEW m \in Methods, NEW t \in Targets
  PROVE  /\ IsRequest(Canonical(m, t)) /\ Canonical(m, t) # NoRequest
         /\ Canonical(m, t).target = t
         /\ Canonical(m, t).path \in Seq(STRING)
<1>1. Requri[t] \in [ok : BOOLEAN, path : Seq(STRING), query : Seq(STRING)]
  BY RouterAssumption
<1> QED
  BY <1>1, RouterAssumption DEF IsRequest, Canonical, NoRequest

\* A route is added only for a pattern whose parameters all have names.
LEMMA AddRouteKeeps ==
  ASSUME RouterInv, NEW m \in Methods \cup {All}, NEW p \in Patterns, AddRoute(m, p)
  PROVE  RouterInv'
<1> DEFINE route == [method |-> m, rule |-> Rule(p), pattern |-> p]
<1>1. /\ request = NoRequest /\ request' = request /\ response' = response
      /\ prefix_' = prefix_
      /\ Len(api_routes_) < MaxRoutes
      /\ api_routes_' = IF BadPattern(p) THEN api_routes_ ELSE Append(api_routes_, route)
  BY DEF AddRoute
<1>2. CASE BadPattern(p)
  BY <1>1, <1>2 DEF RouterInv, RoutesInv, ResponseInv
<1>3. CASE ~ BadPattern(p)
  <2>1. route \in Route /\ \A j \in DOMAIN route.rule : route.rule[j].text # <<>>
    <3>1. p \in Seq(STRING)
      BY RouterAssumption
    <3>2. Rule(p) \in Seq(Part)
      BY <3>1, RuleType
    <3> QED
      BY <1>3, <3>2 DEF Route, BadPattern
  <2> HIDE DEF route
  <2>2. api_routes_ \in Seq(Route) /\ route \in Route
    BY <2>1 DEF RouterInv, RoutesInv
  <2>3. /\ Append(api_routes_, route) \in Seq(Route)
        /\ Len(Append(api_routes_, route)) = Len(api_routes_) + 1
        /\ \A i \in 1 .. Len(api_routes_) : Append(api_routes_, route)[i] = api_routes_[i]
        /\ Append(api_routes_, route)[Len(api_routes_) + 1] = route
    BY <2>2, AppendProperties
  <2> DEFINE new == Append(api_routes_, route)
             n == Len(api_routes_)
  <2>4. n \in Nat /\ DOMAIN api_routes_ = 1 .. n /\ n < MaxRoutes /\ MaxRoutes \in Nat
    BY <1>1, <2>2, LenProperties, RouterAssumption
  <2>5. DOMAIN new = 1 .. n + 1
    BY <2>3, LenProperties
  <2>6. api_routes_' = new
    BY <1>1, <1>3
  <2>7. Len(new) = n + 1
    BY <2>3
  <2>8. new \in Seq(Route) /\ (\A i \in 1 .. n : new[i] = api_routes_[i]) /\ new[n + 1] = route
    BY <2>3
  <2>9. \A i \in 1 .. n : \A j \in DOMAIN api_routes_[i].rule :
           api_routes_[i].rule[j].text # <<>>
    BY <2>4 DEF RouterInv, RoutesInv
  <2> HIDE DEF new, n
  <2>10. Len(new) <= MaxRoutes
    <3>1. n + 1 <= MaxRoutes
      BY <2>4
    <3> QED
      BY <2>7, <3>1
  <2>11. \A i \in DOMAIN new : \A j \in DOMAIN new[i].rule : new[i].rule[j].text # <<>>
    <3> SUFFICES ASSUME NEW i \in 1 .. n + 1
                 PROVE  \A j \in DOMAIN new[i].rule : new[i].rule[j].text # <<>>
      BY <2>5
    <3>1. CASE i = n + 1
      BY <2>1, <2>8, <3>1
    <3>2. CASE i # n + 1
      <4>1. i \in 1 .. n
        BY <2>4, <3>2
      <4> QED
        BY <2>8, <2>9, <4>1
    <3> QED
      BY <3>1, <3>2
  <2>12. prefix_ \in Prefixes \cup {<<>>} /\ response = NotFound
    BY <1>1 DEF RouterInv, RoutesInv, ResponseInv
  <2> QED
    BY <1>1, <2>6, <2>8, <2>10, <2>11, <2>12 DEF RouterInv, RoutesInv, ResponseInv
<1> QED
  BY <1>2, <1>3

\* Every step of the router keeps the invariant.
LEMMA RouterStep ==
  ASSUME RouterInv, [Next]_vars
  PROVE  RouterInv'
<1>1. ASSUME NEW p \in Prefixes, SetPrefix(p) PROVE RouterInv'
  BY <1>1 DEF RouterInv, RoutesInv, ResponseInv, SetPrefix
<1>2. ASSUME NEW m \in Methods \cup {All}, NEW p \in Patterns, AddRoute(m, p)
      PROVE  RouterInv'
  BY <1>2, AddRouteKeeps
<1>3. ASSUME NEW m \in Methods, NEW t \in Targets, HandleRequest(m, t) PROVE RouterInv'
  <2> DEFINE req == Canonical(m, t)
  <2>1. /\ request' = req
        /\ response' = IF Requri[t].ok THEN Dispatch(req) ELSE BadRequest
        /\ UNCHANGED <<prefix_, api_routes_>>
    BY <1>3 DEF HandleRequest
  <2>2. req # NoRequest /\ IsRequest(req) /\ req.target = t
    BY RequestType
  <2> HIDE DEF req
  <2>3. Dispatch(request)' = Dispatch(req)
    BY <2>1, SameDispatch
  <2>4. ResponseInv'
    <3>1. IsRequest(request)'
      BY <2>1, <2>2 DEF IsRequest, Canonical
    <3> QED
      BY <2>1, <2>2, <2>3, <3>1 DEF ResponseInv, BadRequest
  <2>5. RoutesInv'
    BY <2>1 DEF RouterInv, RoutesInv
  <2> QED
    BY <2>4, <2>5 DEF RouterInv
<1>4. ASSUME UNCHANGED vars PROVE RouterInv'
  <2>1. UNCHANGED <<prefix_, api_routes_>> /\ request' = request /\ response' = response
    BY <1>4 DEF vars
  <2>2. Dispatch(request)' = Dispatch(request)
    BY <2>1, SameDispatch
  <2>3. IsRequest(request)' = IsRequest(request)
    BY <2>1 DEF IsRequest, Canonical
  <2> QED
    BY <2>1, <2>2, <2>3 DEF RouterInv, RoutesInv, ResponseInv, BadRequest
<1> QED
  BY <1>1, <1>2, <1>3, <1>4 DEF Next

\* The invariant holds at the start.
LEMMA RouterStart == Init => RouterInv
<1>1. <<>> \in Seq(Route) /\ Len(<<>>) = 0 /\ DOMAIN <<>> = {} /\ MaxRoutes \in Nat
  BY EmptySeq, RouterAssumption
<1> QED
  BY <1>1 DEF Init, RouterInv, RoutesInv, ResponseInv

-----------------------------------------------------------------------------
(* What the invariant comes to. *)

\* What is behind the prefix is a text.
LEMMA BehindType ==
  ASSUME RoutesInv, NEW path \in Seq(STRING)
  PROVE  Behind(path) \in Seq(STRING)
<1>1. path \in Seq(STRING) /\ prefix_ \in Seq(STRING)
  BY RouterAssumption, EmptySeq DEF RoutesInv
<1> DEFINE m == Len(path)
           from == Len(prefix_) + 1
<1>2. m \in Int /\ from \in Int /\ from \in Nat \ {0}
  BY <1>1, LenProperties
<1>3. \A i \in from .. m : path[i] \in STRING
  <2> SUFFICES ASSUME NEW i \in from .. m PROVE path[i] \in STRING
    OBVIOUS
  <2> HIDE DEF from
  <2>1. i \in 1 .. Len(path)
    BY <1>2
  <2> QED
    BY <1>1, <2>1, ElementOfSeq
<1> HIDE DEF m, from
<1> DEFINE rest == SubSeq(path, from, m)
<1>4. rest \in Seq(STRING)
  BY <1>2, <1>3, SubSeqProperties
<1> QED
  BY <1>4 DEF Behind, from, m

\* A route that the router takes for a match is one whose pattern fits.
LEMMA MatchingIsFitting ==
  ASSUME RoutesInv, IsRequest(request)
  PROVE  /\ Matching(request) = {i \in DOMAIN api_routes_ :
                                    Tried(i) /\ GoodCuts(api_routes_[i].rule, Rest) # {}}
         /\ Matching(request) # {} => /\ Min(Matching(request)) \in Matching(request)
                                      /\ Min(Matching(request)) \in DOMAIN api_routes_
<1>1. Rest \in Seq(STRING)
  <2>1. request.path \in Seq(STRING)
    BY RequestType DEF IsRequest
  <2> QED
    BY <2>1, BehindType DEF Rest
<1>2. api_routes_ \in Seq(Route)
  BY DEF RoutesInv
<1>3. \A i \in DOMAIN api_routes_ : api_routes_[i].rule \in Seq(Part)
  <2>1. \A i \in DOMAIN api_routes_ : api_routes_[i] \in Route
    BY <1>2
  <2> QED
    BY <2>1 DEF Route
<1>4. \A i \in DOMAIN api_routes_ :
         GoodCuts(api_routes_[i].rule, Rest) # {} <=> Captures(api_routes_[i].rule, Rest) # {}
  BY <1>1, <1>3, MatchMeansCut
<1>5. Matching(request) = {i \in DOMAIN api_routes_ :
                              Tried(i) /\ GoodCuts(api_routes_[i].rule, Rest) # {}}
  BY <1>4 DEF Matching, Tried, Rest
<1>6. Matching(request) \in SUBSET Nat
  <2>1. DOMAIN api_routes_ \subseteq Nat
    BY <1>2, LenProperties
  <2> QED
    BY <1>5, <2>1
<1>7. Matching(request) # {} => Min(Matching(request)) \in Matching(request)
  BY <1>6, MinOfPositions
<1> QED
  BY <1>5, <1>7

\* What is known of the answer to a request.
LEMMA Answered ==
  ASSUME RouterInv, request # NoRequest
  PROVE  /\ response.status \in {"handler", "not_found", "bad_request"}
         /\ response.status = "handler" =>
               /\ StartsWith(request.path, prefix_)
               /\ Matching(request) # {}
               /\ response.route = Min(Matching(request))
               /\ \E pairs : response.params =
                     PutAll(PathParams(CHOOSE c \in
                               Captures(api_routes_[response.route].rule, Rest) : TRUE), pairs)
         /\ response.status = "not_found" =>
               ~ StartsWith(request.path, prefix_) \/ Matching(request) = {}
<1>1. response = IF Requri[request.target].ok THEN Dispatch(request) ELSE BadRequest
  BY DEF RouterInv, ResponseInv
<1>2. CASE ~ Requri[request.target].ok
  BY <1>1, <1>2 DEF BadRequest
<1>3. CASE /\ Requri[request.target].ok
           /\ ~ StartsWith(request.path, prefix_) \/ Matching(request) = {}
  BY <1>1, <1>3 DEF Dispatch, NotFound
<1>4. CASE /\ Requri[request.target].ok
           /\ StartsWith(request.path, prefix_) /\ Matching(request) # {}
  <2> DEFINE i == Min(Matching(request))
             params == PutAll(PathParams(CHOOSE c \in Captures(api_routes_[i].rule, Rest) : TRUE),
                              QueryParse(request.query).pairs)
  <2>1. response = Answer(i, request)
    BY <1>1, <1>4 DEF Dispatch
  <2> HIDE DEF i
  <2>2. \/ response = BadRequest
        \/ response = [status |-> "handler", route |-> i, params |-> params]
    BY <2>1 DEF Answer, Rest
  <2> HIDE DEF params
  <2>3. CASE response = BadRequest
    BY <2>3 DEF BadRequest
  <2>4. CASE response = [status |-> "handler", route |-> i, params |-> params]
    <3>1. response.status = "handler" /\ response.route = i /\ response.params = params
      BY <2>4
    <3> QED
      BY <1>4, <3>1, Zenon DEF i, params
  <2> QED
    BY <2>2, <2>3, <2>4
<1> QED
  BY <1>2, <1>3, <1>4

\* The invariant implies the three properties of the dispatch.
LEMMA RouterIsSafe ==
  ASSUME RouterInv
  PROVE  TypeOK /\ FirstMatchWins /\ ParametersAreTheGreediestCut
<1>1. RoutesInv /\ ResponseInv
  BY DEF RouterInv
<1>2. api_routes_ \in Seq(Route) /\ Len(api_routes_) <= MaxRoutes
  BY <1>1 DEF RoutesInv
<1>3. \A i \in DOMAIN api_routes_ :
         /\ api_routes_[i].method \in Methods \cup {All}
         /\ api_routes_[i].pattern \in Patterns
         /\ api_routes_[i].rule \in Seq(Part)
         /\ \A j \in DOMAIN api_routes_[i].rule : api_routes_[i].rule[j].text # <<>>
  <2>1. \A i \in DOMAIN api_routes_ : api_routes_[i] \in Route
    BY <1>2
  <2> QED
    BY <1>1, <2>1 DEF Route, RoutesInv
<1>4. CASE request = NoRequest
  <2>1. response = NotFound
    BY <1>1, <1>4 DEF ResponseInv
  <2>2. response.status = "not_found"
    BY <2>1 DEF NotFound
  <2> QED
    BY <1>1, <1>2, <1>3, <1>4, <2>2
    DEF TypeOK, RoutesInv, FirstMatchWins, ParametersAreTheGreediestCut
<1>5. CASE request # NoRequest
  <2>1. IsRequest(request)
    BY <1>1, <1>5 DEF ResponseInv
  <2>2. request.path \in Seq(STRING)
    BY <2>1, RequestType DEF IsRequest
  <2>3. /\ Matching(request) = {i \in DOMAIN api_routes_ :
                                   Tried(i) /\ GoodCuts(api_routes_[i].rule, Rest) # {}}
        /\ Matching(request) # {} => /\ Min(Matching(request)) \in Matching(request)
                                     /\ Min(Matching(request)) \in DOMAIN api_routes_
    BY <1>1, <2>1, MatchingIsFitting
  <2>4. /\ response.status \in {"handler", "not_found", "bad_request"}
        /\ response.status = "handler" =>
              /\ StartsWith(request.path, prefix_)
              /\ Matching(request) # {}
              /\ response.route = Min(Matching(request))
        /\ response.status = "not_found" =>
              ~ StartsWith(request.path, prefix_) \/ Matching(request) = {}
    BY <1>5, Answered
  <2>5. TypeOK
    BY <1>1, <1>2, <1>3, <1>5, <2>1, <2>3, <2>4 DEF TypeOK, RoutesInv, IsRequest
  <2>6. FirstMatchWins
    BY <2>3, <2>4 DEF FirstMatchWins
  <2>7. ASSUME response.status = "handler" PROVE ParametersAreTheGreediestCut
    <3> DEFINE rule == api_routes_[response.route].rule
    <3>1. response.route \in Matching(request) /\ response.route \in DOMAIN api_routes_
      BY <2>3, <2>4, <2>7
    <3>2. rule \in Seq(Part) /\ Rest \in Seq(STRING)
      BY <1>1, <1>3, <2>2, <3>1, BehindType DEF Rest
    <3>3. PICK pairs : response.params =
             PutAll(PathParams(CHOOSE c \in Captures(rule, Rest) : TRUE), pairs)
      BY <1>5, <2>7, Answered
    <3>4. Captures(rule, Rest) # {}
      BY <3>1 DEF Matching, Rest
    <3> HIDE DEF rule
    <3>5. \A i \in DOMAIN rule :
             /\ rule[i].param
             /\ \A j \in 1 .. i - 1 : rule[j].param => rule[j].text # rule[i].text
             => rule[i].text \in DOMAIN response.params /\
                response.params[rule[i].text] = BestCut(rule, Rest)[i]
      BY <3>2, <3>3, <3>4, MatchMeansCut
    <3> QED
      BY <3>5, Zenon DEF ParametersAreTheGreediestCut, BestCut, rule
  <2>8. response.status # "handler" => ParametersAreTheGreediestCut
    BY DEF ParametersAreTheGreediestCut
  <2> QED
    BY <2>5, <2>6, <2>7, <2>8
<1> QED
  BY <1>4, <1>5

-----------------------------------------------------------------------------
(* The theorem. *)

\* Whatever the routes, the prefix and the request: the handler that runs is
\* that of the first route of the method whose pattern fits the path behind
\* the prefix, a request that some route fits is not answered "not found",
\* and the parameters are the texts of the greediest of all the ways to cut
\* the path into the parts of the pattern: the first parameter as long as the
\* rest can still be matched, then the second, and so on.
THEOREM FirstFittingRouteAnswers ==
  Spec => [](TypeOK /\ FirstMatchWins /\ ParametersAreTheGreediestCut)
<1>1. RouterInv /\ [Next]_vars => RouterInv'
  BY RouterStep
<1>2. RouterInv => TypeOK /\ FirstMatchWins /\ ParametersAreTheGreediestCut
  BY RouterIsSafe
<1> QED
  BY RouterStart, <1>1, <1>2, PTL DEF Spec

-----------------------------------------------------------------------------
(* The inductive invariant. *)

\* The characters of the names that are opened, and of where they lead.
Character == STRING \cup {"index", ".", "html", "cwd"}

\* The mounts are those given to serve_static(), each with the directory
\* that it was given first.
MountsInv ==
    /\ calls \in Seq([mount : Mounts, root : Roots])
    /\ DOMAIN static_file_routes_ = {calls[i].mount : i \in DOMAIN calls}
    /\ \A i \in DOMAIN calls :
          (\A j \in 1 .. i - 1 : calls[j].mount # calls[i].mount)
            => static_file_routes_[calls[i].mount] = calls[i].root

\* The router has got no request that a mount claims.
RoutedInv == request # NoRequest => Claiming(request.target) = {}

\* A request that a mount answered was claimed by it, and by no shorter one.
ServedInv ==
    served # NotServed =>
        \A m \in Claiming(served.target) : Len(served.mount) <= Len(m)

\* The name that was opened is that of a mounted directory and a rest of the
\* target that was not refused, and the content type is the name's.
NameInv ==
    served.answer.status \in {"ok", "write_fails"} =>
        /\ served.mount \in DOMAIN static_file_routes_
        /\ \E path \in Seq(STRING) :
              /\ ~ Illegal(path)
              /\ served.answer.name = FileName(static_file_routes_[served.mount], path)
        /\ served.answer.type = MimeType(served.answer.name)

IInv == MountsInv /\ RoutedInv /\ ServedInv /\ NameInv

-----------------------------------------------------------------------------
(* Lemmas about the order of the mounts. *)

\* A mount that claims a target is a prefix of it.
LEMMA ClaimingIsPrefix ==
  ASSUME NEW target \in Seq(STRING), NEW m \in Seq(STRING),
         StartsWith(target, MountPrefix(m))
  PROVE  /\ Len(m) <= Len(target)
         /\ \A i \in 1 .. Len(m) : m[i] = target[i]
<1> DEFINE p == MountPrefix(m)
<1>1. /\ Len(p) \in Nat
      /\ Len(m) <= Len(p)
      /\ \A i \in 1 .. Len(m) : m[i] = p[i]
  <2>1. CASE m = <<"/">>
    BY <2>1 DEF MountPrefix
  <2>2. CASE m # <<"/">>
    <3> DEFINE Char == STRING \cup {"/"}
    <3>1. p = Append(m, "/") /\ m \in Seq(Char) /\ "/" \in Char
      <4>1. p = Append(m, "/")
        BY <2>2, Zenon DEF MountPrefix
      <4> HIDE DEF p
      <4> QED
        BY <4>1
    <3> HIDE DEF p, Char
    <3>2. Len(p) = Len(m) + 1 /\ \A i \in 1 .. Len(m) : p[i] = m[i]
      BY <3>1, AppendProperties
    <3> QED
      BY <3>2, LenProperties
  <2> QED
    BY <2>1, <2>2
<1>2. Len(p) <= Len(target) /\ SubSeq(target, 1, Len(p)) = p
  BY DEF StartsWith
<1> HIDE DEF p
<1>3. \A i \in 1 .. Len(p) : p[i] = target[i]
  BY <1>1, <1>2, SubSeqProperties
<1> QED
  BY <1>1, <1>2, <1>3, LenProperties

\* Of two mounts that claim the same target the shorter one comes first.
LEMMA ShorterIsLess ==
  ASSUME NEW target \in Seq(STRING), NEW m \in Seq(STRING), NEW n \in Seq(STRING),
         StartsWith(target, MountPrefix(m)), StartsWith(target, MountPrefix(n))
  PROVE  /\ Less(m, n) <=> Len(m) < Len(n)
         /\ Len(m) = Len(n) => m = n
<1>1. /\ Len(m) \in Nat /\ Len(n) \in Nat
      /\ \A i \in 1 .. Len(m) : m[i] = target[i]
      /\ \A i \in 1 .. Len(n) : n[i] = target[i]
  BY ClaimingIsPrefix, LenProperties
<1>2. /\ Min({Len(m), Len(n)}) \in Nat
      /\ Min({Len(m), Len(n)}) <= Len(m)
      /\ Min({Len(m), Len(n)}) <= Len(n)
  <2>1. \E x \in {Len(m), Len(n)} : \A y \in {Len(m), Len(n)} : x <= y
    BY <1>1
  <2> QED
    BY <1>1, <2>1 DEF Min
<1>3. \A i \in 1 .. Min({Len(m), Len(n)}) : m[i] = n[i]
  BY <1>1, <1>2
<1>4. Less(m, n) <=> Len(m) < Len(n)
  BY <1>3 DEF Less
<1>5. Len(m) = Len(n) => m = n
  BY <1>1, SeqEqual
<1> QED
  BY <1>4, <1>5

\* The mount that find_if comes to is the shortest of those that claim the
\* target.
LEMMA ClaimerIsOutermost ==
  ASSUME MountsInv, NEW target \in Targets, Claiming(target) # {}
  PROVE  /\ Claimer(target) \in Claiming(target)
         /\ \A m \in Claiming(target) : Len(Claimer(target)) <= Len(m)
<1>1. target \in Seq(STRING)
  BY RouterAssumption
<1>2. \A m \in Claiming(target) :
         m \in Seq(STRING) /\ StartsWith(target, MountPrefix(m)) /\ Len(m) \in Nat
  <2>1. DOMAIN static_file_routes_ \subseteq Mounts
    <3>1. \A i \in DOMAIN calls : calls[i] \in [mount : Mounts, root : Roots]
      BY ElementOfSeq, LenProperties DEF MountsInv
    <3> QED
      BY <3>1 DEF MountsInv
  <2> QED
    BY <2>1, StaticAssumption, LenProperties DEF Claiming
<1>3. PICK first \in Claiming(target) : \A m \in Claiming(target) : Len(first) <= Len(m)
  <2>1. PICK n \in {Len(m) : m \in Claiming(target)} :
           \A k \in {Len(m) : m \in Claiming(target)} : n <= k
    BY <1>2, Smallest
  <2> QED
    BY <2>1
<1>4. \A m \in Claiming(target) \ {first} : Less(first, m)
  <2> SUFFICES ASSUME NEW m \in Claiming(target) \ {first} PROVE Less(first, m)
    OBVIOUS
  <2>1. Len(first) # Len(m)
    BY <1>1, <1>2, ShorterIsLess
  <2>2. Len(first) < Len(m)
    BY <1>2, <1>3, <2>1
  <2> QED
    BY <1>1, <1>2, <2>2, ShorterIsLess
<1>5. /\ Claimer(target) \in Claiming(target)
      /\ \A m \in Claiming(target) \ {Claimer(target)} : Less(Claimer(target), m)
  BY <1>4 DEF Claimer
<1>6. ASSUME NEW m \in Claiming(target) PROVE Len(Claimer(target)) <= Len(m)
  <2>1. CASE m = Claimer(target)
    BY <1>2, <2>1
  <2>2. CASE m # Claimer(target)
    BY <1>1, <1>2, <1>5, <2>2, ShorterIsLess
  <2> QED
    BY <2>1, <2>2
<1> QED
  BY <1>5, <1>6

-----------------------------------------------------------------------------
(* Lemmas about the content type. *)

\* Texts that differ in case only have the same length, and their dots and
\* slashes in the same places.
LEMMA LoweredEqual ==
  ASSUME NEW S, NEW s \in Seq(S), NEW t \in Seq(S), Lowered(s) = Lowered(t)
  PROVE  /\ Len(s) = Len(t)
         /\ \A i \in 1 .. Len(s) : \A c \in {".", "/"} : s[i] = c <=> t[i] = c
<1>1. /\ DOMAIN s = 1 .. Len(s) /\ Len(s) \in Nat
      /\ DOMAIN t = 1 .. Len(t) /\ Len(t) \in Nat
  BY LenProperties
<1>2. DOMAIN s = DOMAIN t
  <2>1. DOMAIN Lowered(s) = DOMAIN s /\ DOMAIN Lowered(t) = DOMAIN t
    BY DEF Lowered
  <2> QED
    BY <2>1
<1>3. Len(s) = Len(t)
  <2>1. ASSUME NEW a \in Nat, NEW b \in Nat, 1 .. a = 1 .. b PROVE a = b
    <3>1. (a = 0 \/ a \in 1 .. b) /\ (b = 0 \/ b \in 1 .. a)
      BY <2>1, SMTT(30)
    <3> QED
      BY <3>1
  <2>2. 1 .. Len(s) = 1 .. Len(t)
    BY <1>1, <1>2
  <2> QED
    BY <1>1, <2>1, <2>2, Zenon
<1>4. ASSUME NEW i \in 1 .. Len(s), NEW c \in {".", "/"}
      PROVE  s[i] = c <=> t[i] = c
  <2>1. /\ Lowered(s)[i] = IF s[i] \in DOMAIN Lower THEN Lower[s[i]] ELSE s[i]
        /\ Lowered(t)[i] = IF t[i] \in DOMAIN Lower THEN Lower[t[i]] ELSE t[i]
    BY <1>1, <1>2 DEF Lowered
  <2>2. \A a \in DOMAIN Lower : a # c /\ Lower[a] # c
    BY MimeAssumption
  <2> QED
    BY <2>1, <2>2, SMTT(30)
<1> QED
  BY <1>3, <1>4

\* The extension that mime_type finds is the end of the last element that
\* some key of mime_map is, if there is one.
LEMMA TypeByExtension ==
  ASSUME NEW name \in Seq(Character)
  PROVE  LET element == SubSeq(name,
                               Max({0} \cup {i \in DOMAIN name : name[i] = "/"}) + 1,
                               Len(name))
             behind == {e \in DOMAIN MimeMap :
                          /\ Len(e) <= Len(element)
                          /\ Lowered(SubSeq(element, Len(element) - Len(e) + 1, Len(element)))
                               = Lowered(e)}
         IN IF behind = {} THEN MimeType(name) = "application/text"
            ELSE \A e \in behind : MimeType(name) = MimeMap[e]
<1> DEFINE L == Len(name)
           slashes == {0} \cup {i \in DOMAIN name : name[i] = "/"}
           s == Max(slashes)
           dots == {i \in DOMAIN name : name[i] = "."}
           d == Max(dots)
           element == SubSeq(name, s + 1, L)
           Ending(e) == SubSeq(element, Len(element) - Len(e) + 1, Len(element))
           behind == {e \in DOMAIN MimeMap :
                        Len(e) <= Len(element) /\ Lowered(Ending(e)) = Lowered(e)}
           extension == IF dots = {} THEN <<>> ELSE SubSeq(name, d, L)
           same == {e \in DOMAIN MimeMap : Lowered(e) = Lowered(extension)}
<1>1. L \in Nat /\ DOMAIN name = 1 .. L /\ \A i \in 1 .. L : name[i] \in Character
  BY LenProperties, ElementOfSeq
<1>2. /\ s \in 0 .. L
      /\ s = 0 \/ name[s] = "/"
      /\ \A i \in 1 .. L : name[i] = "/" => i <= s
  <2>1. slashes \in SUBSET (0 .. L) /\ slashes # {}
    BY <1>1
  <2>2. s \in slashes /\ \A k \in slashes : k <= s
    <3> HIDE DEF slashes, L
    <3> QED
      BY <1>1, <2>1, MaxOfPositions
  <2> QED
    BY <1>1, <2>2
<1>3. dots # {} =>
        /\ d \in 1 .. L
        /\ name[d] = "."
        /\ \A i \in 1 .. L : name[i] = "." => i <= d
  <2>1. dots \in SUBSET (0 .. L)
    BY <1>1
  <2>2. dots # {} => d \in dots /\ \A k \in dots : k <= d
    <3> HIDE DEF dots, L
    <3> QED
      BY <1>1, <2>1, MaxOfPositions
  <2> QED
    BY <1>1, <2>2
<1> HIDE DEF L, s, d
<1>4. /\ element \in Seq(Character) /\ Len(element) = L - s
      /\ \A k \in 1 .. L - s : element[k] = name[s + k]
  <2>1. \A i \in s + 1 .. L : name[i] \in Character
    BY <1>1, <1>2
  <2> QED
    BY <1>1, <1>2, <2>1, SubSeqProperties
<1> HIDE DEF element
<1>5. /\ extension \in Seq(Character)
      /\ dots = {} => extension = <<>>
      /\ dots # {} => /\ Len(extension) = L - d + 1
                      /\ \A k \in 1 .. L - d + 1 : extension[k] = name[d + k - 1]
  <2>1. CASE dots = {}
    BY <2>1
  <2>2. CASE dots # {}
    <3>1. \A i \in d .. L : name[i] \in Character
      BY <1>1, <1>3, <2>2
    <3> QED
      BY <1>1, <1>3, <2>2, <3>1, SubSeqProperties
  <2> QED
    BY <2>1, <2>2
<1> HIDE DEF extension
<1>6. ASSUME NEW e \in DOMAIN MimeMap
      PROVE  /\ e \in Seq(Character) /\ Len(e) \in Nat \ {0} /\ e[1] = "."
             /\ \A i \in 1 .. Len(e) : e[i] # "/" /\ (e[i] = "." => i = 1)
  <2>1. e \in Seq(STRING) /\ e # <<>> /\ e[1] = "."
        /\ \A i \in 2 .. Len(e) : e[i] \notin {".", "/"}
    BY MimeAssumption
  <2>2. Len(e) \in Nat \ {0}
    BY <2>1, LenProperties, EmptySeq
  <2>3. e \in Seq(Character)
    BY <2>1 DEF Character
  <2> QED
    BY <2>1, <2>2, <2>3
<1>7. ASSUME NEW e \in DOMAIN MimeMap, Len(e) <= Len(element)
      PROVE  /\ Ending(e) \in Seq(Character)
             /\ Len(Ending(e)) = Len(e)
             /\ \A k \in 1 .. Len(e) : Ending(e)[k] = name[L - Len(e) + k]
  <2> DEFINE from == Len(element) - Len(e) + 1
  <2>1. \A i \in from .. Len(element) : element[i] \in Character
    BY <1>4, <1>6, <1>7, ElementOfSeq
  <2>2. /\ Ending(e) \in Seq(Character)
        /\ Len(Ending(e)) = Len(e)
        /\ \A k \in 1 .. Len(e) : Ending(e)[k] = element[from + k - 1]
    <3>1. /\ from \in Int /\ Len(element) \in Int
          /\ from <= Len(element) /\ Len(element) - from + 1 = Len(e)
      BY <1>1, <1>2, <1>4, <1>6, <1>7
    <3>2. Ending(e) = SubSeq(element, from, Len(element))
      OBVIOUS
    <3> HIDE DEF from, Ending
    <3> QED
      BY <2>1, <3>1, <3>2, SubSeqProperties
  <2>3. \A k \in 1 .. Len(e) : element[from + k - 1] = name[L - Len(e) + k]
    <3> SUFFICES ASSUME NEW k \in 1 .. Len(e)
                 PROVE  element[from + k - 1] = name[L - Len(e) + k]
      OBVIOUS
    <3>1. from + k - 1 \in 1 .. L - s /\ s + (from + k - 1) = L - Len(e) + k
      BY <1>1, <1>2, <1>4, <1>6, <1>7
    <3> QED
      BY <1>4, <3>1
  <2> QED
    BY <2>2, <2>3
<1> HIDE DEF Ending
<1>8. ASSUME NEW e \in behind PROVE e \in same
  <2>1. /\ e \in DOMAIN MimeMap /\ Len(e) <= Len(element)
        /\ Lowered(Ending(e)) = Lowered(e)
    BY <1>8
  <2>2. \A i \in 1 .. Len(e) : Ending(e)[i] = "." <=> e[i] = "."
    BY <1>6, <1>7, <2>1, LoweredEqual
  <2>3. /\ name[L - Len(e) + 1] = "."
        /\ \A k \in 2 .. Len(e) : name[L - Len(e) + k] # "."
    <3> DEFINE l == Len(e)
    <3>1. /\ l \in Nat \ {0} /\ e[1] = "." /\ \A i \in 1 .. l : e[i] = "." => i = 1
          /\ \A k \in 1 .. l : Ending(e)[k] = name[L - l + k]
      BY <1>6, <1>7, <2>1
    <3>2. \A i \in 1 .. l : name[L - l + i] = "." <=> e[i] = "."
      BY <2>2, <3>1, Zenon
    <3> HIDE DEF l
    <3>3. 1 \in 1 .. l /\ \A k \in 2 .. l : k \in 1 .. l /\ k # 1
      BY <3>1
    <3>4. name[L - l + 1] = "." /\ \A k \in 2 .. l : name[L - l + k] # "."
      BY <3>1, <3>2, <3>3, Zenon
    <3> QED
      BY <3>4, Zenon DEF l
  <2>4. L - Len(e) + 1 \in 1 .. L
    <3> DEFINE l == Len(e)
               k == Len(element)
    <3>1. L \in Nat /\ s \in 0 .. L /\ k = L - s /\ l \in Nat \ {0} /\ l <= k
      BY <1>1, <1>2, <1>4, <1>6, <2>1
    <3> HIDE DEF l, k
    <3>2. L - l + 1 \in 1 .. L
      BY <3>1
    <3> QED
      BY <3>2 DEF l
  <2>5. dots # {}
    BY <1>1, <2>3, <2>4
  <2>6. d = L - Len(e) + 1
    <3>1. d >= L - Len(e) + 1
      BY <1>3, <2>3, <2>4, <2>5
    <3>2. ~ (d > L - Len(e) + 1)
      <4> SUFFICES ASSUME d > L - Len(e) + 1 PROVE FALSE
        OBVIOUS
      <4> DEFINE k == d - (L - Len(e))
      <4>1. k \in 2 .. Len(e) /\ L - Len(e) + k = d
        BY <1>1, <1>3, <1>6, <2>1, <2>5
      <4> QED
        BY <1>3, <2>3, <2>5, <4>1
    <3>3. d \in Nat /\ L - Len(e) + 1 \in Int
      BY <1>1, <1>3, <1>6, <2>1, <2>5
    <3> QED
      BY <3>1, <3>2, <3>3
  <2>7. Ending(e) = extension
    <3>1. Len(extension) = Len(e)
      BY <1>1, <1>5, <1>6, <2>1, <2>5, <2>6
    <3>2. \A k \in 1 .. Len(e) : Ending(e)[k] = extension[k]
      <4> SUFFICES ASSUME NEW k \in 1 .. Len(e) PROVE Ending(e)[k] = extension[k]
        OBVIOUS
      <4>1. d + k - 1 = L - Len(e) + k
        BY <1>1, <1>6, <2>1, <2>6
      <4>2. L - d + 1 = Len(e)
        BY <1>1, <1>6, <2>1, <2>6
      <4> QED
        BY <1>5, <1>7, <2>1, <2>5, <4>1, <4>2
    <3> QED
      BY <1>5, <1>7, <2>1, <3>1, <3>2, SeqEqual
  <2> QED
    BY <2>1, <2>7
<1>9. ASSUME NEW e \in same PROVE e \in behind
  <2>1. e \in DOMAIN MimeMap /\ Lowered(e) = Lowered(extension)
    BY <1>9
  <2>2. /\ Len(e) = Len(extension)
        /\ \A i \in 1 .. Len(e) : extension[i] # "/"
    BY <1>5, <1>6, <2>1, LoweredEqual
  <2>3. dots # {}
    BY <1>5, <1>6, <2>1, <2>2, EmptySeq
  <2>4. d > s
    <3> SUFFICES ASSUME d <= s PROVE FALSE
      BY <1>2, <1>3, <2>3
    <3> DEFINE k == s - d + 1
    <3>1. k \in 1 .. L - d + 1 /\ d + k - 1 = s /\ s # 0
      BY <1>1, <1>2, <1>3, <2>3
    <3>2. extension[k] = name[s]
      BY <1>5, <2>3, <3>1
    <3> QED
      BY <1>2, <1>5, <2>2, <2>3, <3>1, <3>2
  <2>5. Len(e) <= Len(element) /\ L - d + 1 = Len(e) /\ d = L - Len(e) + 1
    <3>1. d \in 1 .. L /\ L \in Nat /\ s \in 0 .. L /\ Len(element) = L - s
      BY <1>1, <1>2, <1>3, <1>4, <2>3
    <3>2. Len(e) = L - d + 1
      BY <1>5, <2>2, <2>3
    <3> QED
      BY <2>4, <3>1, <3>2
  <2>6. Ending(e) = extension
    <3>1. \A k \in 1 .. Len(e) : Ending(e)[k] = extension[k]
      <4> SUFFICES ASSUME NEW k \in 1 .. Len(e) PROVE Ending(e)[k] = extension[k]
        OBVIOUS
      <4>1. d + k - 1 = L - Len(e) + k
        BY <1>1, <1>6, <2>1, <2>5
      <4> QED
        BY <1>5, <1>7, <2>1, <2>3, <2>5, <4>1
    <3> QED
      BY <1>5, <1>7, <2>1, <2>2, <2>5, <3>1, SeqEqual
  <2> QED
    BY <2>1, <2>5, <2>6
<1>10. MimeType(name) = IF same = {} THEN "application/text"
                        ELSE MimeMap[CHOOSE e \in same : TRUE]
  BY DEF MimeType, GetMimeType, extension, d, L
<1>11. \A e, f \in same : e = f
  BY MimeAssumption
<1>12. behind = same
  BY <1>8, <1>9
<1>13. IF behind = {} THEN MimeType(name) = "application/text"
       ELSE \A e \in behind : MimeType(name) = MimeMap[e]
  <2> HIDE DEF same, behind
  <2> QED
    BY <1>10, <1>11, <1>12
<1> QED
  BY <1>13 DEF behind, Ending, element, s, L

\* The answer of a mount has the type of the name that it opened, if any.
LEMMA AnswerHasType ==
  ASSUME NEW method, NEW root \in Roots, NEW path \in Seq(STRING)
  PROVE  LET answer == StaticAnswer(method, root, path)
         IN answer.status \in {"ok", "write_fails"} =>
               /\ ~ Illegal(path)
               /\ answer.name = FileName(root, path)
               /\ answer.type = MimeType(answer.name)
<1> DEFINE answer == StaticAnswer(method, root, path)
           name == FileName(root, path)
<1>1. \/ answer \in {[status |-> "bad_request"], [status |-> "not_found"],
                     [status |-> "server_error"]}
      \/ /\ ~ Illegal(path)
         /\ \/ answer = [status |-> "write_fails", name |-> name, type |-> MimeType(name)]
            \/ answer = [status |-> "ok", name |-> name, type |-> MimeType(name),
                         body |-> method # HEAD]
  BY Zenon DEF StaticAnswer
<1>2. name = FileName(root, path)
  OBVIOUS
<1> HIDE DEF answer, name
<1>3. CASE answer \in {[status |-> "bad_request"], [status |-> "not_found"],
                       [status |-> "server_error"]}
  BY <1>3 DEF answer
<1>4. CASE /\ ~ Illegal(path)
           /\ answer = [status |-> "write_fails", name |-> name, type |-> MimeType(name)]
  BY <1>2, <1>4 DEF answer
<1>5. CASE /\ ~ Illegal(path)
           /\ answer = [status |-> "ok", name |-> name, type |-> MimeType(name),
                        body |-> method # HEAD]
  BY <1>2, <1>5 DEF answer
<1> QED
  BY <1>1, <1>3, <1>4, <1>5

\* A mount has one of the directories, the one that it was given first.
LEMMA RootOfMount ==
  ASSUME MountsInv, NEW m \in DOMAIN static_file_routes_
  PROVE  m \in Mounts /\ static_file_routes_[m] \in Roots
<1> DEFINE given == {i \in DOMAIN calls : calls[i].mount = m}
<1>1. DOMAIN calls \subseteq Nat
  BY LenProperties DEF MountsInv
<1>2. given \in SUBSET Nat /\ given # {}
  BY <1>1 DEF MountsInv
<1>3. PICK i \in given : \A j \in given : i <= j
  <2> HIDE DEF given
  <2> QED
    BY <1>2, Smallest
<1>4. \A j \in 1 .. i - 1 : calls[j].mount # calls[i].mount
  BY <1>3, LenProperties DEF MountsInv
<1>5. calls[i] \in [mount : Mounts, root : Roots]
  BY <1>3, ElementOfSeq, LenProperties DEF MountsInv
<1>6. static_file_routes_[calls[i].mount] = calls[i].root
  BY <1>3, <1>4 DEF MountsInv
<1> QED
  BY <1>3, <1>5, <1>6

-----------------------------------------------------------------------------
(* Lemmas about where a name leads. *)

\* One step of the way along a name.
WalkStep(name, walk, i) ==
    IF i = 0 THEN [at |-> IF name[1] = "/" THEN <<>> ELSE <<<<"cwd">>>>, element |-> <<>>]
    ELSE LET was == walk[i - 1]
         IN IF name[i] = "/"
            THEN [at |-> Entered(was.at, was.element), element |-> <<>>]
            ELSE [at |-> was.at, element |-> Append(was.element, name[i])]

\* The recursion of Walk ends: there is a function that takes these steps.
LEMMA WalkEquation ==
  ASSUME NEW name, Len(name) \in Nat
  PROVE  \A i \in 0 .. Len(name) : Walk(name)[i] = WalkStep(name, Walk(name), i)
<1> DEFINE n == Len(name)
           IsWalk(w, k) == w = [i \in 0 .. k |-> WalkStep(name, w, i)]
<1>1. \E w : IsWalk(w, 0)
  <2> DEFINE w == [i \in 0 .. 0 |-> WalkStep(name, name, i)]
  <2>1. w = [i \in 0 .. 0 |-> WalkStep(name, w, i)]
    BY DEF WalkStep
  <2> QED
    BY <2>1
<1>2. ASSUME NEW k \in Nat, \E w : IsWalk(w, k)
      PROVE  \E w : IsWalk(w, k + 1)
  <2>1. PICK v : v = [i \in 0 .. k |-> WalkStep(name, v, i)]
    BY <1>2
  <2> DEFINE w == [i \in 0 .. k + 1 |-> WalkStep(name, v, i)]
  <2>2. \A i \in 0 .. k : w[i] = v[i]
    <3> SUFFICES ASSUME NEW i \in 0 .. k PROVE w[i] = v[i]
      OBVIOUS
    <3>1. w[i] = WalkStep(name, v, i)
      OBVIOUS
    <3> QED
      BY <2>1, <3>1
  <2>3. \A i \in 0 .. k + 1 : WalkStep(name, v, i) = WalkStep(name, w, i)
    <3> SUFFICES ASSUME NEW i \in 0 .. k + 1
                 PROVE  WalkStep(name, v, i) = WalkStep(name, w, i)
      OBVIOUS
    <3>1. i # 0 => v[i - 1] = w[i - 1]
      <4>1. i # 0 => i - 1 \in 0 .. k
        OBVIOUS
      <4> HIDE DEF w
      <4> QED
        BY <2>2, <4>1
    <3> HIDE DEF w
    <3> QED
      BY <3>1 DEF WalkStep
  <2>4. w = [i \in 0 .. k + 1 |-> WalkStep(name, w, i)]
    <3>1. [i \in 0 .. k + 1 |-> WalkStep(name, v, i)] = [i \in 0 .. k + 1 |-> WalkStep(name, w, i)]
      <4> HIDE DEF w
      <4> QED
        BY <2>3, Zenon
    <3> QED
      BY <3>1
  <2> QED
    BY <2>4
<1>3. \E w : IsWalk(w, n)
  <2> DEFINE Walks == {k \in Nat : \E w : IsWalk(w, k)}
  <2> HIDE DEF IsWalk
  <2>1. 0 \in Walks /\ \A k \in 0 .. n - 1 : k \in Walks => k + 1 \in Walks
    BY <1>1, <1>2
  <2>2. \A k \in 0 .. n : k \in Walks
    <3> HIDE DEF Walks
    <3> QED
      BY <2>1, UpTo
  <2> QED
    BY <2>2
<1>4. Walk(name) = CHOOSE w : IsWalk(w, n)
  BY DEF Walk, WalkStep
<1>5. IsWalk(Walk(name), n)
  <2> HIDE DEF IsWalk
  <2> QED
  BY <1>3, <1>4
<1> QED
  <2> DEFINE w == Walk(name)
  <2>1. w = [i \in 0 .. n |-> WalkStep(name, w, i)]
    BY <1>5
  <2> HIDE DEF w
  <2> SUFFICES ASSUME NEW i \in 0 .. n PROVE w[i] = WalkStep(name, w, i)
    BY DEF w
  <2>2. [j \in 0 .. n |-> WalkStep(name, w, j)][i] = WalkStep(name, w, i)
    OBVIOUS
  <2> QED
    BY <2>1, <2>2, Zenon

\* An element leads to a place.
LEMMA EnteredType ==
  ASSUME NEW at \in Seq(Seq(Character)), NEW element \in Seq(Character)
  PROVE  Entered(at, element) \in Seq(Seq(Character))
<1> DEFINE up == SubSeq(at, 1, Len(at) - 1)
           S == Seq(Character)
<1>1. up \in Seq(S)
  <2> HIDE DEF S
  <2>1. Len(at) \in Nat /\ \A i \in 1 .. Len(at) - 1 : at[i] \in S
    BY LenProperties, ElementOfSeq DEF S
  <2> QED
    BY <2>1, SubSeqProperties
<1>2. Append(at, element) \in Seq(S)
  BY AppendProperties
<1> HIDE DEF up
<1> QED
  BY <1>1, <1>2 DEF Entered, up, S

\* The way along a name consists of places and the beginnings of elements.
LEMMA WalkType ==
  ASSUME NEW name \in Seq(Character)
  PROVE  \A i \in 0 .. Len(name) :
            /\ Walk(name)[i].at \in Seq(Seq(Character))
            /\ Walk(name)[i].element \in Seq(Character)
<1> DEFINE w == Walk(name)
           Typed == {i \in Nat : /\ w[i].at \in Seq(Seq(Character))
                                 /\ w[i].element \in Seq(Character)}
<1>1. Len(name) \in Nat
  BY LenProperties
<1>2. \A i \in 0 .. Len(name) : w[i] = WalkStep(name, w, i)
  BY <1>1, WalkEquation
<1> HIDE DEF w
<1>3. 0 \in Typed
  <2> DEFINE start == IF name[1] = "/" THEN <<>> ELSE <<<<"cwd">>>>
  <2>1. w[0] = [at |-> start, element |-> <<>>]
    <3>1. 0 \in 0 .. Len(name)
      BY <1>1
    <3> QED
      BY <1>2, <3>1, Zenon DEF WalkStep
  <2>2. <<"cwd">> \in Seq(Character)
    BY DEF Character
  <2>3. <<<<"cwd">>>> \in Seq(Seq(Character)) /\ <<>> \in Seq(Seq(Character))
    <3> DEFINE S == Seq(Character)
               cwd == <<"cwd">>
    <3>1. cwd \in S
      BY <2>2
    <3> HIDE DEF S, cwd
    <3>2. <<cwd>> \in Seq(S) /\ <<>> \in Seq(S)
      BY <3>1
    <3> QED
      BY <3>2 DEF S, cwd
  <2>4. <<>> \in Seq(Character)
    BY EmptySeq
  <2>5. start \in Seq(Seq(Character))
    BY <2>3, Zenon
  <2> HIDE DEF start
  <2>6. w[0].at \in Seq(Seq(Character)) /\ w[0].element \in Seq(Character)
    BY <2>1, <2>4, <2>5
  <2> QED
    BY <2>6
<1>4. ASSUME NEW i \in 0 .. Len(name) - 1, i \in Typed PROVE i + 1 \in Typed
  <2>1. /\ i + 1 \in 0 .. Len(name) /\ i + 1 # 0 /\ (i + 1) - 1 = i
        /\ i + 1 \in 1 .. Len(name)
    BY <1>1
  <2> DEFINE at == w[i].at
             element == w[i].element
             c == name[i + 1]
  <2>2. w[i + 1] = IF c = "/" THEN [at |-> Entered(at, element), element |-> <<>>]
                   ELSE [at |-> at, element |-> Append(element, c)]
    BY <1>2, <2>1 DEF WalkStep
  <2>3. at \in Seq(Seq(Character)) /\ element \in Seq(Character)
    BY <1>4
  <2>4. c \in Character
    BY <2>1, ElementOfSeq
  <2> HIDE DEF at, element, c
  <2>5. /\ Entered(at, element) \in Seq(Seq(Character))
        /\ Append(element, c) \in Seq(Character)
        /\ <<>> \in Seq(Character)
    BY <2>3, <2>4, EnteredType, AppendProperties, EmptySeq
  <2> DEFINE there == Entered(at, element)
             more == Append(element, c)
  <2>6. /\ there \in Seq(Seq(Character)) /\ more \in Seq(Character)
        /\ w[i + 1] = IF c = "/" THEN [at |-> there, element |-> <<>>]
                      ELSE [at |-> at, element |-> more]
    BY <2>2, <2>5
  <2> HIDE DEF there, more
  <2>7. w[i + 1].at \in Seq(Seq(Character)) /\ w[i + 1].element \in Seq(Character)
    BY <2>3, <2>5, <2>6
  <2> QED
    BY <2>1, <2>7
<1>5. \A i \in 0 .. Len(name) : i \in Typed
  <2> HIDE DEF Typed
  <2> QED
    BY <1>1, <1>3, <1>4, UpTo
<1> QED
  BY <1>5 DEF w

\* The way along a name begins with the way along what it begins with.
LEMMA WalkOfPrefix ==
  ASSUME NEW name, NEW base, Len(name) \in Nat, Len(base) \in 1 .. Len(name),
         \A i \in 1 .. Len(base) : name[i] = base[i]
  PROVE  \A i \in 0 .. Len(base) : Walk(name)[i] = Walk(base)[i]
<1> DEFINE v == Walk(name)
           w == Walk(base)
           Same == {i \in Nat : v[i] = w[i]}
<1>1. /\ \A i \in 0 .. Len(name) : v[i] = WalkStep(name, v, i)
      /\ \A i \in 0 .. Len(base) : w[i] = WalkStep(base, w, i)
  BY WalkEquation
<1> HIDE DEF v, w
<1>2. 0 \in Same
  <2>1. name[1] = base[1] /\ 0 \in 0 .. Len(name) /\ 0 \in 0 .. Len(base) /\ 0 \in Nat
    OBVIOUS
  <2>2. v[0] = w[0]
    BY <1>1, <2>1, Zenon DEF WalkStep
  <2> QED
    BY <2>1, <2>2
<1>3. ASSUME NEW i \in 0 .. Len(base) - 1, i \in Same PROVE i + 1 \in Same
  <2>1. /\ i + 1 \in 0 .. Len(name) /\ i + 1 \in 1 .. Len(base) /\ i + 1 \in 0 .. Len(base)
        /\ i + 1 # 0 /\ (i + 1) - 1 = i
    OBVIOUS
  <2>2. v[i] = w[i] /\ name[i + 1] = base[i + 1]
    BY <1>3, <2>1
  <2>3. WalkStep(name, v, i + 1) = WalkStep(base, w, i + 1)
    BY <2>1, <2>2 DEF WalkStep
  <2> QED
    BY <1>1, <2>1, <2>3
<1>4. \A i \in 0 .. Len(base) : i \in Same
  <2> HIDE DEF Same
  <2>1. Len(base) \in Nat
    OBVIOUS
  <2> QED
    BY <1>2, <1>3, <2>1, UpTo
<1> QED
  BY <1>4 DEF v, w

\* Every element but ".." stays below a place.
LEMMA EnteredBelow ==
  ASSUME NEW place \in Seq(Seq(Character)), NEW at \in Seq(Seq(Character)),
         NEW element \in Seq(Character),
         StartsWith(at, place), element # <<".", ".">>
  PROVE  StartsWith(Entered(at, element), place)
<1>1. CASE Entered(at, element) = at
  BY <1>1
<1>2. CASE Entered(at, element) # at
  <2> DEFINE S == Seq(Character)
             n == Len(place)
             more == Append(at, element)
  <2>1. Entered(at, element) = more
    BY <1>2 DEF Entered
  <2>2. /\ place \in Seq(S) /\ at \in Seq(S) /\ element \in S
        /\ n \in Nat /\ Len(at) \in Nat /\ n <= Len(at)
    BY LenProperties DEF StartsWith
  <2> HIDE DEF S, n, more
  <2>3. /\ more \in Seq(S) /\ Len(more) = Len(at) + 1
        /\ \A i \in 1 .. Len(at) : more[i] = at[i]
    BY <2>2, AppendProperties DEF more
  <2>4. /\ \A i \in 1 .. n : at[i] \in S
        /\ \A i \in 1 .. n : more[i] \in S
    BY <2>2, <2>3, ElementOfSeq
  <2>5. SubSeq(more, 1, n) = SubSeq(at, 1, n)
    <3> DEFINE s == SubSeq(more, 1, n)
               t == SubSeq(at, 1, n)
    <3>1. s \in Seq(S) /\ t \in Seq(S) /\ Len(s) = Len(t) /\ Len(s) = n
      BY <2>2, <2>4, SubSeqProperties
    <3>2. \A i \in 1 .. n : s[i] = more[i] /\ t[i] = at[i]
      BY <2>2, <2>4, SubSeqProperties
    <3> HIDE DEF s, t
    <3>3. \A i \in 1 .. n : s[i] = t[i]
      BY <2>2, <2>3, <3>2
    <3>4. \A i \in 1 .. Len(s) : s[i] = t[i]
      BY <3>1, <3>3, Zenon
    <3>5. s = t
      BY <3>1, <3>4, SeqEqual
    <3> QED
      BY <3>5 DEF s, t
  <2>6. SubSeq(more, 1, n) = place /\ n <= Len(more)
    BY <2>2, <2>3, <2>5, SMTT(30) DEF StartsWith, n
  <2> QED
    BY <2>1, <2>6 DEF StartsWith, n
<1> QED
  BY <1>1, <1>2

\* Without two dots in a row there is no ".." behind a "/", and so no way
\* back from the place that is reached there.
LEMMA WalkStaysBelow ==
  ASSUME NEW name \in Seq(Character), NEW p \in 0 .. Len(name),
         Walk(name)[p].element = <<>>,
         \A i \in p + 1 .. Len(name) - 1 : ~ (name[i] = "." /\ name[i + 1] = ".")
  PROVE  StartsWith(Resolve(name), Walk(name)[p].at)
<1> DEFINE w == Walk(name)
           place == w[p].at
           n == Len(name) - p
           \* What is known of an element is neither ".." nor about to be.
           Fine(i) == /\ StartsWith(w[i].at, place)
                      /\ w[i].element # <<".", ".">>
                      /\ w[i].element = <<".">> => i > p /\ name[i] = "."
           Below == {k \in Nat : Fine(p + k)}
<1>1. Len(name) \in Nat /\ n \in Nat /\ p \in Nat
  BY LenProperties
<1>2. /\ \A i \in 0 .. Len(name) : w[i] = WalkStep(name, w, i)
      /\ \A i \in 0 .. Len(name) : w[i].at \in Seq(Seq(Character))
                                   /\ w[i].element \in Seq(Character)
  BY <1>1, WalkEquation, WalkType
<1>3. w[p].element = <<>>
  OBVIOUS
<1> HIDE DEF w
<1>4. 0 \in Below
  <2>1. p + 0 = p
    BY <1>1
  <2>2. StartsWith(place, place)
    <3> DEFINE S == Seq(Character)
    <3>1. place \in Seq(S)
      BY <1>2
    <3> HIDE DEF S, place
    <3>2. SubSeq(place, 1, Len(place)) = place /\ Len(place) <= Len(place)
      BY <3>1, SubSeqFull, LenProperties
    <3> QED
      BY <3>2 DEF StartsWith
  <2> QED
    BY <1>3, <2>1, <2>2
<1>5. ASSUME NEW k \in 0 .. n - 1, k \in Below PROVE k + 1 \in Below
  <2> DEFINE i == p + k
             at == w[i].at
             element == w[i].element
             c == name[i + 1]
  <2>1. /\ i \in 0 .. Len(name) /\ i + 1 \in 0 .. Len(name) /\ i + 1 # 0
        /\ (i + 1) - 1 = i /\ p + (k + 1) = i + 1 /\ i + 1 > p /\ i \in Nat
    BY <1>1
  <2>2. Fine(i)
    BY <1>5
  <2>3. w[i + 1] = IF c = "/" THEN [at |-> Entered(at, element), element |-> <<>>]
                   ELSE [at |-> at, element |-> Append(element, c)]
    <3> HIDE DEF i
    <3> QED
      BY <1>2, <2>1 DEF WalkStep
  <2>4. at \in Seq(Seq(Character)) /\ element \in Seq(Character)
    BY <1>2, <2>1
  <2>5. element = <<".">> => i > p /\ name[i] = "." /\ c # "."
    BY <1>1, <2>1, <2>2, SMTT(30)
  <2>6. StartsWith(at, place) /\ element # <<".", ".">>
    BY <2>2
  <2> HIDE DEF place
  <2>7. Fine(i + 1)
    <3>1. CASE c = "/"
      <4>1. w[i + 1].at = Entered(at, element) /\ w[i + 1].element = <<>>
        BY <2>3, <3>1
      <4>2. StartsWith(Entered(at, element), place)
        <5>1. place \in Seq(Seq(Character))
          BY <1>1, <1>2 DEF place
        <5> HIDE DEF at, element
        <5> QED
          BY <2>4, <2>6, <5>1, EnteredBelow
      <4> QED
        BY <4>1, <4>2
    <3>2. CASE c # "/"
      <4>1. w[i + 1].at = at /\ w[i + 1].element = Append(element, c)
        BY <2>3, <3>2
      <4>2. c \in Character
        BY <1>1, <2>1, ElementOfSeq
      <4>3. Append(element, c) # <<".", ".">> /\ (Append(element, c) = <<".">> => c = ".")
        <5> HIDE DEF element, c, i
        <5>1. /\ Len(Append(element, c)) = Len(element) + 1 /\ Len(element) \in Nat
              /\ \A j \in 1 .. Len(element) : Append(element, c)[j] = element[j]
              /\ Append(element, c)[Len(element) + 1] = c
          BY <2>4, <4>2, AppendProperties, LenProperties
        <5>2. ASSUME Append(element, c) = <<".", ".">> PROVE FALSE
          <6>1. Len(element) = 1 /\ element[1] = "." /\ c = "."
            <7> DEFINE up == <<".", ".">>
            <7>1. Len(up) = 2 /\ up[1] = "." /\ up[2] = "."
              OBVIOUS
            <7>2. Append(element, c) = up
              BY <5>2
            <7> HIDE DEF up
            <7> DEFINE len == Len(element)
            <7>3. len + 1 = 2 /\ len \in Nat
              BY <5>1, <7>1, <7>2, Zenon
            <7>4. len = 1
              <8> HIDE DEF len
              <8> QED
                BY <7>3
            <7> QED
              BY <5>1, <7>1, <7>2, <7>4
          <6>2. element = <<".">>
            <7>1. <<".">> \in Seq(Character) /\ Len(<<".">>) = 1 /\ <<".">>[1] = "."
              BY DEF Character
            <7>2. \A j \in 1 .. Len(element) : element[j] = <<".">>[j]
              BY <6>1, <7>1
            <7> QED
              BY <2>4, <6>1, <7>1, <7>2, SeqEqual
          <6> QED
            BY <2>5, <6>1, <6>2
        <5>3. Append(element, c) = <<".">> => c = "."
          BY <5>1
        <5> QED
          BY <5>2, <5>3
      <4> QED
        BY <2>1, <2>6, <4>1, <4>3
    <3> QED
      BY <3>1, <3>2
  <2> QED
    BY <2>1, <2>7
<1>6. \A k \in 0 .. n : k \in Below
  <2> HIDE DEF Below, n
  <2> QED
    BY <1>1, <1>4, <1>5, UpTo
<1>7. Fine(Len(name))
  <2>1. n \in 0 .. n /\ p + n = Len(name)
    BY <1>1
  <2>2. n \in Below
    <3> HIDE DEF n, Below
    <3> QED
      BY <1>6, <2>1
  <2>3. Fine(p + n)
    BY <2>2
  <2> HIDE DEF n, Fine
  <2> QED
    BY <2>1, <2>3
<1>8. StartsWith(Entered(w[Len(name)].at, w[Len(name)].element), place)
  <2> DEFINE at == w[Len(name)].at
             element == w[Len(name)].element
  <2>1. /\ place \in Seq(Seq(Character)) /\ at \in Seq(Seq(Character))
        /\ element \in Seq(Character)
        /\ StartsWith(at, place) /\ element # <<".", ".">>
    BY <1>1, <1>2, <1>7
  <2> HIDE DEF at, element, place
  <2> QED
    BY <2>1, EnteredBelow DEF at, element
<1> QED
  BY <1>8 DEF Resolve, w

\* A "/" enters the element before it.
LEMMA SlashEnters ==
  ASSUME NEW name, Len(name) \in Nat, NEW i \in 1 .. Len(name), name[i] = "/"
  PROVE  /\ Walk(name)[i].at = Entered(Walk(name)[i - 1].at, Walk(name)[i - 1].element)
         /\ Walk(name)[i].element = <<>>
<1> DEFINE w == Walk(name)
<1>1. \A j \in 0 .. Len(name) : w[j] = WalkStep(name, w, j)
  BY WalkEquation
<1>2. i \in 0 .. Len(name) /\ i # 0
  OBVIOUS
<1> HIDE DEF w
<1>3. w[i] = [at |-> Entered(w[i - 1].at, w[i - 1].element), element |-> <<>>]
  BY <1>1, <1>2 DEF WalkStep
<1> QED
  BY <1>3 DEF w

\* A name that goes on with a "/" passes the place that its beginning
\* leads to.
LEMMA PassesBase ==
  ASSUME NEW name \in Seq(Character), NEW base \in Seq(Character),
         Len(base) \in 1 .. Len(name) - 1,
         \A i \in 1 .. Len(base) : name[i] = base[i],
         name[Len(base) + 1] = "/"
  PROVE  /\ Walk(name)[Len(base) + 1].at = Resolve(base)
         /\ Walk(name)[Len(base) + 1].element = <<>>
<1> DEFINE p == Len(base) + 1
<1>1. /\ Len(name) \in Nat /\ Len(base) \in Nat /\ p \in 1 .. Len(name)
      /\ p - 1 = Len(base) /\ Len(base) \in 1 .. Len(name) /\ Len(base) \in 0 .. Len(base)
  BY LenProperties
<1>2. Walk(name)[Len(base)] = Walk(base)[Len(base)]
  BY <1>1, WalkOfPrefix
<1>3. name[p] = "/"
  OBVIOUS
<1> HIDE DEF p
<1>4. /\ Walk(name)[p].at = Entered(Walk(name)[p - 1].at, Walk(name)[p - 1].element)
      /\ Walk(name)[p].element = <<>>
  BY <1>1, <1>3, SlashEnters
<1>5. Resolve(base) = Entered(Walk(base)[Len(base)].at, Walk(base)[Len(base)].element)
  BY DEF Resolve
<1>6. Walk(name)[p].at = Resolve(base)
  BY <1>1, <1>2, <1>4, <1>5, Zenon
<1> QED
  BY <1>4, <1>6 DEF p

\* A directory without the "/" at its end, as path_cat() takes it.
Trimmed(root) == IF root[Len(root)] = "/" THEN SubSeq(root, 1, Len(root) - 1) ELSE root

\* What path_cat() takes off a directory is no more than a "/" at its end.
LEMMA TrimmedRoot ==
  ASSUME NEW root \in Roots
  PROVE  LET base == Trimmed(root)
         IN /\ root \in Seq(Character) /\ base \in Seq(Character)
            /\ Len(base) \in Nat \ {0}
            /\ \A i \in 1 .. Len(base) : root[i] = base[i]
            /\ \/ root = base
               \/ Len(root) = Len(base) + 1 /\ root[Len(base) + 1] = "/"
<1> DEFINE short == SubSeq(root, 1, Len(root) - 1)
           Char == STRING \cup {"/"}
<1>1. /\ root \in Seq(STRING) /\ root \in Seq(Character) /\ root \in Seq(Char)
      /\ root # <<>> /\ root # <<"/">> /\ Len(root) \in Nat \ {0}
  <2>1. root \in Seq(STRING) /\ root # <<>> /\ root # <<"/">>
    BY StaticAssumption
  <2>2. root \in Seq(Character)
    BY <2>1, SeqMonotonic DEF Character
  <2>3. root \in Seq(Char)
    BY <2>1, SeqMonotonic
  <2> QED
    BY <2>1, <2>2, <2>3, EmptySeq
<1>2. CASE root[Len(root)] = "/"
  <2>1. Trimmed(root) = short
    BY <1>2 DEF Trimmed
  <2>2. \A i \in 1 .. Len(root) - 1 : root[i] \in Character
    BY <1>1, ElementOfSeq
  <2>3. /\ short \in Seq(Character)
        /\ Len(short) = Len(root) - 1
        /\ \A i \in 1 .. Len(root) - 1 : short[i] = root[i]
    <3> DEFINE to == Len(root) - 1
    <3>1. to \in Int /\ to \in Nat
      BY <1>1
    <3> HIDE DEF to
    <3> DEFINE t == SubSeq(root, 1, to)
    <3>2. \A i \in 1 .. to : root[i] \in Character
      BY <2>2 DEF to
    <3>3. /\ t \in Seq(Character)
          /\ Len(t) = to
          /\ \A i \in 1 .. to : t[i] = root[i]
      BY <3>1, <3>2, SubSeqProperties
    <3> QED
      BY <3>3 DEF to
  <2>4. Len(root) # 1
    <3> SUFFICES ASSUME Len(root) = 1 PROVE FALSE
      OBVIOUS
    <3> DEFINE slash == <<"/">>
    <3>1. slash \in Seq(Char) /\ Len(slash) = 1 /\ slash[1] = "/"
      OBVIOUS
    <3>2. root[1] = "/"
      BY <1>2
    <3> HIDE DEF slash, Char
    <3>3. \A i \in 1 .. Len(root) : root[i] = slash[i]
      BY <3>1, <3>2
    <3>4. root = slash
      BY <1>1, <3>1, <3>3, SeqEqual
    <3> QED
      BY <1>1, <3>4 DEF slash
  <2> HIDE DEF short
  <2>5. /\ Len(short) \in Nat \ {0} /\ Len(root) = Len(short) + 1
        /\ \A i \in 1 .. Len(short) : root[i] = short[i]
        /\ root[Len(short) + 1] = "/"
    BY <1>1, <1>2, <2>3, <2>4
  <2> QED
    BY <1>1, <2>1, <2>3, <2>5
<1>3. CASE root[Len(root)] # "/"
  <2>1. Trimmed(root) = root
    BY <1>3 DEF Trimmed
  <2> QED
    BY <1>1, <2>1
<1> QED
  BY <1>2, <1>3

\* The name that is opened: the directory, the rest of the target, and the
\* index if that ends with a "/".
LEMMA FileNameParts ==
  ASSUME NEW root \in Roots, NEW path \in Seq(STRING)
  PROVE  LET base == Trimmed(root)
             name == FileName(root, path)
             n == Len(base) + Len(path)
         IN /\ name \in Seq(Character) /\ Len(path) \in Nat
            /\ \A i \in 1 .. Len(base) : name[i] = base[i]
            /\ \A i \in 1 .. Len(path) : name[Len(base) + i] = path[i]
            /\ \/ Len(name) = n
               \/ /\ Len(name) = n + 3 /\ name[n] = "/"
                  /\ name[n + 1] = "index" /\ name[n + 2] = "." /\ name[n + 3] = "html"
<1> DEFINE base == Trimmed(root)
           cat == base \o path
           index == <<"index", ".", "html">>
           name == FileName(root, path)
           n == Len(base) + Len(path)
<1>1. /\ base \in Seq(Character) /\ Len(base) \in Nat \ {0}
      /\ path \in Seq(Character) /\ Len(path) \in Nat
  <2>1. path \in Seq(Character)
    BY SeqMonotonic DEF Character
  <2> QED
    BY <2>1, TrimmedRoot, LenProperties
<1>2. name = IF cat[Len(cat)] = "/" THEN cat \o index ELSE cat
  BY DEF FileName, PathCat, Trimmed
<1>3. /\ index \in Seq(Character) /\ Len(index) = 3
      /\ index[1] = "index" /\ index[2] = "." /\ index[3] = "html"
  BY DEF Character
<1>4. /\ cat \in Seq(Character) /\ Len(cat) = n /\ n \in Nat
      /\ \A i \in 1 .. n : cat[i] = IF i <= Len(base) THEN base[i] ELSE path[i - Len(base)]
  <2> HIDE DEF base
  <2> QED
    BY <1>1, ConcatProperties
<1> HIDE DEF base, cat, index, name
<1>5. /\ cat \o index \in Seq(Character) /\ Len(cat \o index) = n + 3
      /\ \A i \in 1 .. n + 3 : (cat \o index)[i] = IF i <= n THEN cat[i] ELSE index[i - n]
  <2> HIDE DEF n
  <2>1. /\ cat \o index \in Seq(Character) /\ Len(cat \o index) = Len(cat) + Len(index)
        /\ \A i \in 1 .. Len(cat) + Len(index) :
              (cat \o index)[i] = IF i <= Len(cat) THEN cat[i] ELSE index[i - Len(cat)]
    <3>1. cat \in Seq(Character) /\ index \in Seq(Character)
      BY <1>3, <1>4
    <3> QED
      BY <3>1, ConcatProperties
  <2>2. Len(cat) = n /\ Len(index) = 3
    BY <1>3, <1>4
  <2> HIDE DEF index, cat
  <2> QED
    BY <2>1, <2>2, Zenon
<1>6. /\ \A i \in 1 .. Len(base) : cat[i] = base[i]
      /\ \A i \in 1 .. Len(path) : cat[Len(base) + i] = path[i]
  <2>1. \A i \in 1 .. Len(base) : i \in 1 .. n /\ i <= Len(base)
    BY <1>1
  <2>2. \A i \in 1 .. Len(path) : /\ Len(base) + i \in 1 .. n /\ ~ (Len(base) + i <= Len(base))
                                  /\ (Len(base) + i) - Len(base) = i
    BY <1>1
  <2> QED
    BY <1>4, <2>1, <2>2
<1>7. CASE cat[Len(cat)] = "/"
  <2>1. name = cat \o index
    BY <1>2, <1>7
  <2>2. \A i \in 1 .. n : name[i] = cat[i]
    BY <1>4, <1>5, <2>1
  <2>3. \A i \in 1 .. Len(base) : name[i] = base[i]
    BY <1>1, <1>6, <2>2
  <2>4. \A i \in 1 .. Len(path) : name[Len(base) + i] = path[i]
    <3>1. \A i \in 1 .. Len(path) : Len(base) + i \in 1 .. n
      BY <1>1
    <3> QED
      BY <1>6, <2>2, <3>1
  <2>5. name[n] = "/"
    BY <1>1, <1>4, <1>7, <2>2
  <2>6. name[n + 1] = "index" /\ name[n + 2] = "." /\ name[n + 3] = "html"
    <3>1. /\ n + 1 \in 1 .. n + 3 /\ ~ (n + 1 <= n) /\ (n + 1) - n = 1
          /\ n + 2 \in 1 .. n + 3 /\ ~ (n + 2 <= n) /\ (n + 2) - n = 2
          /\ n + 3 \in 1 .. n + 3 /\ ~ (n + 3 <= n) /\ (n + 3) - n = 3
      BY <1>4
    <3> HIDE DEF n
    <3> QED
      BY <1>3, <1>5, <2>1, <3>1
  <2> HIDE DEF n
  <2>7. name \in Seq(Character) /\ Len(name) = n + 3
    BY <1>5, <2>1
  <2> QED
    BY <1>1, <2>3, <2>4, <2>5, <2>6, <2>7 DEF name, base, n
<1>8. CASE cat[Len(cat)] # "/"
  <2>1. name = cat
    BY <1>2, <1>8
  <2> QED
    BY <1>1, <1>4, <1>6, <2>1 DEF name, base
<1> QED
  BY <1>7, <1>8

\* A place is below itself.
LEMMA StartsWithItself ==
  ASSUME NEW S, NEW s \in Seq(S)
  PROVE  StartsWith(s, s)
<1>1. SubSeq(s, 1, Len(s)) = s /\ Len(s) <= Len(s)
  BY SubSeqFull, LenProperties
<1> QED
  BY <1>1 DEF StartsWith

\* The "/" that path_cat() takes off a directory makes no difference to
\* where it is.
LEMMA TrimmedIsSamePlace ==
  ASSUME NEW root \in Roots
  PROVE  /\ Resolve(Trimmed(root)) = Resolve(root)
         /\ Resolve(root) \in Seq(Seq(Character))
<1> DEFINE base == Trimmed(root)
<1>1. /\ root \in Seq(Character) /\ base \in Seq(Character) /\ Len(base) \in Nat \ {0}
      /\ \A i \in 1 .. Len(base) : root[i] = base[i]
      /\ \/ root = base
         \/ Len(root) = Len(base) + 1 /\ root[Len(base) + 1] = "/"
  BY TrimmedRoot
<1> HIDE DEF base
<1>2. Resolve(root) \in Seq(Seq(Character))
  <2>1. Len(root) \in 0 .. Len(root)
    BY <1>1, LenProperties
  <2> QED
    BY <1>1, <2>1, WalkType, EnteredType DEF Resolve
<1>3. CASE root = base
  BY <1>2, <1>3 DEF base
<1>4. CASE Len(root) = Len(base) + 1 /\ root[Len(base) + 1] = "/"
  <2>1. Len(base) \in 1 .. Len(root) - 1
    BY <1>1, <1>4
  <2>2. /\ Walk(root)[Len(base) + 1].at = Resolve(base)
        /\ Walk(root)[Len(base) + 1].element = <<>>
    BY <1>1, <1>4, <2>1, PassesBase
  <2>3. Resolve(root) = Entered(Resolve(base), <<>>)
    BY <1>4, <2>2, Zenon DEF Resolve
  <2>4. Resolve(root) = Resolve(base)
    BY <2>3 DEF Entered
  <2> QED
    BY <1>2, <2>4 DEF base
<1> QED
  BY <1>1, <1>3, <1>4

\* A rest of the target that static_file_handler does not refuse leads to
\* nothing outside the directory.
LEMMA FileIsUnderRoot ==
  ASSUME NEW root \in Roots, NEW path \in Seq(STRING), ~ Illegal(path)
  PROVE  StartsWith(Resolve(FileName(root, path)), Resolve(root))
<1> DEFINE base == Trimmed(root)
           name == FileName(root, path)
           b == Len(base)
           n == b + Len(path)
<1>1. /\ base \in Seq(Character) /\ b \in Nat \ {0}
      /\ Resolve(base) = Resolve(root) /\ Resolve(root) \in Seq(Seq(Character))
  BY TrimmedRoot, TrimmedIsSamePlace
<1>2. /\ name \in Seq(Character) /\ Len(path) \in Nat
      /\ \A i \in 1 .. b : name[i] = base[i]
      /\ \A i \in 1 .. Len(path) : name[b + i] = path[i]
      /\ \/ Len(name) = n
         \/ /\ Len(name) = n + 3 /\ name[n] = "/"
            /\ name[n + 1] = "index" /\ name[n + 2] = "." /\ name[n + 3] = "html"
  BY FileNameParts
<1>3. /\ path # <<>> => path[1] = "/"
      /\ \A i \in 1 .. Len(path) - 1 : ~ (path[i] = "." /\ path[i + 1] = ".")
  <2>1. CASE path = <<>>
    <3>1. Len(path) = 0
      BY <2>1
    <3> QED
      BY <2>1, <3>1
  <2>2. CASE path # <<>>
    BY <2>2 DEF Illegal
  <2> QED
    BY <2>1, <2>2
<1> HIDE DEF base, name, b
<1>4. ASSUME NEW i \in b + 1 .. Len(name) - 1, name[i] = ".", name[i + 1] = "."
      PROVE  FALSE
  <2>1. i \in Nat
    BY <1>1
  <2>2. CASE i < n
    <3> DEFINE k == i - b
    <3>1. k \in 1 .. Len(path) - 1 /\ k \in 1 .. Len(path) /\ k + 1 \in 1 .. Len(path)
          /\ b + k = i /\ b + (k + 1) = i + 1
      BY <1>1, <1>2, <2>1, <2>2
    <3> HIDE DEF k
    <3>2. name[i] = path[k] /\ name[i + 1] = path[k + 1]
      BY <1>2, <3>1
    <3> QED
      BY <1>3, <1>4, <3>1, <3>2
  <2>3. CASE i >= n
    <3>1. i \in {n, n + 1, n + 2}
      BY <1>1, <1>2, <2>1, <2>3, SMTT(30)
    <3>2. i = n => i + 1 = n + 1
      OBVIOUS
    <3>3. i = n + 2 => i + 1 = n + 3
      BY <1>1, <1>2
    <3>4. name[n] = "/" /\ name[n + 1] = "index" /\ name[n + 3] = "html"
      BY <1>1, <1>2, <2>1, <2>3
    <3> HIDE DEF n
    <3> QED
      BY <1>4, <3>1, <3>2, <3>3, <3>4
  <2> QED
    BY <1>1, <1>2, <2>1, <2>2, <2>3
<1>5. CASE path # <<>>
  <2> DEFINE p == b + 1
  <2>1. Len(path) # 0
    BY <1>2, <1>5, EmptySeq
  <2>2. /\ b \in 1 .. Len(name) - 1 /\ p \in 0 .. Len(name)
        /\ 1 \in 1 .. Len(path)
    BY <1>1, <1>2, <2>1
  <2>3. name[b + 1] = "/"
    BY <1>2, <1>3, <1>5, <2>2
  <2>4. Walk(name)[p].at = Resolve(base) /\ Walk(name)[p].element = <<>>
    BY <1>1, <1>2, <2>2, <2>3, PassesBase DEF b
  <2>5. \A i \in p + 1 .. Len(name) - 1 : ~ (name[i] = "." /\ name[i + 1] = ".")
    BY <1>1, <1>2, <1>4
  <2> HIDE DEF p
  <2>6. StartsWith(Resolve(name), Walk(name)[p].at)
    BY <1>2, <2>2, <2>4, <2>5, WalkStaysBelow
  <2> QED
    BY <1>1, <2>4, <2>6 DEF name
<1>6. CASE path = <<>>
  <2>1. n = b
    BY <1>1, <1>6
  <2>2. CASE Len(name) = n
    <3>1. Len(name) = Len(base)
      BY <2>1, <2>2 DEF b
    <3>2. \A i \in 1 .. Len(name) : name[i] = base[i]
      BY <1>2, <2>1, <2>2
    <3>3. name = base
      BY <1>1, <1>2, <3>1, <3>2, SeqEqual
    <3> QED
      BY <1>1, <3>3, StartsWithItself DEF name
  <2>3. CASE Len(name) = n + 3 /\ name[n] = "/"
    <3>1. /\ b \in 1 .. Len(name) /\ b \in 0 .. Len(name) /\ name[b] = "/" /\ Len(name) \in Nat
          /\ b \in 1 .. b /\ b \in 0 .. b
      BY <1>1, <2>1, <2>3
    <3>2. Walk(name)[b].element = <<>>
      BY <3>1, SlashEnters
    <3>3. Walk(name)[b].at = Resolve(base)
      <4>1. Walk(name)[b] = Walk(base)[b]
        <5>1. /\ Len(base) \in 1 .. Len(name) /\ Len(name) \in Nat
              /\ \A i \in 1 .. Len(base) : name[i] = base[i]
          BY <1>2, <3>1 DEF b
        <5>2. \A i \in 0 .. Len(base) : Walk(name)[i] = Walk(base)[i]
          BY <5>1, WalkOfPrefix
        <5>3. Len(base) \in 0 .. Len(base)
          BY <3>1 DEF b
        <5> QED
          BY <5>2, <5>3 DEF b
      <4>2. Resolve(base) = Entered(Walk(name)[b].at, <<>>)
        BY <3>2, <4>1, Zenon DEF Resolve, b
      <4> QED
        BY <4>2 DEF Entered
    <3>4. \A i \in b + 1 .. Len(name) - 1 : ~ (name[i] = "." /\ name[i + 1] = ".")
      BY <1>4
    <3>5. StartsWith(Resolve(name), Walk(name)[b].at)
      BY <1>2, <3>1, <3>2, <3>4, WalkStaysBelow
    <3> QED
      BY <1>1, <3>3, <3>5 DEF name
  <2> QED
    BY <1>2, <2>2, <2>3
<1> QED
  BY <1>5, <1>6

\* The name that was opened is a text, and lies under the directory.
LEMMA NameIsText ==
  ASSUME MountsInv, NameInv, served.answer.status \in {"ok", "write_fails"}
  PROVE  /\ served.answer.name \in Seq(Character)
         /\ StartsWith(Resolve(served.answer.name),
                       Resolve(static_file_routes_[served.mount]))
<1>1. static_file_routes_[served.mount] \in Roots
  BY RootOfMount DEF NameInv
<1>2. PICK path \in Seq(STRING) :
         /\ ~ Illegal(path)
         /\ served.answer.name = FileName(static_file_routes_[served.mount], path)
  BY DEF NameInv
<1> QED
  BY <1>1, <1>2, FileNameParts, FileIsUnderRoot

-----------------------------------------------------------------------------
(* Every step preserves the invariant. *)

\* serve_static() adds a mount that is new, and leaves one that is there.
LEMMA MountStep ==
  ASSUME IInv, NEW m \in Mounts, NEW root \in Roots, Mount(m, root)
  PROVE  IInv'
<1> DEFINE call == [mount |-> m, root |-> root]
<1>1. /\ calls' = Append(calls, call)
      /\ request' = NoRequest /\ served' = NotServed
      /\ calls \in Seq([mount : Mounts, root : Roots])
      /\ call \in [mount : Mounts, root : Roots]
  BY DEF Mount, SettingUp, vars, IInv, MountsInv
<1>2. /\ calls' \in Seq([mount : Mounts, root : Roots])
      /\ DOMAIN calls' = DOMAIN calls \cup {Len(calls) + 1}
      /\ DOMAIN calls = 1 .. Len(calls) /\ Len(calls) \in Nat
      /\ \A i \in DOMAIN calls : calls'[i] = calls[i]
      /\ calls'[Len(calls) + 1] = call
  <2> HIDE DEF call
  <2> QED
    BY <1>1, AppendProperties
<1>3. /\ DOMAIN static_file_routes_' = DOMAIN static_file_routes_ \cup {m}
      /\ \A n \in DOMAIN static_file_routes_ :
            static_file_routes_'[n] = static_file_routes_[n]
      /\ m \notin DOMAIN static_file_routes_ => static_file_routes_'[m] = root
  BY DEF Mount
<1>4. DOMAIN static_file_routes_' = {calls'[i].mount : i \in DOMAIN calls'}
  BY <1>2, <1>3 DEF IInv, MountsInv
<1>5. ASSUME NEW i \in DOMAIN calls',
             \A j \in 1 .. i - 1 : calls'[j].mount # calls'[i].mount
      PROVE  static_file_routes_'[calls'[i].mount] = calls'[i].root
  <2>1. CASE i \in DOMAIN calls
    <3>1. \A j \in 1 .. i - 1 : calls[j].mount # calls[i].mount
      BY <1>2, <1>5, <2>1
    <3>2. /\ static_file_routes_[calls[i].mount] = calls[i].root
          /\ calls[i].mount \in DOMAIN static_file_routes_
      BY <2>1, <3>1 DEF IInv, MountsInv
    <3> QED
      BY <1>2, <1>3, <2>1, <3>2
  <2>2. CASE i = Len(calls) + 1
    <3>1. \A j \in DOMAIN calls : calls[j].mount # m
      BY <1>2, <1>5, <2>2
    <3>2. m \notin DOMAIN static_file_routes_
      BY <3>1 DEF IInv, MountsInv
    <3> QED
      BY <1>2, <1>3, <2>2, <3>2
  <2> QED
    BY <1>2, <2>1, <2>2
<1> QED
  BY <1>1, <1>2, <1>4, <1>5 DEF IInv, MountsInv, RoutedInv, ServedInv, NameInv,
     NotServed

\* Every step preserves the invariant.
LEMMA Step ==
  ASSUME IInv, [StaticNext]_svars
  PROVE  IInv'
<1>1. ASSUME NEW m \in Mounts, NEW root \in Roots, Mount(m, root) PROVE IInv'
  BY <1>1, MountStep
<1>2. CASE SetUpRouter
  <2>1. /\ request' = request /\ request = NoRequest
        /\ UNCHANGED <<static_file_routes_, calls, served>>
    BY <1>2 DEF SetUpRouter, SettingUp, SetPrefix, AddRoute
  <2> QED
    BY <2>1 DEF IInv, MountsInv, RoutedInv, ServedInv, NameInv, Claiming
<1>3. ASSUME NEW method \in Methods, NEW t \in Targets, HandleStatic(method, t)
      PROVE  IInv'
  <2>1. /\ served'.target = t /\ served'.mount = Claimer(t)
        /\ Claiming(t) # {} /\ request' = NoRequest
        /\ UNCHANGED <<static_file_routes_, calls>>
    BY <1>3 DEF HandleStatic, vars
  <2>2. \A m \in Claiming(t) : Len(Claimer(t)) <= Len(m)
    BY <2>1, ClaimerIsOutermost DEF IInv
  <2>3. NameInv'
    <3> DEFINE m == Claimer(t)
               path == SubSeq(t, Len(m) + 1, Len(t))
    <3>1. served'.answer = StaticAnswer(method, static_file_routes_[m], path)
      BY <1>3 DEF HandleStatic
    <3>2. m \in DOMAIN static_file_routes_
      BY <2>1, ClaimerIsOutermost DEF IInv, Claiming
    <3>3. static_file_routes_[m] \in Roots
      BY <3>2, RootOfMount DEF IInv
    <3>4. path \in Seq(STRING)
      <4>1. t \in Seq(STRING) /\ m \in Seq(STRING)
        BY <3>2, RootOfMount, StaticAssumption, RouterAssumption DEF IInv
      <4> HIDE DEF m
      <4>2. \A i \in Len(m) + 1 .. Len(t) : t[i] \in STRING
        BY <4>1, LenProperties, ElementOfSeq
      <4> QED
        BY <4>1, <4>2, LenProperties, SubSeqProperties
    <3> HIDE DEF m, path
    <3> QED
      BY <1>3, <2>1, <3>1, <3>2, <3>3, <3>4, AnswerHasType DEF NameInv, m
  <2> QED
    BY <1>3, <2>1, <2>2, <2>3 DEF IInv, MountsInv, RoutedInv, ServedInv, Claiming
<1>4. ASSUME NEW m \in Methods, NEW t \in Targets, HandleRouted(m, t) PROVE IInv'
  <2>1. /\ request' = Canonical(m, t) /\ Claiming(t) = {}
        /\ UNCHANGED <<static_file_routes_, calls, served>>
    BY <1>4 DEF HandleRouted, HandleRequest
  <2>2. request'.target = t
    BY <2>1, RequestType
  <2> QED
    BY <2>1, <2>2 DEF IInv, MountsInv, RoutedInv, ServedInv, NameInv, Claiming
<1>5. CASE UNCHANGED svars
  BY <1>5 DEF svars, vars, IInv, MountsInv, RoutedInv, ServedInv, NameInv, Claiming
<1> QED
  BY <1>1, <1>2, <1>3, <1>4, <1>5 DEF StaticNext

\* The invariant holds from the start and for ever.
LEMMA Invariance == StaticSpec => []IInv
<1>1. StaticInit => IInv
  BY EmptySeq DEF StaticInit, Init, IInv, MountsInv, RoutedInv, ServedInv,
     NameInv, NotServed
<1>2. IInv /\ [StaticNext]_svars => IInv'
  BY Step
<1> QED
  BY <1>1, <1>2, PTL DEF StaticSpec

-----------------------------------------------------------------------------
(* The router behind the mounts. *)

\* A request is answered once, by a mount that there is or by the router.
AnsweredOnce ==
    served # NotServed => served.mount \in DOMAIN static_file_routes_ /\ request = NoRequest

\* What the mounts do to the router is one of its steps or none.
LEMMA RoutedStep ==
  ASSUME IInv, RouterInv, AnsweredOnce, [StaticNext]_svars
  PROVE  RouterInv' /\ AnsweredOnce'
<1>1. ASSUME NEW m \in Mounts, NEW root \in Roots, Mount(m, root)
      PROVE  [Next]_vars /\ AnsweredOnce'
  BY <1>1 DEF Mount, SettingUp, AnsweredOnce
<1>2. ASSUME SetUpRouter PROVE [Next]_vars /\ AnsweredOnce'
  <2>1. Next
    BY <1>2 DEF SetUpRouter, Next
  <2>2. served' = served /\ served = NotServed
    BY <1>2 DEF SetUpRouter, SettingUp
  <2> QED
    BY <2>1, <2>2 DEF AnsweredOnce
<1>3. ASSUME NEW method \in Methods, NEW t \in Targets, HandleStatic(method, t)
      PROVE  [Next]_vars /\ AnsweredOnce'
  <2>1. /\ UNCHANGED vars /\ request' = NoRequest
        /\ UNCHANGED <<static_file_routes_, calls>>
        /\ Claiming(t) # {} /\ served'.mount = Claimer(t)
    BY <1>3 DEF HandleStatic, vars
  <2>2. Claimer(t) \in DOMAIN static_file_routes_
    BY <2>1, ClaimerIsOutermost DEF IInv, Claiming
  <2> QED
    BY <2>1, <2>2 DEF AnsweredOnce
<1>4. ASSUME NEW m \in Methods, NEW t \in Targets, HandleRouted(m, t)
      PROVE  [Next]_vars /\ AnsweredOnce'
  <2>1. Next /\ served' = served /\ served = NotServed
    BY <1>4 DEF HandleRouted, Next
  <2> QED
    BY <2>1 DEF AnsweredOnce
<1>5. ASSUME UNCHANGED svars PROVE [Next]_vars /\ AnsweredOnce'
  BY <1>5 DEF svars, vars, AnsweredOnce
<1>6. [Next]_vars /\ AnsweredOnce'
  BY <1>1, <1>2, <1>3, <1>4, <1>5 DEF StaticNext, svars
<1> QED
  BY <1>6, RouterStep

\* The invariant of the router holds behind the mounts.
LEMMA RouterInvariance == StaticSpec => [](RouterInv /\ AnsweredOnce)
<1>1. StaticInit => RouterInv /\ AnsweredOnce
  BY RouterStart DEF StaticInit, AnsweredOnce
<1>2. IInv /\ RouterInv /\ AnsweredOnce /\ [StaticNext]_svars => RouterInv' /\ AnsweredOnce'
  BY RoutedStep
<1> QED
  BY <1>1, <1>2, Invariance, PTL DEF StaticSpec

-----------------------------------------------------------------------------
(* The theorems. *)

\* A request reaches the router only if no mount claims its target as it was
\* sent, whatever its canonical path is; otherwise the outermost of the
\* claiming mounts answers, with the directory it was given first, whatever
\* the order of the calls of serve_static().
THEOREM OutermostMountWins == StaticSpec => []OutermostMountAnswers
<1>1. IInv => OutermostMountAnswers
  <2> SUFFICES ASSUME IInv PROVE OutermostMountAnswers
    OBVIOUS
  <2>1. ASSUME NEW target, NEW i \in DOMAIN calls,
               StartsWith(target, MountPrefix(calls[i].mount))
        PROVE  calls[i].mount \in Claiming(target)
    BY <2>1 DEF IInv, MountsInv, Claiming
  <2> QED
    BY <2>1 DEF IInv, MountsInv, RoutedInv, ServedInv, OutermostMountAnswers
<1> QED
  BY <1>1, Invariance, PTL

\* Whatever the name holds, "." in a directory's name, several extensions or
\* none, upper case, the content type is that of the extension in mime_map
\* that the last element of the name ends with.
THEOREM TypeIsOfLastElement == StaticSpec => []TypeOfLastElement
<1>1. IInv => TypeOfLastElement
  BY NameIsText, TypeByExtension DEF IInv, NameInv, TypeOfLastElement
<1> QED
  BY <1>1, Invariance, PTL

\* Whatever the target holds, "..", "//", "." or "?", and wherever the
\* directory lies, the name that static_file_handler opens leads to a place
\* at or below the directory: the check for two dots in a row, made on the
\* text of the target, is enough for all names the file system can be given.
THEOREM NothingOutsideIsOpened == StaticSpec => []ServedUnderRoot
<1>1. IInv => ServedUnderRoot
  BY NameIsText DEF IInv, ServedUnderRoot
<1> QED
  BY <1>1, Invariance, PTL

\* A request that no mount claims is dispatched as by the router alone: the
\* first route whose pattern fits answers, with the parameters of the
\* greediest cut of the canonical path behind the prefix; and a request
\* whose target a mount claims never reaches a handler.
THEOREM DispatchIsRight == StaticSpec => []DispatchInv
<1>1. IInv /\ RouterInv /\ AnsweredOnce => DispatchInv
  <2> SUFFICES ASSUME IInv, RouterInv, AnsweredOnce PROVE DispatchInv
    OBVIOUS
  <2>1. TypeOK /\ FirstMatchWins /\ ParametersAreTheGreediestCut
    BY RouterIsSafe
  <2>2. \A m \in DOMAIN static_file_routes_ : m \in Mounts /\ static_file_routes_[m] \in Roots
    BY RootOfMount DEF IInv
  <2> QED
    BY <2>1, <2>2 DEF DispatchInv, StaticTypeOK, AnsweredOnce
<1> QED
  BY <1>1, Invariance, RouterInvariance, PTL
=============================================================================
