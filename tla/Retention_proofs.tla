-------------------------- MODULE Retention_proofs --------------------------
(***************************************************************************)
(* What a retention policy keeps of some archives, related to what it      *)
(* keeps of others: of those some of which have been pruned (Piecemeal),   *)
(* of the same a day later (SelectShrinks), and of one more (SelectGrown). *)
(*                                                                         *)
(* Select runs four rules over what the ones before have kept.  Each of    *)
(* these results is a relation between two runs that one rule preserves.   *)
(***************************************************************************)
EXTENDS Retention, TLAPS, FiniteSetTheorems

\* Archives of one node: finitely many, no two at the same time.
Timeline(archives) ==
    /\ IsFiniteSet(archives)
    /\ \A a \in archives : a.at \in Times
    /\ \A a, b \in archives : a.at = b.at => a = b

----------------------------------------------------------------------------
(* Sets of archives.                                                       *)

\* Every set of numbers has a least one.
LEMMA LeastNumber ==
    ASSUME NEW T \in SUBSET Nat, T # {}
    PROVE  \E x \in T : \A y \in T : x <= y
<1>1. PICK x \in T : \A y \in T : ~ (<<y, x>> \in OpToRel(<, Nat))
    <2> HIDE DEF OpToRel
    <2>. QED
        BY NatLessThanWellFounded, WFMin
<1>2. ASSUME NEW y \in T PROVE x <= y
    <2>1. ~ (<<y, x>> \in {ss \in Nat \X Nat : ss[1] < ss[2]})
        BY <1>1 DEF OpToRel
    <2>. QED
        BY <2>1
<1>. QED
    BY <1>2

\* A part of a timeline is a timeline.
LEMMA PartOfTimeline ==
    ASSUME NEW archives, Timeline(archives), NEW part \in SUBSET archives
    PROVE  Timeline(part)
BY FS_Subset DEF Timeline

\* Times are numbers, and can be compared.
LEMMA TimesCompare ==
    ASSUME NEW archives, Timeline(archives)
    PROVE  /\ \A a \in archives : a.at \in Nat
           /\ \A a, b \in archives : a.at > b.at \/ b.at > a.at \/ a = b
<1>1. Times \subseteq Nat
    BY RetentionAssumption
<1>2. \A a \in archives : a.at \in Nat
    BY <1>1 DEF Timeline
<1>3. \A a, b \in archives : a.at = b.at => a = b
    BY DEF Timeline
<1>4. ASSUME NEW a \in archives, NEW b \in archives
      PROVE  a.at > b.at \/ b.at > a.at \/ a = b
    <2>1. a.at \in Nat /\ b.at \in Nat
        BY <1>2
    <2>. QED
        BY <1>3, <2>1
<1>. QED
    BY <1>2, <1>4

\* The sizes of a timeline's part, and of the part of a part.
LEMMA PartSize ==
    ASSUME NEW archives, IsFiniteSet(archives), NEW part \in SUBSET archives
    PROVE  /\ IsFiniteSet(part)
           /\ Cardinality(part) \in Nat
           /\ Cardinality(part) <= Cardinality(archives)
           /\ Cardinality(part) = Cardinality(archives) => part = archives
<1>1. /\ IsFiniteSet(part)
      /\ Cardinality(part) <= Cardinality(archives)
      /\ Cardinality(part) = Cardinality(archives) => part = archives
    BY FS_Subset
<1>2. Cardinality(part) \in Nat
    BY <1>1, FS_CardinalityType
<1>. QED
    BY <1>1, <1>2

\* The newer archives are part of the archives.
LEMMA NewerPart ==
    ASSUME NEW archives, IsFiniteSet(archives), NEW a
    PROVE  /\ Newer(archives, a) \in SUBSET archives
           /\ IsFiniteSet(Newer(archives, a))
           /\ Cardinality(Newer(archives, a)) \in Nat
<1>1. Newer(archives, a) \in SUBSET archives
    BY DEF Newer
<1>. QED
    BY <1>1, PartSize

\* Of some archives, one is the newest ...
LEMMA LastExists ==
    ASSUME NEW archives, Timeline(archives), archives # {}
    PROVE  \E a \in archives : \A b \in archives : b # a => a.at > b.at
<1> DEFINE T == {Cardinality(Newer(archives, a)) : a \in archives}
<1>1. IsFiniteSet(archives)
    BY DEF Timeline
<1>2. \A a \in archives : Cardinality(Newer(archives, a)) \in Nat
    BY <1>1, NewerPart
<1>3. PICK x \in T : \A y \in T : x <= y
    <2>1. T \in SUBSET Nat /\ T # {}
        BY <1>2
    <2> HIDE DEF T
    <2>. QED
        BY <2>1, LeastNumber
<1>4. PICK a \in archives : x = Cardinality(Newer(archives, a))
    BY <1>3
<1>5. ASSUME NEW b \in archives, b.at > a.at PROVE FALSE
    <2>1. Newer(archives, b) \in SUBSET Newer(archives, a)
        BY <1>4, <1>5, TimesCompare DEF Newer
    <2>2. b \in Newer(archives, a) /\ b \notin Newer(archives, b)
        BY <1>5, TimesCompare DEF Newer
    <2>3. IsFiniteSet(Newer(archives, a))
        BY <1>1, NewerPart
    <2>4. Cardinality(Newer(archives, b)) <= Cardinality(Newer(archives, a))
        BY <2>1, <2>3, PartSize
    <2>5. Cardinality(Newer(archives, b)) # Cardinality(Newer(archives, a))
        BY <2>1, <2>2, <2>3, PartSize
    <2>6. x <= Cardinality(Newer(archives, b))
        BY <1>3
    <2>. QED
        BY <1>2, <1>4, <2>4, <2>5, <2>6
<1>. QED
    BY <1>4, <1>5, TimesCompare

\* ... and one the oldest.
LEMMA OldestExists ==
    ASSUME NEW archives, Timeline(archives), archives # {}
    PROVE  Oldest(archives) # {}
<1> DEFINE T == {a.at : a \in archives}
<1>1. T \in SUBSET Nat /\ T # {}
    BY TimesCompare
<1>2. PICK x \in T : \A y \in T : x <= y
    <2> HIDE DEF T
    <2>. QED
        BY <1>1, LeastNumber
<1>3. PICK a \in archives : x = a.at
    BY <1>2
<1>4. a \in Oldest(archives)
    BY <1>2, <1>3 DEF Oldest
<1>. QED
    BY <1>4

\* The oldest archive stays the oldest of any part it is in, and of any archives
\* that come to it later.
LEMMA OldestOfPart ==
    ASSUME NEW archives, Timeline(archives), NEW part \in SUBSET archives,
           Oldest(archives) \subseteq part
    PROVE  Oldest(part) = Oldest(archives)
<1>1. CASE archives = {}
    BY <1>1 DEF Oldest
<1>2. CASE archives # {}
    <2>1. PICK o \in archives : \A b \in archives : o.at <= b.at
        BY <1>2, OldestExists DEF Oldest
    <2>2. o \in part
        BY <2>1 DEF Oldest
    <2>. QED
        BY <2>1, <2>2, TimesCompare DEF Oldest
<1>. QED
    BY <1>1, <1>2

----------------------------------------------------------------------------
(* The n newest.                                                           *)

\* What is left out of the n newest is older than all of them, and they are n.
LEMMA LatestFull ==
    ASSUME NEW archives, Timeline(archives), NEW n \in Nat
    PROVE  /\ Latest(archives, n) \in SUBSET archives
           /\ Cardinality(Latest(archives, n)) \in Nat
           /\ archives # Latest(archives, n) =>
                /\ Cardinality(Latest(archives, n)) >= n
                /\ \A a \in Latest(archives, n), b \in archives \ Latest(archives, n) :
                        a.at > b.at
<1> DEFINE C == Latest(archives, n)
<1>1. C \in SUBSET archives
    BY DEF Latest
<1>2. IsFiniteSet(archives) /\ IsFiniteSet(C) /\ Cardinality(C) \in Nat
    BY <1>1, PartSize DEF Timeline
<1>3. ASSUME NEW a \in C, NEW b \in archives \ C PROVE a.at > b.at
    <2>1. CASE b.at > a.at
        <3>1. Newer(archives, b) \in SUBSET Newer(archives, a)
            BY <1>1, <1>3, <2>1, TimesCompare DEF Newer
        <3>2. Cardinality(Newer(archives, b)) <= Cardinality(Newer(archives, a))
            BY <1>2, <3>1, NewerPart, PartSize
        <3>3. Cardinality(Newer(archives, a)) < n
            BY <1>3 DEF Latest
        <3>4. Cardinality(Newer(archives, b)) < n
            BY <1>2, <3>2, <3>3, NewerPart
        <3>. QED
            BY <1>3, <3>4 DEF Latest
    <2>. QED
        BY <1>1, <1>3, <2>1, TimesCompare
<1>4. ASSUME archives # C PROVE Cardinality(C) >= n
    <2>1. archives \ C # {} /\ Timeline(archives \ C)
        BY <1>1, <1>4, PartOfTimeline
    <2>2. PICK b \in archives \ C : \A d \in archives \ C : d # b => b.at > d.at
        BY <2>1, LastExists
    <2>3. Newer(archives, b) \in SUBSET C
        BY <2>2, TimesCompare DEF Newer
    <2>4. Cardinality(Newer(archives, b)) <= Cardinality(C)
        BY <1>2, <2>3, PartSize
    <2>5. ~ (Cardinality(Newer(archives, b)) < n)
        BY <2>2 DEF Latest
    <2>. QED
        BY <1>2, <2>4, <2>5, NewerPart
<1>. QED
    BY <1>1, <1>2, <1>3, <1>4

\* The n newest stay the n newest of others, if none of those is new or an older
\* one's stand-in: each has, at or after its time, one that was there and was
\* not among them.
LEMMA LatestSame ==
    ASSUME NEW archives, Timeline(archives), NEW others, Timeline(others),
           Timeline(archives \cup others), NEW n \in Nat,
           Latest(archives, n) \subseteq others,
           \A b \in others \ archives :
               \E d \in archives \ Latest(archives, n) : d.at > b.at
    PROVE  Latest(others, n) = Latest(archives, n)
<1> DEFINE C == Latest(archives, n)
<1>1. /\ C \in SUBSET archives /\ Cardinality(C) \in Nat
      /\ archives # C =>
            /\ Cardinality(C) >= n
            /\ \A a \in C, b \in archives \ C : a.at > b.at
    BY LatestFull
<1>f. IsFiniteSet(archives) /\ IsFiniteSet(others)
    BY DEF Timeline
<1>2. ASSUME NEW a \in C PROVE a \in Latest(others, n)
    <2>1. Newer(others, a) \in SUBSET Newer(archives, a)
        <3> SUFFICES ASSUME NEW b \in others, b.at > a.at, b \notin archives
                     PROVE  FALSE
            BY DEF Newer
        <3>1. PICK d \in archives \ C : d.at > b.at
            OBVIOUS
        <3>2. a.at > d.at
            BY <1>1, <3>1
        <3>. QED
            BY <1>1, <3>1, <3>2, TimesCompare
    <2>2. Cardinality(Newer(others, a)) <= Cardinality(Newer(archives, a))
        BY <1>f, <2>1, NewerPart, PartSize
    <2>3. Cardinality(Newer(archives, a)) < n
        BY DEF Latest
    <2>4. Cardinality(Newer(others, a)) < n
        BY <1>f, <2>2, <2>3, NewerPart
    <2>. QED
        BY <2>4 DEF Latest
<1>3. ASSUME NEW b \in others \ C PROVE b \notin Latest(others, n)
    <2>1. PICK d \in archives \ C : d.at >= b.at
        BY <1>3, TimesCompare
    <2>2. C \in SUBSET Newer(others, b)
        <3> SUFFICES ASSUME NEW a \in C PROVE a \in others /\ a.at > b.at
            BY DEF Newer
        <3>1. a.at > d.at
            BY <1>1, <2>1
        <3>. QED
            BY <1>1, <2>1, <3>1, TimesCompare
    <2>3. Cardinality(C) <= Cardinality(Newer(others, b))
        BY <1>f, <2>2, NewerPart, PartSize
    <2>4. Cardinality(C) >= n
        BY <1>1, <2>1
    <2>5. ~ (Cardinality(Newer(others, b)) < n)
        BY <1>1, <1>f, <2>3, <2>4, NewerPart
    <2>. QED
        BY <2>5 DEF Latest
<1>4. Latest(others, n) \subseteq others
    BY DEF Latest
<1>. QED
    BY <1>2, <1>3, <1>4

----------------------------------------------------------------------------
(* One rule.                                                               *)

\* Periods are numbered, and follow one another.
LEMMA PeriodsFollow ==
    ASSUME NEW rule \in Rules, NEW t \in Times, NEW u \in Times, t <= u
    PROVE  /\ Period[rule][t] \in Nat /\ Period[rule][u] \in Nat
           /\ Period[rule][t] <= Period[rule][u]
<1>1. Period[rule] \in [Times -> Nat]
    BY RetentionAssumption
<1>2. Period[rule][t] <= Period[rule][u]
    BY RetentionAssumption
<1>. QED
    BY <1>1, <1>2

\* What a rule keeps are archives, and the newest of each period among them.
LEMMA HeadsPart ==
    ASSUME NEW archives, NEW rule
    PROVE  Heads(archives, rule) \in SUBSET archives
BY DEF Heads

LEMMA SplitPart ==
    ASSUME NEW archives, NEW rule, NEW n, NEW kept
    PROVE  Split(archives, rule, n, kept) \in SUBSET archives
BY DEF Split, Latest, Heads, Oldest

\* Every archive has the newest of its period, itself or a newer one.
LEMMA HeadOfPeriod ==
    ASSUME NEW archives, Timeline(archives), NEW rule, NEW a \in archives
    PROVE  \E b \in Heads(archives, rule) :
              b = a \/ (b.at > a.at /\ Period[rule][b.at] = Period[rule][a.at])
<1> DEFINE same == {b \in archives : Period[rule][b.at] = Period[rule][a.at]}
<1>1. same \in SUBSET archives /\ a \in same
    OBVIOUS
<1>2. PICK b \in same : \A c \in same : c # b => b.at > c.at
    BY <1>1, PartOfTimeline, LastExists
<1>3. b \in Heads(archives, rule)
    <2> SUFFICES ASSUME NEW c \in archives, c.at > b.at,
                        Period[rule][c.at] = Period[rule][b.at]
                 PROVE  FALSE
        BY <1>1 DEF Heads, Newer
    <2>1. c \in same /\ c # b
        BY TimesCompare
    <2>. QED
        BY <1>1, <1>2, <2>1, TimesCompare
<1>. QED
    BY <1>1, <1>2, <1>3

\* A rule keeps of a part of the archives what it keeps of all of them, when
\* that is in the part.
LEMMA SplitPiecemeal ==
    ASSUME NEW archives, Timeline(archives), NEW part \in SUBSET archives,
           NEW rule, NEW n \in Nat, NEW kept, kept \subseteq part,
           Split(archives, rule, n, kept) \subseteq part
    PROVE  Split(part, rule, n, kept) = Split(archives, rule, n, kept)
<1> DEFINE all == Heads(archives, rule) \ kept
           own == Heads(part, rule) \ kept
<1>1. all \in SUBSET archives /\ own \in SUBSET archives /\ own \in SUBSET part
    BY HeadsPart
<1>2. Latest(all, n) \subseteq part
    BY DEF Split
<1>3. Latest(all, n) \subseteq own
    <2>1. Heads(archives, rule) \cap part \subseteq Heads(part, rule)
        BY DEF Heads, Newer
    <2>. QED
        BY <1>2, <2>1 DEF Latest
<1>4. ASSUME NEW b \in own \ all
      PROVE  \E d \in all \ Latest(all, n) : d.at > b.at
    <2>1. b \in part /\ b \in archives /\ b \notin kept /\ b \notin Heads(archives, rule)
        BY <1>1, <1>4
    <2>2. PICK d \in Heads(archives, rule) :
              d.at > b.at /\ Period[rule][d.at] = Period[rule][b.at]
        BY <2>1, HeadOfPeriod
    <2>3. d \notin part
        BY <1>4, <2>2 DEF Heads, Newer
    <2>. QED
        BY <1>2, <2>2, <2>3
<1>5. Timeline(all) /\ Timeline(own) /\ Timeline(all \cup own)
    BY <1>1, PartOfTimeline
<1>6. Latest(own, n) = Latest(all, n)
    <2> HIDE DEF all, own
    <2>. QED
        BY <1>3, <1>4, <1>5, LatestSame
<1>7. CASE n > 0 /\ Cardinality(Latest(all, n)) < n
    <2>1. Oldest(archives) \subseteq part
        BY <1>7 DEF Split
    <2>2. Oldest(part) = Oldest(archives)
        BY <2>1, OldestOfPart
    <2>. QED
        BY <1>6, <1>7, <2>2 DEF Split
<1>8. CASE ~ (n > 0 /\ Cardinality(Latest(all, n)) < n)
    BY <1>6, <1>8 DEF Split
<1>. QED
    BY <1>7, <1>8

\* If more was kept before a rule, more is kept after it.
LEMMA SplitMonotone ==
    ASSUME NEW archives, Timeline(archives), NEW rule, NEW n \in Nat,
           NEW less, NEW more, less \subseteq more
    PROVE  less \cup Split(archives, rule, n, less)
               \subseteq more \cup Split(archives, rule, n, more)
<1> DEFINE F == Heads(archives, rule) \ less
           G == Heads(archives, rule) \ more
<1>1. F \in SUBSET archives /\ G \in SUBSET F
    BY HeadsPart
<1>2. Timeline(F) /\ Timeline(G) /\ IsFiniteSet(F) /\ IsFiniteSet(G)
    <2>1. G \in SUBSET archives
        BY <1>1
    <2>. QED
        BY <1>1, <2>1, PartOfTimeline DEF Timeline
<1>3. ASSUME NEW a \in Latest(F, n), a \notin more PROVE a \in Latest(G, n)
    <2>1. Newer(G, a) \in SUBSET Newer(F, a)
        BY <1>1 DEF Newer
    <2>2. Cardinality(Newer(G, a)) <= Cardinality(Newer(F, a))
        BY <1>2, <2>1, NewerPart, PartSize
    <2>3. Cardinality(Newer(F, a)) < n /\ a \in G
        BY <1>3 DEF Latest
    <2>4. Cardinality(Newer(G, a)) < n
        BY <1>2, <2>2, <2>3, NewerPart
    <2>. QED
        BY <2>3, <2>4 DEF Latest
<1>4. ASSUME Cardinality(Latest(F, n)) < n PROVE Cardinality(Latest(G, n)) < n
    <2>1. Latest(F, n) = F /\ Cardinality(F) \in Nat
        BY <1>2, <1>4, LatestFull
    <2>2. Latest(G, n) \in SUBSET F
        BY <1>1 DEF Latest
    <2>3. Cardinality(Latest(G, n)) <= Cardinality(F) /\ Cardinality(Latest(G, n)) \in Nat
        BY <1>2, <2>2, PartSize
    <2>. QED
        BY <1>4, <2>1, <2>3
<1>5. Latest(F, n) \subseteq more \cup Latest(G, n)
    BY <1>3
<1> HIDE DEF F, G
<1>6. ASSUME n > 0, Cardinality(Latest(F, n)) < n
      PROVE  Oldest(archives) \subseteq Split(archives, rule, n, more)
    BY <1>4, <1>6 DEF Split, G
<1>7. Latest(G, n) \subseteq Split(archives, rule, n, more)
    BY DEF Split, G
<1>. QED
    BY <1>5, <1>6, <1>7 DEF Split, F

\* A rule gives a slot to a head that it has not kept already, if it is one of
\* the newest: with one archive more, nothing old that was not kept is kept now.
LEMMA SplitGrown ==
    ASSUME NEW archives, NEW a, Timeline(archives \cup {a}),
           \A b \in archives : a.at > b.at,
           NEW rule \in Rules, NEW n \in Nat,
           NEW kept, NEW now, now \subseteq kept \cup {a},
           \/ a \in now => Newest(archives) \subseteq kept
           \/ rule = "secondly"
    PROVE  now \cup Split(archives \cup {a}, rule, n, now)
               \subseteq kept \cup Split(archives, rule, n, kept) \cup {a}
<1> DEFINE A == archives \cup {a}
           F == Heads(archives, rule) \ kept
           G == Heads(A, rule) \ now
<1>t. Timeline(archives) /\ a \notin archives
    BY TimesCompare, PartOfTimeline
<1>f. /\ F \in SUBSET archives /\ G \in SUBSET A
      /\ Timeline(F) /\ Timeline(G) /\ IsFiniteSet(F) /\ IsFiniteSet(G)
    <2>1. F \in SUBSET archives /\ G \in SUBSET A
        BY HeadsPart
    <2>2. Timeline(F) /\ Timeline(G)
        BY <1>t, <2>1, PartOfTimeline
    <2>. QED
        BY <2>1, <2>2 DEF Timeline
<1>1. ASSUME NEW b \in G, b # a, b \notin kept PROVE b \in F
    BY <1>1, <1>f DEF Heads, Newer
<1>2. ASSUME NEW b \in F, b \notin Newest(archives) PROVE b \in G
    <2>1. b \in archives /\ b \notin kept /\ b \notin now
        BY <1>f, <1>t, <1>2
    <2>2. PICK c \in archives : c.at > b.at
        BY <1>2, <2>1 DEF Newest, Newer
    <2>3. Period[rule][c.at] # Period[rule][b.at]
        BY <1>2, <2>2 DEF Heads, Newer
    <2>4. ASSUME NEW d \in A, d.at > b.at, Period[rule][d.at] = Period[rule][b.at]
          PROVE  FALSE
        <3>1. d = a
            BY <1>2, <2>4 DEF Heads, Newer
        <3>2. /\ a.at \in Times /\ b.at \in Times /\ c.at \in Times
              /\ b.at <= c.at /\ c.at <= a.at
            BY <2>1, <2>2, TimesCompare DEF Timeline
        <3>3. /\ Period[rule][b.at] <= Period[rule][c.at]
              /\ Period[rule][c.at] <= Period[rule][a.at]
              /\ Period[rule][b.at] \in Nat /\ Period[rule][c.at] \in Nat
            BY <3>2, PeriodsFollow
        <3>. QED
            BY <2>3, <2>4, <3>1, <3>3
    <2>. QED
        BY <2>1, <2>4 DEF Heads, Newer
<1>3. ASSUME NEW b \in F, NEW c \in F, b \in Newest(archives), c \in Newest(archives)
      PROVE  b = c
    BY <1>3, <1>f, <1>t, TimesCompare DEF Newest, Newer
<1>4. ASSUME NEW X \in SUBSET F, NEW Y \in SUBSET G, X \cap G \subseteq Y, a \in G => a \in Y
      PROVE  Cardinality(X) <= Cardinality(Y)
    <2>1. CASE X \subseteq G
        <3>1. X \in SUBSET Y /\ IsFiniteSet(Y)
            BY <1>4, <1>f, <2>1, PartSize
        <3>. QED
            BY <3>1, PartSize
    <2>2. CASE ~ (X \subseteq G)
        <3>1. PICK y \in X : y \notin G
            BY <2>2
        <3>2. y \in Newest(archives) /\ y \in archives /\ y \notin kept /\ y # a /\ y \notin now
            BY <1>2, <1>f, <1>t, <3>1
        <3>3. a \notin now
            <4>1. ASSUME rule = "secondly" PROVE FALSE
                <5>1. y \in Heads(A, rule)
                    <6> SUFFICES ASSUME NEW c \in A, c.at > y.at,
                                        Period[rule][c.at] = Period[rule][y.at]
                                 PROVE  FALSE
                        BY <3>2 DEF Heads, Newer
                    <6>1. c.at \in Times /\ y.at \in Times /\ c.at # y.at
                        BY <3>2, TimesCompare DEF Timeline
                    <6>. QED
                        BY <4>1, <6>1, RetentionAssumption
                <5>. QED
                    BY <3>1, <3>2, <5>1
            <4>. QED
                BY <3>2, <4>1
        <3>4. a \in Heads(A, rule)
            BY <1>t, TimesCompare DEF Heads, Newer
        <3>5. a \in Y /\ a \notin X
            BY <1>4, <1>f, <1>t, <3>3, <3>4
        <3>6. X \ {y} \in SUBSET (Y \ {a})
            BY <1>2, <1>3, <1>4, <3>1, <3>2, <3>5
        <3>7. IsFiniteSet(X) /\ IsFiniteSet(Y)
            BY <1>f, PartSize
        <3>8. /\ Cardinality(X \ {y}) = Cardinality(X) - 1
              /\ Cardinality(Y \ {a}) = Cardinality(Y) - 1
              /\ IsFiniteSet(Y \ {a})
            BY <3>1, <3>5, <3>7, FS_RemoveElement
        <3>9. Cardinality(X \ {y}) <= Cardinality(Y \ {a})
            BY <3>6, <3>8, PartSize
        <3>10. Cardinality(X) \in Nat /\ Cardinality(Y) \in Nat
            BY <3>7, FS_CardinalityType
        <3>. QED
            BY <3>8, <3>9, <3>10
    <2>. QED
        BY <2>1, <2>2
<1>5. ASSUME NEW b \in Latest(G, n), b # a, b \notin kept PROVE b \in Latest(F, n)
    <2>1. b \in G /\ Cardinality(Newer(G, b)) < n
        BY <1>5 DEF Latest
    <2>2. b \in F
        BY <1>1, <1>5, <2>1
    <2>3. /\ Newer(F, b) \in SUBSET F /\ Newer(G, b) \in SUBSET G
          /\ Newer(F, b) \cap G \subseteq Newer(G, b)
          /\ a \in G => a \in Newer(G, b)
        BY <1>f, <2>2 DEF Newer
    <2>4. Cardinality(Newer(F, b)) <= Cardinality(Newer(G, b))
        BY <1>4, <2>3
    <2>5. Cardinality(Newer(F, b)) < n
        BY <1>f, <2>1, <2>4, NewerPart
    <2>. QED
        BY <2>2, <2>5 DEF Latest
<1>6. ASSUME Cardinality(Latest(G, n)) < n PROVE Cardinality(Latest(F, n)) < n
    <2> HIDE DEF F, G
    <2>1. Latest(G, n) = G
        BY <1>6, <1>f, LatestFull
    <2>2. Cardinality(F) <= Cardinality(G)
        BY <1>4
    <2>3. /\ Cardinality(Latest(F, n)) <= Cardinality(F)
          /\ Cardinality(Latest(F, n)) \in Nat
        BY <1>f, LatestFull, PartSize
    <2>4. Cardinality(F) \in Nat /\ Cardinality(G) \in Nat
        BY <1>f, FS_CardinalityType
    <2>. QED
        BY <1>6, <2>1, <2>2, <2>3, <2>4
<1>7. Oldest(A) \subseteq Oldest(archives) \cup {a}
    BY DEF Oldest
<1>8. Latest(G, n) \subseteq kept \cup Latest(F, n) \cup {a}
    BY <1>5
<1>9. Latest(F, n) \subseteq Split(archives, rule, n, kept)
    BY DEF Split
<1>10. ASSUME n > 0, Cardinality(Latest(G, n)) < n
       PROVE  Oldest(archives) \subseteq Split(archives, rule, n, kept)
    BY <1>6, <1>10 DEF Split
<1> HIDE DEF F
<1>11. Split(A, rule, n, now) \subseteq kept \cup Split(archives, rule, n, kept) \cup {a}
    BY <1>7, <1>8, <1>9, <1>10 DEF Split
<1>. QED
    BY <1>11

\* A rule that keeps the one archive more has kept the newest of the others,
\* without it.
LEMMA SplitKeepsNewest ==
    ASSUME NEW archives, NEW a, Timeline(archives \cup {a}),
           \A b \in archives : a.at > b.at,
           NEW rule, NEW n \in Nat, NEW kept, NEW now,
           a \in now => Newest(archives) \subseteq kept,
           a \in now \cup Split(archives \cup {a}, rule, n, now)
    PROVE  Newest(archives) \subseteq kept \cup Split(archives, rule, n, kept)
<1> SUFFICES ASSUME n > 0, NEW b \in Newest(archives), b \notin kept
             PROVE  b \in Split(archives, rule, n, kept)
    <2>1. ASSUME ~ (n > 0), NEW F, Timeline(F) PROVE Latest(F, n) = {}
        BY <2>1, NewerPart DEF Latest, Timeline
    <2>2. Timeline(Heads(archives \cup {a}, rule) \ now)
        BY PartOfTimeline, HeadsPart
    <2>3. ~ (n > 0) => Split(archives \cup {a}, rule, n, now) = {}
        BY <2>1, <2>2 DEF Split
    <2>. QED
        BY <2>3
<1> DEFINE F == Heads(archives, rule) \ kept
<1>1. b \in F
    BY DEF Newest, Heads
<1>2. Newer(F, b) = {}
    BY DEF Newest, Newer, Heads
<1>3. Cardinality(Newer(F, b)) < n
    BY <1>2, FS_EmptySet
<1>4. b \in Latest(F, n)
    BY <1>1, <1>3 DEF Latest
<1>. QED
    BY <1>4 DEF Split

----------------------------------------------------------------------------
(* The rules in a row.                                                     *)

\* One turn of the loop only adds to what is kept.
LEMMA KeepAdds ==
    ASSUME NEW archives, NEW policy, NEW rule, NEW kept
    PROVE  /\ kept \subseteq Keep(archives, policy, rule, kept)
           /\ Keep(archives, policy, rule, kept) \subseteq kept \cup archives
BY SplitPart DEF Keep

\* Each count of a policy is a number.
LEMMA PolicyCounts ==
    ASSUME NEW policy, IsPolicy(policy)
    PROVE  \A rule \in DOMAIN policy : policy[rule] \in Nat
BY DEF IsPolicy

\* What is kept of some archives are some of them.
LEMMA SelectPart ==
    ASSUME NEW archives, NEW policy, NEW now
    PROVE  Select(archives, policy, now) \in SUBSET archives
<1> DEFINE W == Within(archives, policy, now)
           S == Keep(archives, policy, "secondly", W)
           D == Keep(archives, policy, "daily", S)
           K == Keep(archives, policy, "weekly", D)
           M == Keep(archives, policy, "monthly", K)
<1>1. W \subseteq archives
    BY DEF Within
<1>2. S \subseteq archives
    BY <1>1, KeepAdds
<1>3. D \subseteq archives
    BY <1>2, KeepAdds
<1>4. K \subseteq archives
    BY <1>3, KeepAdds
<1>5. M \subseteq archives
    BY <1>4, KeepAdds
<1>. QED
    BY <1>5 DEF Select

LEMMA KeepPiecemeal ==
    ASSUME NEW archives, Timeline(archives), NEW part \in SUBSET archives,
           NEW policy, IsPolicy(policy), NEW rule, NEW kept,
           Keep(archives, policy, rule, kept) \subseteq part
    PROVE  Keep(part, policy, rule, kept) = Keep(archives, policy, rule, kept)
<1>1. CASE rule \in DOMAIN policy
    <2>1. policy[rule] \in Nat
        BY <1>1, PolicyCounts
    <2>2. kept \subseteq part /\ Split(archives, rule, policy[rule], kept) \subseteq part
        BY <1>1 DEF Keep
    <2>3. Split(part, rule, policy[rule], kept) = Split(archives, rule, policy[rule], kept)
        BY <2>1, <2>2, SplitPiecemeal
    <2>. QED
        BY <2>3 DEF Keep
<1>2. CASE rule \notin DOMAIN policy
    BY <1>2 DEF Keep
<1>. QED
    BY <1>1, <1>2

\* Pruning piecemeal is pruning at once: as long as what the policy keeps of all
\* the archives is there, it keeps just that of those that are.
THEOREM SelectPiecemeal ==
    ASSUME NEW archives, Timeline(archives), NEW part \in SUBSET archives,
           NEW policy, IsPolicy(policy), NEW now,
           Select(archives, policy, now) \subseteq part
    PROVE  Select(part, policy, now) = Select(archives, policy, now)
<1>1. CASE DOMAIN policy = {}
    BY <1>1 DEF Select
<1>2. CASE DOMAIN policy # {}
    <2> DEFINE W == Within(archives, policy, now)
               S == Keep(archives, policy, "secondly", W)
               D == Keep(archives, policy, "daily", S)
               K == Keep(archives, policy, "weekly", D)
               M == Keep(archives, policy, "monthly", K)
    <2>1. M \subseteq part
        BY <1>2 DEF Select
    <2>2. W \subseteq S /\ S \subseteq D /\ D \subseteq K /\ K \subseteq M
        BY KeepAdds
    <2>3. Within(part, policy, now) = W
        BY <2>1, <2>2 DEF Within
    <2>4. Keep(part, policy, "secondly", W) = S
        BY <2>1, <2>2, KeepPiecemeal
    <2>5. Keep(part, policy, "daily", S) = D
        BY <2>1, <2>2, KeepPiecemeal
    <2>6. Keep(part, policy, "weekly", D) = K
        BY <2>1, <2>2, KeepPiecemeal
    <2>7. Keep(part, policy, "monthly", K) = M
        BY <2>1, KeepPiecemeal
    <2>. QED
        BY <1>2, <2>3, <2>4, <2>5, <2>6, <2>7 DEF Select
<1>. QED
    BY <1>1, <1>2

LEMMA KeepMonotone ==
    ASSUME NEW archives, Timeline(archives), NEW policy, IsPolicy(policy), NEW rule,
           NEW less, NEW more, less \subseteq more
    PROVE  Keep(archives, policy, rule, less) \subseteq Keep(archives, policy, rule, more)
BY PolicyCounts, SplitMonotone DEF Keep

\* Time only takes away: of the same archives, a policy keeps no more later.
THEOREM SelectShrinks ==
    ASSUME NEW archives, Timeline(archives), NEW policy, IsPolicy(policy),
           NEW now \in Nat, NEW later \in Nat, now <= later
    PROVE  Select(archives, policy, later) \subseteq Select(archives, policy, now)
<1>1. Within(archives, policy, later) \subseteq Within(archives, policy, now)
    <2>1. \A a \in archives : a.at \in Nat
        BY TimesCompare
    <2>2. "within" \in DOMAIN policy => policy["within"] \in Nat
        BY PolicyCounts
    <2>. QED
        BY <2>1, <2>2 DEF Within
<1> DEFINE W(t) == Within(archives, policy, t)
           S(t) == Keep(archives, policy, "secondly", W(t))
           D(t) == Keep(archives, policy, "daily", S(t))
           K(t) == Keep(archives, policy, "weekly", D(t))
           M(t) == Keep(archives, policy, "monthly", K(t))
<1>2. S(later) \subseteq S(now)
    BY <1>1, KeepMonotone
<1>3. D(later) \subseteq D(now)
    BY <1>2, KeepMonotone
<1>4. K(later) \subseteq K(now)
    BY <1>3, KeepMonotone
<1>5. M(later) \subseteq M(now)
    BY <1>4, KeepMonotone
<1>. QED
    BY <1>5 DEF Select

\* What the loop turns keep of archives, and of one more: nothing else that is
\* old, and the newest of the former if the newest of the latter.
Follows(archives, a, kept, now) ==
    /\ now \subseteq kept \cup {a}
    /\ a \in now => Newest(archives) \subseteq kept

LEMMA KeepGrown ==
    ASSUME NEW archives, NEW a, Timeline(archives \cup {a}),
           \A b \in archives : a.at > b.at,
           NEW policy, IsPolicy(policy), NEW rule \in Rules,
           NEW kept, NEW now, Follows(archives, a, kept, now)
    PROVE  Follows(archives, a, Keep(archives, policy, rule, kept),
                   Keep(archives \cup {a}, policy, rule, now))
<1>1. CASE rule \in DOMAIN policy
    <2> DEFINE n == policy[rule]
    <2>1. n \in Nat
        BY <1>1, PolicyCounts
    <2>2. now \cup Split(archives \cup {a}, rule, n, now)
              \subseteq kept \cup Split(archives, rule, n, kept) \cup {a}
        BY <2>1, SplitGrown DEF Follows
    <2>3. a \in now \cup Split(archives \cup {a}, rule, n, now) =>
              Newest(archives) \subseteq kept \cup Split(archives, rule, n, kept)
        BY <2>1, SplitKeepsNewest DEF Follows
    <2>. QED
        BY <1>1, <2>2, <2>3 DEF Keep, Follows
<1>2. CASE rule \notin DOMAIN policy
    BY <1>2 DEF Keep
<1>. QED
    BY <1>1, <1>2

LEMMA SecondlyGrown ==
    ASSUME NEW archives, NEW a, Timeline(archives \cup {a}),
           \A b \in archives : a.at > b.at,
           NEW policy, IsPolicy(policy),
           NEW kept, NEW now, now \subseteq kept \cup {a}
    PROVE  Keep(archives \cup {a}, policy, "secondly", now)
               \subseteq Keep(archives, policy, "secondly", kept) \cup {a}
<1>1. CASE "secondly" \in DOMAIN policy
    <2>1. ASSUME NEW rule \in Rules, rule = "secondly", NEW n \in Nat
          PROVE  now \cup Split(archives \cup {a}, rule, n, now)
                     \subseteq kept \cup Split(archives, rule, n, kept) \cup {a}
        BY <2>1, SplitGrown
    <2>2. "secondly" \in Rules /\ policy["secondly"] \in Nat
        BY <1>1, PolicyCounts DEF Rules
    <2>. QED
        BY <1>1, <2>1, <2>2 DEF Keep
<1>2. CASE "secondly" \notin DOMAIN policy
    BY <1>2 DEF Keep
<1>. QED
    BY <1>1, <1>2

\* One archive more makes a policy keep none that it did not keep without it.
THEOREM SelectGrown ==
    ASSUME NEW archives, NEW a, Timeline(archives \cup {a}),
           \A b \in archives : a.at > b.at,
           NEW policy, IsPolicy(policy), NEW now
    PROVE  Select(archives \cup {a}, policy, now)
               \subseteq Select(archives, policy, now) \cup {a}
<1> DEFINE W(A) == Within(A, policy, now)
           S(A) == Keep(A, policy, "secondly", W(A))
           D(A) == Keep(A, policy, "daily", S(A))
           K(A) == Keep(A, policy, "weekly", D(A))
           M(A) == Keep(A, policy, "monthly", K(A))
           B == archives \cup {a}
<1>1. CASE DOMAIN policy = {}
    BY <1>1 DEF Select
<1>2. CASE DOMAIN policy # {} /\ "within" \in DOMAIN policy
    <2>1. DOMAIN policy \subseteq {"within", "secondly"}
        BY <1>2 DEF IsPolicy
    <2>2. M(B) = S(B) /\ M(archives) = S(archives)
        BY <2>1 DEF Keep
    <2>3. W(B) \subseteq W(archives) \cup {a}
        BY DEF Within
    <2>4. S(B) \subseteq S(archives) \cup {a}
        BY <2>3, SecondlyGrown
    <2>. QED
        BY <1>2, <2>2, <2>4 DEF Select
<1>3. CASE DOMAIN policy # {} /\ "within" \notin DOMAIN policy
    <2>1. Follows(archives, a, W(archives), W(B))
        BY <1>3 DEF Within, Follows
    <2>2. Follows(archives, a, S(archives), S(B))
        BY <2>1, KeepGrown DEF Rules
    <2>3. Follows(archives, a, D(archives), D(B))
        BY <2>2, KeepGrown DEF Rules
    <2>4. Follows(archives, a, K(archives), K(B))
        BY <2>3, KeepGrown DEF Rules
    <2>5. Follows(archives, a, M(archives), M(B))
        BY <2>4, KeepGrown DEF Rules
    <2>. QED
        BY <1>3, <2>5 DEF Select, Follows
<1>. QED
    BY <1>1, <1>2, <1>3

\* A rule has kept as many as it counts, or the newest of every period and the
\* oldest of all.
LEMMA KeepCounts ==
    ASSUME NEW archives, Timeline(archives), NEW policy, IsPolicy(policy),
           NEW rule \in DOMAIN policy, policy[rule] > 0, NEW kept \in SUBSET archives
    PROVE  \/ Cardinality(Keep(archives, policy, rule, kept)) >= policy[rule]
           \/ Heads(archives, rule) \cup Oldest(archives)
                  \subseteq Keep(archives, policy, rule, kept)
<1> DEFINE F == Heads(archives, rule) \ kept
           n == policy[rule]
           after == Keep(archives, policy, rule, kept)
<1>1. n \in Nat /\ Timeline(F)
    BY PolicyCounts, PartOfTimeline, HeadsPart
<1>2. Latest(F, n) \subseteq after
    BY DEF Keep, Split
<1>3. CASE Cardinality(Latest(F, n)) < n
    <2>1. F = Latest(F, n)
        BY <1>1, <1>3, LatestFull
    <2>2. Oldest(archives) \subseteq after /\ kept \subseteq after
        BY <1>3 DEF Keep, Split
    <2>. QED
        BY <1>2, <2>1, <2>2
<1>4. CASE ~ (Cardinality(Latest(F, n)) < n)
    <2>1. after \in SUBSET archives /\ IsFiniteSet(archives)
        BY KeepAdds DEF Timeline
    <2>2. IsFiniteSet(after) /\ Cardinality(after) \in Nat
        BY <2>1, PartSize
    <2>3. Cardinality(Latest(F, n)) <= Cardinality(after) /\ Cardinality(Latest(F, n)) \in Nat
        BY <1>2, <2>2, PartSize
    <2>. QED
        BY <1>1, <1>4, <2>2, <2>3
<1>. QED
    BY <1>3, <1>4

\* So has the policy, by each of its rules.
THEOREM SelectCounts ==
    ASSUME NEW archives, Timeline(archives), NEW policy, IsPolicy(policy), NEW now,
           NEW rule \in Rules \cap DOMAIN policy, policy[rule] > 0
    PROVE  \/ Cardinality(Select(archives, policy, now)) >= policy[rule]
           \/ Heads(archives, rule) \cup Oldest(archives)
                  \subseteq Select(archives, policy, now)
<1> DEFINE W == Within(archives, policy, now)
           S == Keep(archives, policy, "secondly", W)
           D == Keep(archives, policy, "daily", S)
           K == Keep(archives, policy, "weekly", D)
           M == Keep(archives, policy, "monthly", K)
<1>1. /\ W \subseteq S /\ S \subseteq D /\ D \subseteq K /\ K \subseteq M
      /\ M \in SUBSET archives /\ M = Select(archives, policy, now)
    BY KeepAdds, SelectPart DEF Select
<1>2. PICK kept \in SUBSET archives : Keep(archives, policy, rule, kept) \subseteq M
    <2> HIDE DEF W, M
    <2>1. CASE rule = "secondly"
        BY <1>1, <2>1 DEF S
    <2>2. CASE rule = "daily"
        BY <1>1, <2>2
    <2>3. CASE rule = "weekly"
        BY <1>1, <2>3
    <2>4. CASE rule = "monthly"
        BY <1>1, <2>4 DEF M
    <2>. QED
        BY <2>1, <2>2, <2>3, <2>4 DEF Rules
<1> DEFINE after == Keep(archives, policy, rule, kept)
<1>3. \/ Cardinality(after) >= policy[rule]
      \/ Heads(archives, rule) \cup Oldest(archives) \subseteq after
    BY KeepCounts
<1>4. IsFiniteSet(M) /\ Cardinality(M) \in Nat
    BY <1>1, PartSize DEF Timeline
<1> HIDE DEF M, after
<1>5. Cardinality(after) <= Cardinality(M) /\ Cardinality(after) \in Nat
    BY <1>2, <1>4, PartSize DEF after
<1>6. policy[rule] \in Nat
    BY PolicyCounts
<1>. QED
    BY <1>1, <1>2, <1>3, <1>4, <1>5, <1>6 DEF after
=============================================================================
