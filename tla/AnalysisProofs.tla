--------------------------- MODULE AnalysisProofs ---------------------------
(***************************************************************************)
(* Proofs about the pure parts of a cycle, for every log, rule, alert and  *)
(* weight: what the order of a finite set is, which clusters an analysis   *)
(* makes, and what is planned for them.                                    *)
(***************************************************************************)
EXTENDS Analyzer, Planner, SequenceTheorems, FiniteSetTheorems, TLAPS

(* A finite set in order.  A relation is a set of pairs here, since no lemma can have an
   operator for a parameter. *)
StrictlyOrders(R, S) ==
    /\ \A x \in S : <<x, x>> \notin R
    /\ \A x, y, z \in S : <<x, y>> \in R /\ <<y, z>> \in R => <<x, z>> \in R
    /\ \A x, y \in S : x = y \/ <<x, y>> \in R \/ <<y, x>> \in R

Below(R, S, x) == {y \in S : <<y, x>> \in R}

LEMMA BelowIsSmaller ==
    ASSUME NEW S, IsFiniteSet(S), NEW R, StrictlyOrders(R, S), NEW x \in S
    PROVE  /\ Cardinality(S) \in Nat /\ Cardinality(S) > 0
           /\ Below(R, S, x) \in SUBSET (S \ {x})
           /\ IsFiniteSet(S \ {x}) /\ Cardinality(S \ {x}) = Cardinality(S) - 1
           /\ Cardinality(Below(R, S, x)) \in 0 .. Cardinality(S) - 1
<1>1. Below(R, S, x) \in SUBSET (S \ {x})
  BY DEF Below, StrictlyOrders
<1>2. IsFiniteSet(S \ {x}) /\ Cardinality(S \ {x}) = Cardinality(S) - 1
  BY FS_RemoveElement
<1>3. Cardinality(S) \in Nat /\ Cardinality(S \ {x}) \in Nat
  BY <1>2, FS_CardinalityType
<1>4. IsFiniteSet(Below(R, S, x)) /\ Cardinality(Below(R, S, x)) <= Cardinality(S \ {x})
  BY <1>1, <1>2, FS_Subset
<1>5. Cardinality(Below(R, S, x)) \in Nat
  BY <1>4, FS_CardinalityType
<1> QED
  BY <1>1, <1>2, <1>3, <1>4, <1>5

LEMMA BelowGrows ==
    ASSUME NEW S, IsFiniteSet(S), NEW R, StrictlyOrders(R, S),
           NEW x \in S, NEW y \in S, <<x, y>> \in R
    PROVE  Cardinality(Below(R, S, x)) < Cardinality(Below(R, S, y))
<1> DEFINE X == Below(R, S, x)
           Y == Below(R, S, y)
<1>1. X \in SUBSET Y /\ X # Y
  BY DEF Below, StrictlyOrders
<1>2. Cardinality(X) \in Nat /\ Cardinality(Y) \in Nat
  <2>1. Cardinality(S) \in Nat
    BY FS_CardinalityType
  <2>2. Cardinality(X) \in 0 .. Cardinality(S) - 1
    BY BelowIsSmaller
  <2>3. Cardinality(Y) \in 0 .. Cardinality(S) - 1
    BY BelowIsSmaller
  <2> HIDE DEF X, Y
  <2> QED
    BY <2>1, <2>2, <2>3
<1>3. IsFiniteSet(Y)
  BY FS_Subset DEF Below
<1> HIDE DEF X, Y
<1>4. Cardinality(X) <= Cardinality(Y) /\ Cardinality(X) # Cardinality(Y)
  BY <1>1, <1>3, FS_Subset
<1>5. Cardinality(X) < Cardinality(Y)
  BY <1>2, <1>4
<1> QED
  BY <1>5 DEF X, Y

(* Each number of predecessors, from none to all others, is that of just one member. *)
LEMMA PlacesAreTaken ==
    ASSUME NEW S, IsFiniteSet(S), NEW R, StrictlyOrders(R, S)
    PROVE  /\ \A k \in 1 .. Cardinality(S) : \E x \in S : Cardinality(Below(R, S, x)) = k - 1
           /\ \A x, y \in S : Cardinality(Below(R, S, x)) = Cardinality(Below(R, S, y)) => x = y
<1> DEFINE n == Cardinality(S)
           place == [x \in S |-> Cardinality(Below(R, S, x)) + 1]
<1>1. n \in Nat
  BY FS_CardinalityType
<1>2. \A x \in S : Cardinality(Below(R, S, x)) \in 0 .. n - 1
  BY BelowIsSmaller
<1>3. \A x, y \in S : Cardinality(Below(R, S, x)) = Cardinality(Below(R, S, y)) => x = y
  <2> SUFFICES ASSUME NEW x \in S, NEW y \in S, x # y
               PROVE  Cardinality(Below(R, S, x)) # Cardinality(Below(R, S, y))
    OBVIOUS
  <2>1. <<x, y>> \in R \/ <<y, x>> \in R
    BY DEF StrictlyOrders
  <2>2. \/ Cardinality(Below(R, S, x)) < Cardinality(Below(R, S, y))
        \/ Cardinality(Below(R, S, y)) < Cardinality(Below(R, S, x))
    BY <2>1, BelowGrows
  <2> QED
    BY <1>1, <1>2, <2>2
<1>4. place \in [S -> 1 .. n] /\ \A x, y \in S : place[x] = place[y] => x = y
  BY <1>1, <1>2, <1>3
<1>5. place \in Injection(S, 1 .. n)
  BY <1>4 DEF Injection, IsInjective
<1>6. IsFiniteSet(1 .. n) /\ Cardinality(1 .. n) = n
  <2>1. IsFiniteSet(1 .. n) /\ Cardinality(1 .. n) = IF 1 > n THEN 0 ELSE n - 1 + 1
    BY <1>1, FS_Interval
  <2> QED
    BY <1>1, <2>1
<1> HIDE DEF place
<1>7. place \in Surjection(S, 1 .. n)
  BY <1>5, <1>6, FS_Injection
<1>8. \A k \in 1 .. n : \E x \in S : place[x] = k
  BY <1>7 DEF Surjection
<1>9. \A x \in S : place[x] = Cardinality(Below(R, S, x)) + 1
  BY DEF place
<1>10. \A k \in 1 .. n : \E x \in S : Cardinality(Below(R, S, x)) = k - 1
  BY <1>1, <1>2, <1>8, <1>9
<1> QED
  BY <1>3, <1>10

(* How InOrder chooses, where Before is a relation, and what comes of it: all of S, each
   member once, in order. *)
Chosen(order, R, S) ==
    /\ order = [k \in 1 .. Cardinality(S) |-> order[k]]
    /\ \A k \in 1 .. Cardinality(S) :
          (\E x \in S : Cardinality(Below(R, S, x)) = k - 1) =>
              order[k] \in S /\ Cardinality(Below(R, S, order[k])) = k - 1

Ordered(order, R, S) ==
    /\ Cardinality(S) \in Nat
    /\ order \in [1 .. Cardinality(S) -> S]
    /\ \A x \in S : \E k \in 1 .. Cardinality(S) : order[k] = x
    /\ \A i, j \in 1 .. Cardinality(S) : i < j => <<order[i], order[j]>> \in R

LEMMA OrderIsComplete ==
    ASSUME NEW S, IsFiniteSet(S), NEW R, StrictlyOrders(R, S), NEW order, Chosen(order, R, S)
    PROVE  Ordered(order, R, S)
<1>1. Cardinality(S) \in Nat
  BY FS_CardinalityType
<1>2. PICK n \in Nat : n = Cardinality(S)
  BY <1>1
<1>3. \A k \in 1 .. n : order[k] \in S /\ Cardinality(Below(R, S, order[k])) = k - 1
  BY <1>2, PlacesAreTaken DEF Chosen
<1>4. order \in [1 .. n -> S]
  BY <1>2, <1>3 DEF Chosen
<1>5. ASSUME NEW x \in S PROVE \E k \in 1 .. n : order[k] = x
  <2>1. PICK p : p = Cardinality(Below(R, S, x))
    OBVIOUS
  <2>2. p \in 0 .. n - 1
    BY <1>2, <2>1, BelowIsSmaller
  <2>3. p + 1 \in 1 .. n /\ (p + 1) - 1 = p
    BY <2>2
  <2>4. order[p + 1] = x
    BY <1>3, <2>1, <2>3, PlacesAreTaken
  <2> QED
    BY <2>3, <2>4
<1>6. ASSUME NEW i \in 1 .. n, NEW j \in 1 .. n, i < j PROVE <<order[i], order[j]>> \in R
  <2>1. PICK x \in S : x = order[i] /\ Cardinality(Below(R, S, x)) = i - 1
    BY <1>3
  <2>2. PICK y \in S : y = order[j] /\ Cardinality(Below(R, S, y)) = j - 1
    BY <1>3
  <2>3. i - 1 < j - 1 /\ ~(j - 1 < i - 1)
    BY <1>6
  <2>4. x # y
    BY <2>1, <2>2, <2>3
  <2>5. <<y, x>> \notin R
    BY <2>1, <2>2, <2>3, BelowGrows
  <2>6. <<x, y>> \in R
    BY <2>4, <2>5 DEF StrictlyOrders
  <2> QED
    BY <2>1, <2>2, <2>6
<1> QED
  BY <1>1, <1>2, <1>4, <1>5, <1>6 DEF Ordered

(* A finite set has a first member, and a last one. *)
LEMMA HasFirst ==
    ASSUME NEW S, IsFiniteSet(S), S # {}, NEW R, StrictlyOrders(R, S)
    PROVE  \E x \in S : \A y \in S : <<y, x>> \notin R
<1>1. Cardinality(S) \in Nat /\ Cardinality(S) > 0
  BY BelowIsSmaller
<1>2. PICK x \in S : Cardinality(Below(R, S, x)) = 1 - 1
  BY <1>1, PlacesAreTaken
<1>3. IsFiniteSet(Below(R, S, x))
  BY FS_Subset DEF Below
<1>4. Below(R, S, x) = {}
  BY <1>2, <1>3, FS_EmptySet
<1> QED
  BY <1>4 DEF Below

LEMMA HasLast ==
    ASSUME NEW S, IsFiniteSet(S), S # {}, NEW R, StrictlyOrders(R, S)
    PROVE  \E x \in S : \A y \in S : y = x \/ <<y, x>> \in R
<1>1. PICK n \in Nat : n = Cardinality(S) /\ n > 0
  BY BelowIsSmaller
<1>2. PICK x \in S : Cardinality(Below(R, S, x)) = n - 1
  BY <1>1, PlacesAreTaken
<1>3. /\ Below(R, S, x) \in SUBSET (S \ {x})
      /\ IsFiniteSet(S \ {x}) /\ Cardinality(S \ {x}) = n - 1
  BY <1>1, BelowIsSmaller
<1>4. Below(R, S, x) = S \ {x}
  BY <1>2, <1>3, FS_Subset
<1> QED
  BY <1>4 DEF Below
-----------------------------------------------------------------------------
(* The firings of rules, in the order of log and rules. *)

EarlierIn(S) == {p \in S \X S : Earlier(p[1], p[2])}

LEMMA EarlierIsOrder ==
    ASSUME NEW S \in SUBSET (Nat \X Nat)
    PROVE  StrictlyOrders(EarlierIn(S), S)
<1>1. \A x, y \in S : <<x, y>> \in EarlierIn(S) <=> Earlier(x, y)
  BY DEF EarlierIn
<1>2. \A x \in S : x[1] \in Nat /\ x[2] \in Nat /\ x = <<x[1], x[2]>>
  OBVIOUS
<1>3. ASSUME NEW x \in S PROVE ~Earlier(x, x)
  BY <1>2 DEF Earlier
<1>4. ASSUME NEW x \in S, NEW y \in S, NEW z \in S, Earlier(x, y), Earlier(y, z)
      PROVE  Earlier(x, z)
  <2>1. x[1] \in Nat /\ y[1] \in Nat /\ z[1] \in Nat /\ x[2] \in Nat /\ y[2] \in Nat /\ z[2] \in Nat
    BY <1>2
  <2> QED
    BY <1>4, <2>1 DEF Earlier
<1>5. ASSUME NEW x \in S, NEW y \in S PROVE x = y \/ Earlier(x, y) \/ Earlier(y, x)
  <2>1. x[1] \in Nat /\ y[1] \in Nat /\ x[2] \in Nat /\ y[2] \in Nat
    BY <1>2
  <2>2. x[1] = y[1] /\ x[2] = y[2] => x = y
    BY <1>2
  <2> QED
    BY <2>1, <2>2 DEF Earlier
<1> QED
  BY <1>1, <1>3, <1>4, <1>5 DEF StrictlyOrders

LEMMA FiringsInOrder ==
    ASSUME NEW S \in SUBSET (Nat \X Nat), IsFiniteSet(S), NEW order, order = InLogOrder(S)
    PROVE  /\ Cardinality(S) \in Nat
           /\ order \in [1 .. Cardinality(S) -> S]
           /\ \A x \in S : \E k \in 1 .. Cardinality(S) : order[k] = x
           /\ \A i, j \in 1 .. Cardinality(S) : i < j => Earlier(order[i], order[j])
<1> DEFINE R == EarlierIn(S)
<1>1. StrictlyOrders(R, S)
  BY EarlierIsOrder
<1>2. \A x \in S : Ahead(S, Earlier, x) = Cardinality(Below(R, S, x))
  <2> SUFFICES ASSUME NEW x \in S PROVE Ahead(S, Earlier, x) = Cardinality(Below(R, S, x))
    OBVIOUS
  <2>1. {y \in S : Earlier(y, x)} = Below(R, S, x)
    BY DEF Below, EarlierIn
  <2> QED
    BY <2>1 DEF Ahead
<1>3. Chosen(order, R, S)
  BY <1>2 DEF InLogOrder, InOrder, Chosen
<1>4. \A x, y \in S : <<x, y>> \in R => Earlier(x, y)
  BY DEF EarlierIn
<1> HIDE DEF R
<1>5. Ordered(order, R, S)
  BY <1>1, <1>3, OrderIsComplete
<1> QED
  BY <1>4, <1>5 DEF Ordered

LEMMA FiringsOfALog ==
    ASSUME NEW events \in Seq(MetricEvent)
    PROVE  /\ IsFiniteSet(Firings(events)) /\ Firings(events) \in SUBSET (Nat \X Nat)
           /\ \A f \in Firings(events) :
                 events[f[1]] \in MetricEvent /\ Rules[f[2]] \in SignalRule
<1>1. DOMAIN events = 1 .. Len(events) /\ Len(events) \in Nat
  BY LenProperties
<1>2. DOMAIN Rules = 1 .. Len(Rules) /\ Len(Rules) \in Nat
  BY AnalyzerAssumption, LenProperties
<1>3. IsFiniteSet(DOMAIN events) /\ IsFiniteSet(DOMAIN Rules)
  BY <1>1, <1>2, FS_Interval
<1>4. IsFiniteSet((DOMAIN events) \X (DOMAIN Rules))
  BY <1>3, FS_Product
<1>5. Firings(events) \in SUBSET ((DOMAIN events) \X (DOMAIN Rules))
  BY DEF Firings
<1>6. IsFiniteSet(Firings(events))
  BY <1>4, <1>5, FS_Subset
<1>7. \A f \in Firings(events) : f \in Nat \X Nat /\ f[1] \in 1 .. Len(events) /\ f[2] \in 1 .. Len(Rules)
  BY <1>1, <1>2, <1>5
<1>8. \A i \in 1 .. Len(events) : events[i] \in MetricEvent
  BY ElementOfSeq
<1>9. \A j \in 1 .. Len(Rules) : Rules[j] \in SignalRule
  BY AnalyzerAssumption, ElementOfSeq
<1> QED
  BY <1>6, <1>7, <1>8, <1>9

LEMMA FirstAndLastFiring ==
    ASSUME NEW fs \in SUBSET (Nat \X Nat), IsFiniteSet(fs), fs # {}
    PROVE  /\ \E f \in fs : \A g \in fs : ~Earlier(g, f)
           /\ LastOf(fs) \in fs
<1> DEFINE R == EarlierIn(fs)
<1>1. StrictlyOrders(R, fs)
  BY EarlierIsOrder
<1>2. \A f, g \in fs : <<f, g>> \in R <=> Earlier(f, g)
  BY DEF EarlierIn
<1> HIDE DEF R
<1>3. \E f \in fs : \A g \in fs : <<g, f>> \notin R
  BY <1>1, HasFirst
<1>4. \E f \in fs : \A g \in fs : g = f \/ <<g, f>> \in R
  BY <1>1, HasLast
<1>5. \E f \in fs : \A g \in fs : g = f \/ Earlier(g, f)
  BY <1>2, <1>4
<1> QED
  BY <1>2, <1>3, <1>5 DEF LastOf

LEMMA FiringsOfACause ==
    ASSUME NEW events \in Seq(MetricEvent), NEW cause
    PROVE  /\ IsFiniteSet(FiringsOf(events, cause))
           /\ FiringsOf(events, cause) \in SUBSET Firings(events)
           /\ FiringsOf(events, cause) \in SUBSET (Nat \X Nat)
<1>1. FiringsOf(events, cause) \in SUBSET Firings(events)
  BY DEF FiringsOf
<1> QED
  BY <1>1, FiringsOfALog, FS_Subset

(* Each cause is opened by one firing, its first. *)
LEMMA EveryCauseOpens ==
    ASSUME NEW events \in Seq(MetricEvent), NEW f \in Firings(events)
    PROVE  \E o \in Opening(events) : Cause(events[o[1]]) = Cause(events[f[1]])
<1> DEFINE cause == Cause(events[f[1]])
           fs == FiringsOf(events, cause)
<1>1. f \in fs
  BY DEF FiringsOf
<1>2. IsFiniteSet(fs) /\ fs \in SUBSET (Nat \X Nat)
  BY FiringsOfACause
<1>3. PICK o \in fs : \A g \in fs : ~Earlier(g, o)
  BY <1>1, <1>2, FirstAndLastFiring
<1>4. o \in Firings(events) /\ Cause(events[o[1]]) = cause
  BY <1>3 DEF FiringsOf
<1> QED
  BY <1>3, <1>4 DEF Opening

LEMMA OneOpening ==
    ASSUME NEW events \in Seq(MetricEvent), NEW o \in Opening(events), NEW p \in Opening(events),
           Cause(events[o[1]]) = Cause(events[p[1]])
    PROVE  o = p
<1>1. o \in Firings(events) /\ p \in Firings(events)
  BY DEF Opening
<1>2. ~Earlier(o, p) /\ ~Earlier(p, o)
  BY <1>1 DEF Opening, FiringsOf
<1>3. StrictlyOrders(EarlierIn(Firings(events)), Firings(events))
  BY FiringsOfALog, EarlierIsOrder
<1> QED
  BY <1>1, <1>2, <1>3 DEF StrictlyOrders, EarlierIn

LEMMA RuleClusterOfACause ==
    ASSUME NEW events \in Seq(MetricEvent), NEW f \in Firings(events)
    PROVE  LET c == RuleCluster(events, Cause(events[f[1]]))
           IN c \in Cluster /\ ~c.anomaly /\ <<c.source, c.metric>> = Cause(events[f[1]])
<1> DEFINE cause == Cause(events[f[1]])
           fs == FiringsOf(events, cause)
<1>1. f \in fs
  BY DEF FiringsOf
<1>2. IsFiniteSet(fs) /\ fs \in SUBSET (Nat \X Nat) /\ fs \in SUBSET Firings(events)
  BY FiringsOfACause
<1>3. LastOf(fs) \in Firings(events)
  BY <1>1, <1>2, FirstAndLastFiring
<1>4. RuleMeta(events, cause) \in SignalRule
  BY <1>3, FiringsOfALog DEF RuleMeta
<1>5. cause[1] \in STRING /\ cause[2] \in STRING /\ cause = <<cause[1], cause[2]>>
  BY FiringsOfALog DEF Cause, MetricEvent
<1> HIDE DEF cause, fs
<1>6. RuleCluster(events, cause) \in Cluster
  BY <1>4, <1>5 DEF RuleCluster, Cluster, SignalRule
<1>7. /\ ~RuleCluster(events, cause).anomaly
      /\ RuleCluster(events, cause).source = cause[1]
      /\ RuleCluster(events, cause).metric = cause[2]
  BY DEF RuleCluster
<1> QED
  BY <1>5, <1>6, <1>7 DEF cause
-----------------------------------------------------------------------------
(* An analysis. *)

IsSeq(s) == s \in Seq(ToSet(s))

LEMMA FunctionIsSeq ==
    ASSUME NEW s, NEW n \in Nat, DOMAIN s = 1 .. n, s = [i \in 1 .. n |-> s[i]]
    PROVE  IsSeq(s) /\ Len(s) = n
<1>1. s \in [1 .. n -> ToSet(s)]
  BY DEF ToSet
<1>2. s \in Seq(ToSet(s))
  BY <1>1, SeqDef
<1>3. Len(s) \in Nat /\ DOMAIN s = 1 .. Len(s)
  BY <1>2, LenProperties
<1> QED
  BY <1>2, <1>3 DEF IsSeq

LEMMA SeqHasDomain == ASSUME NEW s, IsSeq(s) PROVE Len(s) \in Nat /\ DOMAIN s = 1 .. Len(s)
  BY LenProperties DEF IsSeq

LEMMA AppendToSet ==
    ASSUME NEW s, NEW e, IsSeq(s)
    PROVE  /\ IsSeq(Append(s, e))
           /\ ToSet(Append(s, e)) = ToSet(s) \union {e}
           /\ Len(Append(s, e)) = Len(s) + 1
           /\ \A i \in 1 .. Len(s) : Append(s, e)[i] = s[i]
           /\ Append(s, e)[Len(s) + 1] = e
<1> DEFINE T == ToSet(s) \union {e}
           a == Append(s, e)
<1>1. s \in Seq(T) /\ e \in T
  BY SeqMonotonic DEF IsSeq
<1>2. PICK n \in Nat : n = Len(s)
  BY <1>1, LenProperties
<1>3. DOMAIN s = 1 .. n
  BY <1>1, <1>2, LenProperties
<1>4. /\ a \in Seq(T) /\ Len(a) = n + 1
      /\ \A i \in 1 .. n : a[i] = s[i]
      /\ a[n + 1] = e
  BY <1>1, <1>2, AppendProperties
<1>5. DOMAIN a = 1 .. n + 1
  BY <1>4, LenProperties
<1>6. ToSet(a) = T
  BY <1>2, <1>3, <1>4, <1>5 DEF ToSet
<1> QED
  BY <1>2, <1>4, <1>6 DEF IsSeq

Breach(event) == \E rule \in ToSet(Rules) : Evaluate(rule, event)
Names(cluster, event) == ~cluster.anomaly /\ <<cluster.source, cluster.metric>> = Cause(event)

LEMMA BreachesFire ==
    ASSUME NEW events \in Seq(MetricEvent), NEW i \in 1 .. Len(events), Breach(events[i])
    PROVE  \E f \in Firings(events) : f[1] = i
<1>1. PICK j \in DOMAIN Rules : Evaluate(Rules[j], events[i])
  BY DEF Breach, ToSet
<1>2. i \in DOMAIN events
  BY LenProperties
<1>3. <<i, j>> \in Firings(events)
  BY <1>1, <1>2 DEF Firings
<1> QED
  BY <1>3

(* The clusters of the rules, made by these firings. *)
MadeBy(clusters, events, order) ==
    /\ clusters \in Seq(Cluster)
    /\ order \in [1 .. Len(clusters) -> Opening(events)]
    /\ \A k \in 1 .. Len(clusters) : Names(clusters[k], events[order[k][1]])
    /\ \A o \in Opening(events) : \E k \in 1 .. Len(clusters) : order[k] = o
    /\ \A j, k \in 1 .. Len(clusters) : j < k => Earlier(order[j], order[k])

LEMMA RuleClustersInOrder ==
    ASSUME NEW events \in Seq(MetricEvent)
    PROVE  MadeBy(RuleClusters(events), events, InLogOrder(Opening(events)))
<1> DEFINE S == Opening(events)
           rc == RuleClusters(events)
<1>0. PICK order : order = InLogOrder(S)
  OBVIOUS
<1>1. S \in SUBSET Firings(events) /\ S \in SUBSET (Nat \X Nat) /\ IsFiniteSet(S)
  <2>1. S \in SUBSET Firings(events)
    BY DEF Opening
  <2> QED
    BY <2>1, FiringsOfALog, FS_Subset
<1>2. PICK n \in Nat : n = Cardinality(S)
  BY <1>1, FS_CardinalityType
<1>3. /\ order \in [1 .. n -> S]
      /\ \A x \in S : \E k \in 1 .. n : order[k] = x
      /\ \A j, k \in 1 .. n : j < k => Earlier(order[j], order[k])
  <2> HIDE DEF S
  <2> QED
    BY <1>0, <1>1, <1>2, FiringsInOrder
<1>4. /\ rc = [k \in 1 .. n |-> rc[k]]
      /\ \A k \in 1 .. n : rc[k] = RuleCluster(events, Cause(events[order[k][1]]))
  BY <1>0, <1>2 DEF RuleClusters
<1> HIDE DEF rc
<1>5. \A k \in 1 .. n : order[k] \in Firings(events)
  BY <1>1, <1>3
<1>6. \A k \in 1 .. n : rc[k] \in Cluster /\ Names(rc[k], events[order[k][1]])
  BY <1>4, <1>5, RuleClusterOfACause DEF Names
<1>7. rc \in [1 .. n -> Cluster]
  BY <1>4, <1>6
<1>8. rc \in Seq(Cluster) /\ Len(rc) = n
  <2>1. rc \in Seq(Cluster)
    BY <1>7, SeqDef
  <2>2. DOMAIN rc = 1 .. n /\ IsSeq(rc)
    BY <1>4, FunctionIsSeq
  <2> QED
    BY <1>4, <2>1, <2>2, FunctionIsSeq
<1> QED
  BY <1>0, <1>3, <1>6, <1>8 DEF MadeBy, rc

(* Whatever the log and the rules: each event that breaks a rule has its cause named by
   just one cluster, and each cluster made by rules names the cause of such an event. *)
THEOREM OneClusterPerCause ==
    \A events \in Seq(MetricEvent) :
        LET clusters == RuleClusters(events)
        IN /\ clusters \in Seq(Cluster)
           /\ \A i \in 1 .. Len(events) : Breach(events[i]) =>
                 \E k \in 1 .. Len(clusters) :
                     /\ Names(clusters[k], events[i])
                     /\ \A j \in 1 .. Len(clusters) : Names(clusters[j], events[i]) => j = k
           /\ \A k \in 1 .. Len(clusters) :
                 \E i \in 1 .. Len(events) : Breach(events[i]) /\ Names(clusters[k], events[i])
<1> SUFFICES ASSUME NEW events \in Seq(MetricEvent)
             PROVE  LET clusters == RuleClusters(events)
                    IN /\ clusters \in Seq(Cluster)
                       /\ \A i \in 1 .. Len(events) : Breach(events[i]) =>
                             \E k \in 1 .. Len(clusters) :
                                 /\ Names(clusters[k], events[i])
                                 /\ \A j \in 1 .. Len(clusters) :
                                       Names(clusters[j], events[i]) => j = k
                       /\ \A k \in 1 .. Len(clusters) :
                             \E i \in 1 .. Len(events) :
                                 Breach(events[i]) /\ Names(clusters[k], events[i])
  OBVIOUS
<1> DEFINE clusters == RuleClusters(events)
<1>1. PICK order : MadeBy(clusters, events, order)
  BY RuleClustersInOrder
<1>2. PICK n \in Nat : n = Len(clusters)
  BY <1>1, LenProperties DEF MadeBy
<1>3. /\ clusters \in Seq(Cluster)
      /\ order \in [1 .. n -> Opening(events)]
      /\ \A k \in 1 .. n : Names(clusters[k], events[order[k][1]])
      /\ \A o \in Opening(events) : \E k \in 1 .. n : order[k] = o
      /\ \A j, k \in 1 .. n : j < k => Earlier(order[j], order[k])
  BY <1>1, <1>2 DEF MadeBy
<1> HIDE DEF clusters
<1>4. ASSUME NEW i \in 1 .. Len(events), Breach(events[i])
      PROVE  \E k \in 1 .. n :
                 /\ Names(clusters[k], events[i])
                 /\ \A j \in 1 .. n : Names(clusters[j], events[i]) => j = k
  <2>1. PICK f \in Firings(events) : f[1] = i
    BY <1>4, BreachesFire
  <2>2. PICK o \in Opening(events) : Cause(events[o[1]]) = Cause(events[i])
    BY <2>1, EveryCauseOpens
  <2>3. PICK k \in 1 .. n : order[k] = o
    BY <1>3
  <2>4. Names(clusters[k], events[i])
    BY <1>3, <2>2, <2>3 DEF Names
  <2>5. ASSUME NEW j \in 1 .. n, Names(clusters[j], events[i]) PROVE j = k
    <3>1. Cause(events[order[j][1]]) = Cause(events[o[1]])
      BY <1>3, <2>2, <2>5 DEF Names
    <3>2. order[j] = order[k] /\ order[k] \in Nat \X Nat
      <4>1. order[j] \in Opening(events)
        BY <1>3
      <4>2. order[j] = o
        BY <3>1, <4>1, OneOpening
      <4>3. o \in Firings(events)
        BY DEF Opening
      <4> QED
        BY <2>3, <4>2, <4>3, FiringsOfALog
    <3>3. ~Earlier(order[k], order[k])
      BY <3>2 DEF Earlier
    <3>4. ~(j < k) /\ ~(k < j)
      BY <1>3, <3>2, <3>3
    <3> QED
      BY <3>4
  <2> QED
    BY <2>4, <2>5
<1>5. ASSUME NEW k \in 1 .. n
      PROVE  \E i \in 1 .. Len(events) : Breach(events[i]) /\ Names(clusters[k], events[i])
  <2>1. order[k] \in Firings(events)
    BY <1>3 DEF Opening
  <2>2. /\ order[k][1] \in DOMAIN events /\ order[k][2] \in DOMAIN Rules
        /\ Evaluate(Rules[order[k][2]], events[order[k][1]])
    BY <2>1 DEF Firings
  <2>3. Breach(events[order[k][1]])
    BY <2>2 DEF Breach, ToSet
  <2>4. order[k][1] \in 1 .. Len(events)
    BY <2>2, LenProperties
  <2> QED
    BY <1>3, <2>3, <2>4
<1> QED
  BY <1>2, <1>3, <1>4, <1>5 DEF clusters

LEMMA MaxSeverityIsGravest ==
    ASSUME NEW S \in SUBSET Severity
    PROVE  /\ MaxSeverity(S) \in Severity
           /\ \A u \in S : SeverityRank(u) <= SeverityRank(MaxSeverity(S))
<1> DEFINE Gravest(s) == \A u \in S : SeverityRank(u) <= SeverityRank(s)
<1>1. /\ SeverityRank("informational") = 0 /\ SeverityRank("warning") = 1
      /\ SeverityRank("degraded") = 2 /\ SeverityRank("critical") = 3
      /\ SeverityRank("catastrophic") = 4
  BY DEF SeverityRank
<1>2. CASE "catastrophic" \in S
  <2>1. Gravest("catastrophic")
    BY <1>1 DEF Severity
  <2> QED
    BY <1>2, <2>1 DEF MaxSeverity, Severity
<1>3. CASE "catastrophic" \notin S /\ "critical" \in S
  <2>1. Gravest("critical")
    BY <1>1, <1>3 DEF Severity
  <2> QED
    BY <1>3, <2>1 DEF MaxSeverity, Severity
<1>4. CASE "catastrophic" \notin S /\ "critical" \notin S /\ "degraded" \in S
  <2>1. Gravest("degraded")
    BY <1>1, <1>4 DEF Severity
  <2> QED
    BY <1>4, <2>1 DEF MaxSeverity, Severity
<1>5. CASE /\ "catastrophic" \notin S /\ "critical" \notin S /\ "degraded" \notin S
           /\ "warning" \in S
  <2>1. Gravest("warning")
    BY <1>1, <1>5 DEF Severity
  <2> QED
    BY <1>5, <2>1 DEF MaxSeverity, Severity
<1>6. CASE S \subseteq {"informational"}
  <2>1. Gravest("informational")
    BY <1>1, <1>6
  <2> QED
    BY <1>6, <2>1 DEF MaxSeverity, Severity
<1> QED
  BY <1>2, <1>3, <1>4, <1>5, <1>6 DEF Severity

LEMMA AnomalyClustersAreTyped ==
    ASSUME NEW alerts \in Seq(AnomalyAlert)
    PROVE  AnomalyClusters(alerts) \in Seq(Cluster) /\ Len(AnomalyClusters(alerts)) = Len(alerts)
<1> DEFINE ac == AnomalyClusters(alerts)
<1>1. PICK n \in Nat : n = Len(alerts) /\ DOMAIN alerts = 1 .. n
  BY LenProperties
<1>2. \A i \in 1 .. n : alerts[i] \in AnomalyAlert
  BY <1>1, ElementOfSeq
<1>3. /\ ac = [i \in 1 .. n |-> ac[i]]
      /\ \A i \in 1 .. n : ac[i] = [source |-> alerts[i].source, metric |-> alerts[i].metric,
                                    anomaly |-> TRUE, severity |-> "warning", candidate |-> TRUE]
  BY <1>1 DEF AnomalyClusters
<1> HIDE DEF ac
<1>4. ASSUME NEW i \in 1 .. n PROVE ac[i] \in Cluster
  <2>1. alerts[i].source \in STRING /\ alerts[i].metric \in STRING
    BY <1>2 DEF AnomalyAlert
  <2>2. ac[i] = [source |-> alerts[i].source, metric |-> alerts[i].metric,
                 anomaly |-> TRUE, severity |-> "warning", candidate |-> TRUE]
    BY <1>3
  <2> QED
    BY <2>1, <2>2 DEF Cluster, Severity
<1>5. ac \in [1 .. n -> Cluster]
  BY <1>3, <1>4
<1>6. ac \in Seq(Cluster)
  BY <1>5, SeqDef
<1>7. Len(ac) = n
  BY <1>3, FunctionIsSeq
<1> QED
  BY <1>1, <1>6, <1>7 DEF ac

(* Whatever the log, the rules and the alerts: the report names the cause of each event
   that breaks a rule and of each alert, and no cluster is graver than its severity. *)
THEOREM ReportsAreComplete ==
    \A events \in Seq(MetricEvent), alerts \in Seq(AnomalyAlert) :
        LET report == Analyze(events, alerts)
        IN /\ report \in Report
           /\ \A i \in 1 .. Len(events) : Breach(events[i]) =>
                 \E c \in ToSet(report.clusters) : Names(c, events[i])
           /\ \A i \in 1 .. Len(alerts) :
                 \E c \in ToSet(report.clusters) :
                     c.anomaly /\ c.source = alerts[i].source /\ c.metric = alerts[i].metric
           /\ \A c \in ToSet(report.clusters) :
                 SeverityRank(c.severity) <= SeverityRank(report.severity)
<1> SUFFICES ASSUME NEW events \in Seq(MetricEvent), NEW alerts \in Seq(AnomalyAlert)
             PROVE  LET report == Analyze(events, alerts)
                    IN /\ report \in Report
                       /\ \A i \in 1 .. Len(events) : Breach(events[i]) =>
                             \E c \in ToSet(report.clusters) : Names(c, events[i])
                       /\ \A i \in 1 .. Len(alerts) :
                             \E c \in ToSet(report.clusters) :
                                 /\ c.anomaly
                                 /\ c.source = alerts[i].source /\ c.metric = alerts[i].metric
                       /\ \A c \in ToSet(report.clusters) :
                             SeverityRank(c.severity) <= SeverityRank(report.severity)
  OBVIOUS
<1> DEFINE rc == RuleClusters(events)
           ac == AnomalyClusters(alerts)
           clusters == rc \o ac
           severities == {clusters[i].severity : i \in DOMAIN clusters}
           report == Analyze(events, alerts)
<1>1. rc \in Seq(Cluster) /\ ac \in Seq(Cluster) /\ Len(ac) = Len(alerts)
  BY OneClusterPerCause, AnomalyClustersAreTyped
<1>2. \A i \in 1 .. Len(events) : Breach(events[i]) =>
          \E k \in 1 .. Len(rc) : Names(rc[k], events[i])
  BY OneClusterPerCause
<1>3. \A i \in DOMAIN alerts : /\ ac[i].anomaly
                              /\ ac[i].source = alerts[i].source
                              /\ ac[i].metric = alerts[i].metric
  BY DEF AnomalyClusters
<1>4. /\ report.clusters = clusters
      /\ report.severity = MaxSeverity(severities)
      /\ report.targets = {clusters[i].source : i \in {j \in DOMAIN clusters : clusters[j].candidate}}
      /\ report = [clusters |-> report.clusters, severity |-> report.severity,
                   targets |-> report.targets]
  BY DEF Analyze
<1> HIDE DEF rc, ac, report
<1>5. PICK r \in Nat, a \in Nat : r = Len(rc) /\ a = Len(ac)
  BY <1>1, LenProperties
<1>6. /\ clusters \in Seq(Cluster) /\ Len(clusters) = r + a
      /\ \A k \in 1 .. r : clusters[k] = rc[k]
      /\ \A k \in 1 .. a : clusters[r + k] = ac[k]
  <2>1. /\ clusters \in Seq(Cluster) /\ Len(clusters) = r + a
        /\ \A k \in 1 .. r + a : clusters[k] = IF k <= r THEN rc[k] ELSE ac[k - r]
    <3>1. /\ clusters \in Seq(Cluster) /\ Len(clusters) = Len(rc) + Len(ac)
          /\ \A k \in 1 .. Len(rc) + Len(ac) :
                clusters[k] = IF k <= Len(rc) THEN rc[k] ELSE ac[k - Len(rc)]
      BY <1>1, ConcatProperties
    <3> QED
      BY <1>5, <3>1
  <2>2. \A k \in 1 .. a : r + k \in 1 .. r + a /\ ~(r + k <= r) /\ (r + k) - r = k
    BY <1>5
  <2> HIDE DEF clusters
  <2>3. \A k \in 1 .. r : k \in 1 .. r + a /\ k <= r
    BY <1>5
  <2> QED
    BY <2>1, <2>2, <2>3
<1> HIDE DEF clusters
<1>7. DOMAIN clusters = 1 .. r + a /\ \A k \in 1 .. r + a : clusters[k] \in Cluster
  BY <1>5, <1>6, LenProperties, ElementOfSeq
<1>8. severities \in SUBSET Severity
  BY <1>7 DEF Cluster
<1>9. report.severity \in Severity /\ \A s \in severities : SeverityRank(s) <= SeverityRank(report.severity)
  BY <1>4, <1>8, MaxSeverityIsGravest
<1>10. report.targets \in SUBSET STRING
  BY <1>4, <1>7 DEF Cluster
<1>11. report \in Report
  BY <1>4, <1>6, <1>9, <1>10 DEF Report
<1>12. \A c \in ToSet(clusters) : SeverityRank(c.severity) <= SeverityRank(report.severity)
  BY <1>9 DEF ToSet
<1>13. \A k \in 1 .. r + a : clusters[k] \in ToSet(clusters)
  BY <1>7 DEF ToSet
<1>14. ASSUME NEW i \in 1 .. Len(events), Breach(events[i])
       PROVE  \E c \in ToSet(clusters) : Names(c, events[i])
  <2>1. PICK k \in 1 .. r : Names(rc[k], events[i])
    BY <1>2, <1>5, <1>14
  <2>2. k \in 1 .. r + a
    BY <1>5
  <2> QED
    BY <1>6, <1>13, <2>1, <2>2
<1>15. ASSUME NEW i \in 1 .. Len(alerts)
       PROVE  \E c \in ToSet(clusters) :
                  c.anomaly /\ c.source = alerts[i].source /\ c.metric = alerts[i].metric
  <2>1. i \in 1 .. a /\ r + i \in 1 .. r + a /\ i \in DOMAIN alerts
    BY <1>1, <1>5, LenProperties
  <2>2. clusters[r + i] = ac[i] /\ clusters[r + i] \in ToSet(clusters)
    BY <1>6, <1>13, <2>1
  <2> QED
    BY <1>3, <2>1, <2>2
<1> QED
  BY <1>4, <1>11, <1>12, <1>14, <1>15 DEF report
-----------------------------------------------------------------------------
(* What is planned. *)

(* What is read of a cluster when it is planned for. *)
Plannable(c) == c.severity \in Severity /\ c.candidate \in BOOLEAN

Percent == 0 .. 100
DefaultRange == 0 .. 5400

(* What no severity exceeds: the share of its penalty and its deficit in the sum. *)
Balanced(penalty, deficit) == 25 * penalty + 10 * deficit <= 2900

NoveltyOf(novel) == IF novel THEN 100 ELSE 0

(* The default weights over a blast radius of two and plans that leave safety alone. *)
DefaultSum(penalty, novelty, deficit) ==
    Clamp(0, 25 * penalty + 25 * 20 + 20 * novelty + 20 * 0 + 10 * deficit, 10000)

LEMMA DefaultScore ==
    ASSUME NEW rev \in Reversibility, NEW novel \in BOOLEAN, NEW deficit \in Percent
    PROVE  Score(DefaultWeights, rev, BlastRadius, novel, FALSE, deficit) =
             DefaultSum(ReversibilityPenalty[rev], NoveltyOf(novel), deficit)
<1>1. Clamp(0, BlastRadius * (100 \div MaxBlastRadius), 100) = 20
  BY DEF Clamp, BlastRadius, MaxBlastRadius
<1>2. Clamp(0, deficit, 100) = deficit
  BY DEF Clamp, Percent
<1> QED
  BY <1>1, <1>2 DEF Score, DefaultWeights, DefaultSum, NoveltyOf

LEMMA SumBound ==
    ASSUME NEW penalty \in Percent, NEW novelty \in {0, 100}, NEW deficit \in Percent,
           Balanced(penalty, deficit)
    PROVE  DefaultSum(penalty, novelty, deficit) \in DefaultRange
  BY DEF Clamp, DefaultSum, Balanced, Percent, DefaultRange

LEMMA LowRisk == ASSUME NEW risk \in DefaultRange PROVE ThresholdLevel(risk) \notin Gated
  BY DEF ThresholdLevel, Gated, DefaultRange

(* The penalty and the deficit of a severity: never both high. *)
LEMMA SeverityTable ==
    ASSUME NEW severity \in Severity
    PROVE  LET rev == ReversibilityFor(AdaptationTypeFor(severity))
           IN /\ rev \in Reversibility
              /\ ReversibilityPenalty[rev] \in Percent
              /\ 100 - Benefit[severity] \in Percent
              /\ Balanced(ReversibilityPenalty[rev], 100 - Benefit[severity])
<1>1. /\ ReversibilityPenalty["fully_reversible"] = 5
      /\ ReversibilityPenalty["partially_reversible"] = 50
      /\ ReversibilityPenalty["destructive"] = 100
  BY DEF ReversibilityPenalty, Reversibility
<1>2. /\ Benefit["informational"] = 5
      /\ Benefit["warning"] = 15
      /\ Benefit["degraded"] = 30
      /\ Benefit["critical"] = 60
      /\ Benefit["catastrophic"] = 90
  BY DEF Benefit, Severity
<1>3. CASE severity \in {"informational", "warning"}
  <2>1. ReversibilityFor(AdaptationTypeFor(severity)) = "fully_reversible"
    BY <1>3 DEF ReversibilityFor, AdaptationTypeFor
  <2> QED
    BY <1>1, <1>2, <1>3, <2>1 DEF Reversibility, Balanced, Percent
<1>4. CASE severity = "degraded"
  <2>1. ReversibilityFor(AdaptationTypeFor(severity)) = "partially_reversible"
    BY <1>4 DEF ReversibilityFor, AdaptationTypeFor
  <2> QED
    BY <1>1, <1>2, <1>4, <2>1 DEF Reversibility, Balanced, Percent
<1>5. CASE severity \in {"critical", "catastrophic"}
  <2>1. ReversibilityFor(AdaptationTypeFor(severity)) = "destructive"
    BY <1>5 DEF ReversibilityFor, AdaptationTypeFor
  <2> QED
    BY <1>1, <1>2, <1>5, <2>1 DEF Reversibility, Balanced, Percent
<1> QED
  BY <1>3, <1>4, <1>5 DEF Severity

(* Built with the default weights, the planner asks nobody: whatever the analysis says of
   a cluster, its plan scores below L3, so the gates of loop and executor never close. *)
THEOREM DefaultPlannerAsksNobody ==
    \A c : Plannable(c) => ThresholdLevel(RiskOf(DefaultWeights, c)) \notin Gated
<1> SUFFICES ASSUME NEW c, Plannable(c)
             PROVE  ThresholdLevel(RiskOf(DefaultWeights, c)) \notin Gated
  OBVIOUS
<1> DEFINE rev == ReversibilityFor(AdaptationTypeFor(c.severity))
           deficit == 100 - Benefit[c.severity]
           novelty == NoveltyOf(c.candidate)
<1>1. /\ rev \in Reversibility
      /\ ReversibilityPenalty[rev] \in Percent
      /\ deficit \in Percent
      /\ Balanced(ReversibilityPenalty[rev], deficit)
  BY SeverityTable DEF Plannable
<1>2. novelty \in {0, 100}
  BY DEF NoveltyOf
<1>3. RiskOf(DefaultWeights, c) =
          DefaultSum(ReversibilityPenalty[rev], novelty, deficit)
  <2>1. RiskOf(DefaultWeights, c) =
            Score(DefaultWeights, rev, BlastRadius, c.candidate, FALSE, deficit)
    BY DEF RiskOf
  <2>2. c.candidate \in BOOLEAN
    BY DEF Plannable
  <2> HIDE DEF rev, deficit
  <2> QED
    BY <1>1, <2>1, <2>2, DefaultScore
<1> DEFINE penalty == ReversibilityPenalty[rev]
           risk == RiskOf(DefaultWeights, c)
<1> HIDE DEF rev, deficit, novelty
<1>4. penalty \in Percent /\ Balanced(penalty, deficit)
  BY <1>1
<1>5. risk = DefaultSum(penalty, novelty, deficit)
  BY <1>3
<1> HIDE DEF penalty, risk
<1>6. risk \in DefaultRange
  BY <1>1, <1>2, <1>4, <1>5, SumBound
<1>7. ThresholdLevel(risk) \notin Gated
  BY <1>6, LowRisk
<1> QED
  BY <1>7 DEF risk

LEMMA WeightedMonotone ==
    ASSUME NEW w \in Nat, NEW x \in Int, NEW y \in Int, x <= y
    PROVE  w * x <= w * y
  BY SMTT(30)

LEMMA LevelGrows ==
    ASSUME NEW x \in Int, NEW y \in Int, x <= y
    PROVE  /\ ThresholdLevel(x) \in Gated => ThresholdLevel(y) \in Gated
           /\ ThresholdLevel(y) \in {"L0", "L1"} => ThresholdLevel(x) \in {"L0", "L1"}
  BY DEF ThresholdLevel, Gated

(* With weights that are not negative, a change that is as bad in every respect as
   another never scores below it: it needs a human if the other does, and is not left to
   run through a silence of oversight, as L0 and L1 are, unless the other is. *)
THEOREM WorseIsNoSafer ==
    ASSUME NEW w \in Weighting, \A f \in Factor : w[f] >= 0,
           NEW rev1 \in Reversibility, NEW rev2 \in Reversibility,
           ReversibilityPenalty[rev1] <= ReversibilityPenalty[rev2],
           NEW blast1 \in Nat, NEW blast2 \in Nat, blast1 <= blast2,
           NEW novel1 \in BOOLEAN, NEW novel2 \in BOOLEAN, novel1 => novel2,
           NEW safety1 \in BOOLEAN, NEW safety2 \in BOOLEAN, safety1 => safety2,
           NEW deficit1 \in Int, NEW deficit2 \in Int, deficit1 <= deficit2
    PROVE  LET one == Score(w, rev1, blast1, novel1, safety1, deficit1)
               other == Score(w, rev2, blast2, novel2, safety2, deficit2)
           IN /\ one <= other
              /\ ThresholdLevel(one) \in Gated => ThresholdLevel(other) \in Gated
              /\ ThresholdLevel(other) \in {"L0", "L1"} => ThresholdLevel(one) \in {"L0", "L1"}
<1> DEFINE one == Score(w, rev1, blast1, novel1, safety1, deficit1)
           other == Score(w, rev2, blast2, novel2, safety2, deficit2)
           share(blast) == Clamp(0, blast * (100 \div MaxBlastRadius), 100)
           part(flag) == IF flag THEN 100 ELSE 0
<1>1. /\ w.reversibility \in Nat /\ w.blastRadius \in Nat /\ w.novelty \in Nat
      /\ w.safety \in Nat /\ w.confidence \in Nat
  BY DEF Weighting, Factor
<1>2. PICK r1, r2 \in Int : /\ r1 = ReversibilityPenalty[rev1] /\ r2 = ReversibilityPenalty[rev2]
                            /\ r1 <= r2
  BY DEF ReversibilityPenalty, Reversibility
<1>3. PICK b1, b2 \in Int : b1 = share(blast1) /\ b2 = share(blast2) /\ b1 <= b2
  BY DEF Clamp, MaxBlastRadius
<1>4. PICK n1, n2 \in Int : n1 = part(novel1) /\ n2 = part(novel2) /\ n1 <= n2
  OBVIOUS
<1>5. PICK s1, s2 \in Int : s1 = part(safety1) /\ s2 = part(safety2) /\ s1 <= s2
  OBVIOUS
<1>6. PICK d1, d2 \in Int : /\ d1 = Clamp(0, deficit1, 100) /\ d2 = Clamp(0, deficit2, 100)
                            /\ d1 <= d2
  BY DEF Clamp
<1> HIDE DEF share, part
<1> DEFINE sum1 == w.reversibility * r1 + w.blastRadius * b1 + w.novelty * n1
                     + w.safety * s1 + w.confidence * d1
           sum2 == w.reversibility * r2 + w.blastRadius * b2 + w.novelty * n2
                     + w.safety * s2 + w.confidence * d2
<1>7. one = Clamp(0, sum1, 10000) /\ other = Clamp(0, sum2, 10000)
  BY <1>2, <1>3, <1>4, <1>5, <1>6 DEF Score, share, part
<1>8. sum1 \in Int /\ sum2 \in Int /\ sum1 <= sum2
  <2>1. /\ w.reversibility * r1 <= w.reversibility * r2 /\ w.blastRadius * b1 <= w.blastRadius * b2
        /\ w.novelty * n1 <= w.novelty * n2 /\ w.safety * s1 <= w.safety * s2
        /\ w.confidence * d1 <= w.confidence * d2
    BY <1>1, <1>2, <1>3, <1>4, <1>5, <1>6, WeightedMonotone
  <2>2. /\ w.reversibility * r1 \in Int /\ w.blastRadius * b1 \in Int /\ w.novelty * n1 \in Int
        /\ w.safety * s1 \in Int /\ w.confidence * d1 \in Int
    BY <1>1, <1>2, <1>3, <1>4, <1>5, <1>6
  <2>3. /\ w.reversibility * r2 \in Int /\ w.blastRadius * b2 \in Int /\ w.novelty * n2 \in Int
        /\ w.safety * s2 \in Int /\ w.confidence * d2 \in Int
    BY <1>1, <1>2, <1>3, <1>4, <1>5, <1>6
  <2> QED
    BY <2>1, <2>2, <2>3
<1> HIDE DEF sum1, sum2, one, other
<1>9. one \in Int /\ other \in Int /\ one <= other
  BY <1>7, <1>8 DEF Clamp
<1> QED
  BY <1>9, LevelGrows DEF one, other

(* Whatever the weights: a plan is a plan. *)
LEMMA RiskIsBounded ==
    ASSUME NEW w \in Weighting, NEW c \in Cluster
    PROVE  RiskOf(w, c) \in 0 .. 10000
<1> DEFINE rev == ReversibilityFor(AdaptationTypeFor(c.severity))
           blast == Clamp(0, BlastRadius * (100 \div MaxBlastRadius), 100)
           novel == IF c.candidate THEN 100 ELSE 0
           deficit == Clamp(0, 100 - Benefit[c.severity], 100)
<1>1. /\ w.reversibility \in Int /\ w.blastRadius \in Int /\ w.novelty \in Int
      /\ w.safety \in Int /\ w.confidence \in Int
  BY DEF Weighting, Factor
<1>2. ReversibilityPenalty[rev] \in Int /\ 100 - Benefit[c.severity] \in Int
  BY SeverityTable DEF Cluster, Percent
<1>3. blast \in Int /\ novel \in Int /\ deficit \in Int
  BY <1>2 DEF Clamp, BlastRadius, MaxBlastRadius
<1>4. RiskOf(w, c) = Clamp(0, w.reversibility * ReversibilityPenalty[rev] + w.blastRadius * blast
                                 + w.novelty * novel + w.safety * 0 + w.confidence * deficit, 10000)
  BY DEF RiskOf, Score
<1> HIDE DEF rev, blast, novel, deficit
<1>5. PICK penalty \in Int : penalty = ReversibilityPenalty[rev]
  BY <1>2
<1>6. PICK sum \in Int : sum = w.reversibility * penalty + w.blastRadius * blast
                                + w.novelty * novel + w.safety * 0 + w.confidence * deficit
  BY <1>1, <1>3, <1>5
<1>7. RiskOf(w, c) = Clamp(0, sum, 10000)
  BY <1>4, <1>5, <1>6
<1> QED
  BY <1>7 DEF Clamp

LEMMA PlanIsTyped ==
    ASSUME NEW c \in Cluster
    PROVE  /\ PlanFor(c) \in Plan
           /\ PlanFor(c).cluster = c
           /\ PlanFor(c).requiresApproval = (ThresholdLevel(PlanFor(c).risk) \in Gated)
<1>1. RiskOf(Weights, c) \in 0 .. 10000
  BY PlannerAssumption, RiskIsBounded
<1>2. c.severity \in Severity
  BY DEF Cluster
<1>3. Benefit[c.severity] \in 0 .. 100
  BY <1>2 DEF Benefit, Severity
<1> QED
  BY <1>1, <1>3 DEF PlanFor, Plan

LEMMA ProductMonotone ==
    ASSUME NEW x \in Int, NEW y \in Int, NEW z \in Nat \ {0}
    PROVE  (x >= y <=> x * z >= y * z) /\ (x > y <=> x * z > y * z)
  BY SMTT(30)

(* Ratios a/b, c/d and e/f that fall: the comparison of products is transitive. *)
LEMMA RatioTransitive ==
    ASSUME NEW a \in Nat, NEW c \in Nat, NEW e \in Nat,
           NEW b \in Nat \ {0}, NEW d \in Nat \ {0}, NEW f \in Nat \ {0},
           a * d >= c * b, c * f >= e * d
    PROVE  a * f >= e * b /\ (a * d > c * b \/ c * f > e * d => a * f > e * b)
<1>1. (a * d) * f >= (c * b) * f /\ (a * d > c * b => (a * d) * f > (c * b) * f)
  BY ProductMonotone
<1>2. (c * f) * b >= (e * d) * b /\ (c * f > e * d => (c * f) * b > (e * d) * b)
  BY ProductMonotone
<1>3. (a * d) * f = (a * f) * d /\ (c * b) * f = (c * f) * b /\ (e * d) * b = (e * b) * d
  OBVIOUS
<1>4. /\ (a * f) * d >= (e * b) * d
      /\ a * d > c * b \/ c * f > e * d => (a * f) * d > (e * b) * d
  BY <1>1, <1>2, <1>3
<1>5. a * f \in Int /\ e * b \in Int
  OBVIOUS
<1> QED
  BY <1>4, <1>5, ProductMonotone

LEMMA PlanNumbers ==
    ASSUME NEW p \in Plan
    PROVE  p.benefit \in Nat /\ 10000 + p.risk \in Nat \ {0}
<1>1. p.benefit \in 0 .. 100 /\ p.risk \in 0 .. 10000
  BY DEF Plan
<1>2. PICK r \in 0 .. 10000 : r = p.risk
  BY <1>1
<1>3. 10000 + r \in Nat \ {0}
  OBVIOUS
<1> QED
  BY <1>1, <1>2, <1>3

LEMMA UtilityTransitive ==
    ASSUME NEW p \in Plan, NEW q \in Plan, NEW r \in Plan, ~MoreUseful(q, p), ~MoreUseful(r, q)
    PROVE  ~MoreUseful(r, p) /\ (MoreUseful(p, q) \/ MoreUseful(q, r) => MoreUseful(p, r))
<1>1. PICK a \in Nat, c \in Nat, e \in Nat : a = p.benefit /\ c = q.benefit /\ e = r.benefit
  BY PlanNumbers
<1>2. PICK b \in Nat \ {0}, d \in Nat \ {0}, f \in Nat \ {0} :
          b = 10000 + p.risk /\ d = 10000 + q.risk /\ f = 10000 + r.risk
  BY PlanNumbers
<1>3. /\ MoreUseful(p, q) <=> a * d > c * b
      /\ MoreUseful(q, p) <=> c * b > a * d
      /\ MoreUseful(q, r) <=> c * f > e * d
      /\ MoreUseful(r, q) <=> e * d > c * f
      /\ MoreUseful(p, r) <=> a * f > e * b
      /\ MoreUseful(r, p) <=> e * b > a * f
  BY <1>1, <1>2 DEF MoreUseful
<1>4. /\ a * d \in Int /\ c * b \in Int /\ c * f \in Int
      /\ e * d \in Int /\ a * f \in Int /\ e * b \in Int
  OBVIOUS
<1>5. a * d >= c * b /\ c * f >= e * d
  BY <1>3, <1>4
<1>6. a * f >= e * b /\ (a * d > c * b \/ c * f > e * d => a * f > e * b)
  BY <1>5, RatioTransitive
<1> QED
  BY <1>3, <1>4, <1>6

LEMMA UtilityAsymmetric ==
    ASSUME NEW p \in Plan, NEW q \in Plan
    PROVE  ~(MoreUseful(p, q) /\ MoreUseful(q, p))
<1>1. PICK a \in Nat, c \in Nat, b \in Nat, d \in Nat :
          a = p.benefit /\ c = q.benefit /\ b = 10000 + p.risk /\ d = 10000 + q.risk
  <2>1. p.benefit \in Nat /\ q.benefit \in Nat /\ 10000 + p.risk \in Nat /\ 10000 + q.risk \in Nat
    BY PlanNumbers
  <2> QED
    BY <2>1
<1>2. a * d \in Int /\ c * b \in Int
  OBVIOUS
<1> QED
  BY <1>1, <1>2 DEF MoreUseful

RankPairs(clusters) ==
    {p \in (DOMAIN clusters) \X (DOMAIN clusters) : RanksBefore(clusters, p[1], p[2])}

LEMMA ClustersHavePlans ==
    ASSUME NEW clusters \in Seq(Cluster)
    PROVE  /\ Len(clusters) \in Nat /\ DOMAIN clusters = 1 .. Len(clusters)
           /\ IsFiniteSet(DOMAIN clusters) /\ Cardinality(DOMAIN clusters) = Len(clusters)
           /\ \A i \in DOMAIN clusters : clusters[i] \in Cluster /\ PlanFor(clusters[i]) \in Plan
<1>1. PICK n \in Nat : n = Len(clusters) /\ DOMAIN clusters = 1 .. n
  BY LenProperties
<1>2. IsFiniteSet(1 .. n) /\ Cardinality(1 .. n) = IF 1 > n THEN 0 ELSE n - 1 + 1
  BY FS_Interval
<1>3. Cardinality(1 .. n) = n
  BY <1>2
<1>4. \A i \in 1 .. n : clusters[i] \in Cluster
  BY <1>1, ElementOfSeq
<1> QED
  BY <1>1, <1>2, <1>3, <1>4, PlanIsTyped

LEMMA RanksAreStrict ==
    ASSUME NEW clusters \in Seq(Cluster)
    PROVE  StrictlyOrders(RankPairs(clusters), DOMAIN clusters)
<1> DEFINE D == DOMAIN clusters
           P(i) == PlanFor(clusters[i])
<1>1. \A i \in D : P(i) \in Plan /\ i \in Int
  BY ClustersHavePlans
<1>2. \A i, j \in D : <<i, j>> \in RankPairs(clusters) <=>
          MoreUseful(P(i), P(j)) \/ (~MoreUseful(P(j), P(i)) /\ i < j)
  BY DEF RankPairs, RanksBefore
<1>3. \A i, j \in D : ~(MoreUseful(P(i), P(j)) /\ MoreUseful(P(j), P(i)))
  BY <1>1, UtilityAsymmetric
<1>4. \A i, j, k \in D : ~MoreUseful(P(j), P(i)) /\ ~MoreUseful(P(k), P(j)) =>
          /\ ~MoreUseful(P(k), P(i))
          /\ MoreUseful(P(i), P(j)) \/ MoreUseful(P(j), P(k)) => MoreUseful(P(i), P(k))
  BY <1>1, UtilityTransitive
<1> HIDE DEF D, P
<1>5. ASSUME NEW i \in D PROVE <<i, i>> \notin RankPairs(clusters)
  BY <1>1, <1>2, <1>3
<1>6. ASSUME NEW i \in D, NEW j \in D, NEW k \in D,
             <<i, j>> \in RankPairs(clusters), <<j, k>> \in RankPairs(clusters)
      PROVE  <<i, k>> \in RankPairs(clusters)
  <2>1. ~MoreUseful(P(j), P(i)) /\ ~MoreUseful(P(k), P(j))
    BY <1>2, <1>3, <1>6
  <2>2. CASE MoreUseful(P(i), P(j)) \/ MoreUseful(P(j), P(k))
    BY <1>2, <1>4, <2>1, <2>2
  <2>3. CASE i < j /\ j < k
    <3>1. i < k
      BY <1>1, <2>3
    <3> QED
      BY <1>2, <1>4, <2>1, <3>1
  <2> QED
    BY <1>2, <1>6, <2>2, <2>3
<1>7. ASSUME NEW i \in D, NEW j \in D
      PROVE  i = j \/ <<i, j>> \in RankPairs(clusters) \/ <<j, i>> \in RankPairs(clusters)
  <2>1. i = j \/ i < j \/ j < i
    BY <1>1
  <2> QED
    BY <1>2, <2>1
<1> QED
  BY <1>5, <1>6, <1>7 DEF StrictlyOrders, D

LEMMA RankingIsOrdered ==
    ASSUME NEW clusters \in Seq(Cluster)
    PROVE  Ordered(Ranking(clusters), RankPairs(clusters), DOMAIN clusters)
<1> DEFINE D == DOMAIN clusters
           R == RankPairs(clusters)
<1>1. StrictlyOrders(R, D) /\ IsFiniteSet(D)
  BY RanksAreStrict, ClustersHavePlans
<1>2. \A x \in D : {y \in D : RanksBefore(clusters, y, x)} = Below(R, D, x)
  BY DEF RankPairs, Below
<1>3. \A x \in D :
          Cardinality({y \in D : RanksBefore(clusters, y, x)}) = Cardinality(Below(R, D, x))
  BY <1>2
<1>4. Ranking(clusters) =
          [k \in 1 .. Cardinality(D) |->
              CHOOSE x \in D : Cardinality({y \in D : RanksBefore(clusters, y, x)}) = k - 1]
  BY DEF Ranking, InOrder, Ahead
<1> HIDE DEF R, D
<1>5. Chosen(Ranking(clusters), R, D)
  BY <1>3, <1>4 DEF Chosen
<1> QED
  BY <1>1, <1>5, OrderIsComplete DEF D, R

(* The places of the clusters in the order of their plans. *)
RankedBy(order, clusters) ==
    /\ order \in Bijection(DOMAIN clusters, DOMAIN clusters)
    /\ \A k \in DOMAIN clusters : Plans(clusters)[k] = PlanFor(clusters[order[k]])
    /\ \A j, k \in DOMAIN clusters : j < k =>
          /\ ~MoreUseful(Plans(clusters)[k], Plans(clusters)[j])
          /\ MoreUseful(Plans(clusters)[j], Plans(clusters)[k]) \/ order[j] < order[k]

LEMMA PlansAreRankedBy ==
    ASSUME NEW clusters \in Seq(Cluster)
    PROVE  RankedBy(Ranking(clusters), clusters)
<1> DEFINE D == DOMAIN clusters
           R == RankPairs(clusters)
<1>1. PICK order : order = Ranking(clusters)
  OBVIOUS
<1>2. PICK n \in Nat : /\ n = Len(clusters) /\ n = Cardinality(D) /\ D = 1 .. n
                       /\ \A i \in D : PlanFor(clusters[i]) \in Plan
  BY ClustersHavePlans
<1>3. Ordered(order, R, D)
  BY <1>1, RankingIsOrdered
<1>4. /\ order \in [D -> D]
      /\ \A x \in D : \E k \in D : order[k] = x
      /\ \A j, k \in D : j < k => <<order[j], order[k]>> \in R
  BY <1>2, <1>3 DEF Ordered
<1>5. \A i, j \in D : <<i, j>> \in R =>
          \/ MoreUseful(PlanFor(clusters[i]), PlanFor(clusters[j]))
          \/ ~MoreUseful(PlanFor(clusters[j]), PlanFor(clusters[i])) /\ i < j
  BY DEF RankPairs, RanksBefore
<1>6. \A k \in D : Plans(clusters)[k] = PlanFor(clusters[order[k]])
  BY <1>1 DEF Plans
<1>7. \A i \in D : <<i, i>> \notin R
  BY RanksAreStrict DEF StrictlyOrders
<1> HIDE DEF R
<1>8. order \in Bijection(D, D)
  <2>1. order \in Surjection(D, D)
    BY <1>4 DEF Surjection
  <2>2. ASSUME NEW j \in D, NEW k \in D, order[j] = order[k] PROVE j = k
    <3>1. order[k] \in D
      BY <1>4
    <3>2. ~(j < k) /\ ~(k < j)
      BY <1>4, <1>7, <2>2, <3>1
    <3> QED
      BY <1>2, <3>2
  <2>3. order \in Injection(D, D)
    BY <1>4, <2>2 DEF Injection, IsInjective
  <2> QED
    BY <2>1, <2>3 DEF Bijection
<1>9. ASSUME NEW j \in D, NEW k \in D, j < k
      PROVE  /\ ~MoreUseful(Plans(clusters)[k], Plans(clusters)[j])
             /\ MoreUseful(Plans(clusters)[j], Plans(clusters)[k]) \/ order[j] < order[k]
  <2>1. <<order[j], order[k]>> \in R /\ order[j] \in D /\ order[k] \in D
    BY <1>4, <1>9
  <2> QED
    BY <1>2, <1>5, <1>6, <2>1, UtilityAsymmetric
<1> QED
  BY <1>1, <1>6, <1>8, <1>9 DEF RankedBy

(* Whatever the clusters and the weights: each cluster is planned for just once, no plan
   is more useful than one before it, and of equally useful ones the cluster that comes
   first in the report is planned for first. *)
THEOREM PlansAreRanked ==
    \A clusters \in Seq(Cluster) :
        /\ Plans(clusters) \in Seq(Plan) /\ Len(Plans(clusters)) = Len(clusters)
        /\ \E order : RankedBy(order, clusters)
<1> SUFFICES ASSUME NEW clusters \in Seq(Cluster)
             PROVE  /\ Plans(clusters) \in Seq(Plan) /\ Len(Plans(clusters)) = Len(clusters)
                    /\ \E order : RankedBy(order, clusters)
  OBVIOUS
<1>1. PICK n \in Nat : n = Len(clusters) /\ DOMAIN clusters = 1 .. n
  BY ClustersHavePlans
<1>2. PICK order : RankedBy(order, clusters)
  BY PlansAreRankedBy
<1>3. \A k \in 1 .. n : order[k] \in 1 .. n /\ Plans(clusters)[k] = PlanFor(clusters[order[k]])
  BY <1>1, <1>2 DEF RankedBy, Bijection, Surjection
<1>4. \A k \in 1 .. n : Plans(clusters)[k] \in Plan
  BY <1>1, <1>3, ClustersHavePlans
<1>5. DOMAIN Plans(clusters) = 1 .. n /\ Plans(clusters) = [k \in 1 .. n |-> Plans(clusters)[k]]
  BY <1>1 DEF Plans
<1>6. Plans(clusters) \in [1 .. n -> Plan]
  BY <1>4, <1>5
<1>7. Plans(clusters) \in Seq(Plan)
  BY <1>6, SeqDef
<1>8. Len(Plans(clusters)) = n
  BY <1>5, FunctionIsSeq
<1> QED
  BY <1>1, <1>2, <1>7, <1>8
=============================================================================
