------------------------ MODULE DashboardReadsProofs ------------------------
(***************************************************************************)
(* What the read endpoints promise, for every set of emails, requests,     *)
(* windows and filters, while the pipeline commits between the SELECTs of  *)
(* one answer.                                                             *)
(*                                                                         *)
(* The argument: what an answer has shown so far stays true of the         *)
(* database until an email moves, because a commit of the pipeline only    *)
(* ever adds to what is stored about an email and leaves a complete one    *)
(* alone.  An email that a walk has not seen is listed behind at least as  *)
(* many newer ones as its pages could show.  And the sizes of disjoint     *)
(* sets sum to the size of their union.                                    *)
(***************************************************************************)
EXTENDS DashboardReads, PipelineEvidenceProofs

-----------------------------------------------------------------------------
(***************************************************************************)
(* The shape of an answer.                                                 *)
(***************************************************************************)

\* What has been shown after each statement; a missing email ends a detail.
Has(statement) == statement \in DOMAIN shown

DetailShape ==
  /\ step \in 0 .. 3
  /\ answered <=> step = 3 \/ (step = 1 /\ ~Has("row"))
  /\ Has("row") => step > 0
  /\ Has("links") <=> step > 1
  /\ Has("pages") <=> step > 2
  /\ step > 1 => Has("row")

SummaryShape ==
  /\ step \in 0 .. 6
  /\ answered <=> step = 6
  /\ Has("total") <=> step > 0
  /\ Has("classes") <=> step > 1
  /\ Has("statuses") <=> step > 2
  /\ Has("early") <=> step > 3
  /\ Has("escalated") <=> step > 4
  /\ Has("average") <=> step > 5

UsageShape ==
  /\ step \in 0 .. 3
  /\ answered <=> step = 3
  /\ Has("stage1") <=> step > 0
  /\ Has("stage3") <=> step > 1
  /\ Has("saved") <=> step > 2

WalkShape ==
  /\ step = 0 => ~answered
  /\ Has("seen") <=> step > 0

\* ReadsTypeOK, and what each read asks for.
Shape ==
  /\ ReadsTypeOK
  /\ kind = "none" => /\ step = 0 /\ DOMAIN shown = {} /\ ~answered
                      /\ moved = {} /\ kept = {}
  /\ kind = "detail" => about \in Emails /\ DetailShape
  /\ kind = "summary" => about \in Windows /\ SummaryShape
  /\ kind = "usage" => about \in Windows /\ UsageShape
  /\ kind = "walk" => about \in Filters /\ WalkShape

-----------------------------------------------------------------------------
(***************************************************************************)
(* Counting.                                                               *)
(***************************************************************************)

\* There are finitely many emails.
LEMMA Finite ==
  ASSUME NEW S \in SUBSET Emails
  PROVE  /\ IsFiniteSet(S)
         /\ Cardinality(S) \in Nat
         /\ Cardinality(S) <= Cardinality(Emails)
         /\ \A T \in SUBSET S : Cardinality(T) <= Cardinality(S)
  BY FiniteAssumption, FS_Subset, FS_CardinalityType

LEMMA QueriedEmails ==
  ASSUME TypeOK
  PROVE  /\ \A w : InWindow(w) \subseteq Emails
         /\ \A f : Matching(f) \subseteq Emails
  BY DEF InWindow, Matching, TypeOK

\* Two disjoint subsets of a set have no more elements than it has.
LEMMA DisjointCounts ==
  ASSUME NEW W \in SUBSET Emails, NEW S \in SUBSET W, NEW T \in SUBSET W,
         S \cap T = {}
  PROVE  Cardinality(S) + Cardinality(T) <= Cardinality(W)
<1>1. IsFiniteSet(S) /\ IsFiniteSet(T) /\ IsFiniteSet(W)
  BY Finite
<1>2. Cardinality(S \cup T)
        = Cardinality(S) + Cardinality(T) - Cardinality(S \cap T)
  BY <1>1, FS_Union
<1>3. Cardinality(S \cap T) = 0
  BY FS_EmptySet
<1>4. Cardinality(S \cup T) <= Cardinality(W)
  BY <1>1, FS_Subset
<1>5. /\ Cardinality(S) \in Nat /\ Cardinality(T) \in Nat
      /\ Cardinality(W) \in Nat
  BY Finite
<1>6. QED
  BY <1>2, <1>3, <1>4, <1>5

-----------------------------------------------------------------------------
(***************************************************************************)
(* Reads change nothing but the answer.                                    *)
(***************************************************************************)
Query == \/ \E e \in Emails : AskDetail(e)
         \/ \E w \in Windows : AskSummary(w) \/ AskUsage(w)
         \/ \E f \in Filters : StartWalk(f)
         \/ Select
         \/ FetchPage
         \/ Close

LEMMA QueryFrame ==
  ASSUME Query
  PROVE  UNCHANGED vars
  BY DEF Query, AskDetail, AskSummary, AskUsage, StartWalk, Ask, Select,
    FetchPage, Close

LEMMA ReadsAreSteps == [NextReads]_allVars => [Next]_vars
<1>1. Write => Next
  BY DEF Write
<1>2. UNCHANGED allVars => UNCHANGED vars
  BY DEF allVars
<1>3. QED
  BY <1>1, <1>2, QueryFrame DEF NextReads, Query

\* A step that is neither a commit nor a SELECT leaves the read alone.
LEMMA WriteFrame ==
  ASSUME Write \/ UNCHANGED allVars
  PROVE  /\ UNCHANGED <<kind, about, step, shown, answered>>
         /\ moved \subseteq moved'
         /\ [Next]_vars
  BY DEF Write, allVars, readVars

\* A SELECT adds its result to the answer.
Adds(statement, result) ==
  /\ DOMAIN shown' = DOMAIN shown \cup {statement}
  /\ shown'[statement] = result
  /\ \A s \in DOMAIN shown \ {statement} : shown'[s] = shown[s]

-----------------------------------------------------------------------------
(***************************************************************************)
(* The SELECTs of each answer, spelled out.                                *)
(***************************************************************************)
LEMMA SelectStep ==
  ASSUME Select, NEW n \in Nat, step = n
  PROVE  /\ UNCHANGED <<vars, kind, about, moved, kept>>
         /\ step' = n + 1
         /\ answered' \in BOOLEAN
         /\ LET statement == Statements[kind][n + 1]
                missing   == statement = "row" /\ about \notin stored
            IN  /\ missing => shown' = shown
                /\ ~missing => Adds(statement, Result(statement))
                /\ answered' <=> missing \/ n + 1 = Len(Statements[kind])
  BY DEF Select, Show, Adds

LEMMA DetailSelect ==
  ASSUME Shape, Select, kind = "detail"
  PROVE  /\ UNCHANGED <<vars, kind, about, moved, kept>>
         /\ step' = step + 1
         /\ answered' \in BOOLEAN
         /\ \/ step = 0 /\ about \notin stored /\ shown' = shown /\ answered'
            \/ step = 0 /\ about \in stored /\ Adds("row", row[about])
               /\ ~answered'
            \/ step = 1 /\ Adds("links", LinksOf(about)) /\ ~answered'
            \/ step = 2 /\ Adds("pages", PagesOf(shown["links"])) /\ answered'
<1>1. ~answered /\ step \in {0, 1, 2}
  BY DEF Shape, DetailShape, Select
<1>2. Statements["detail"] = <<"row", "links", "pages">>
  BY DEF Statements
<1>3. CASE step = 0
  <2>1. Result("row") = row[about]
    BY DEF Result
  <2>2. Statements[kind][0 + 1] = "row" /\ Len(Statements[kind]) = 3
    BY <1>2
  <2>3. QED
    BY <1>3, <2>1, <2>2, SelectStep
<1>4. CASE step = 1
  <2>1. Result("links") = LinksOf(about)
    BY DEF Result
  <2>2. Statements[kind][1 + 1] = "links" /\ Len(Statements[kind]) = 3
    BY <1>2
  <2>3. QED
    BY <1>4, <2>1, <2>2, SelectStep
<1>5. CASE step = 2
  <2>1. Result("pages") = PagesOf(shown["links"])
    BY DEF Result
  <2>2. Statements[kind][2 + 1] = "pages" /\ Len(Statements[kind]) = 3
    BY <1>2
  <2>3. QED
    BY <1>5, <2>1, <2>2, SelectStep
<1>6. QED
  BY <1>1, <1>3, <1>4, <1>5

LEMMA SummarySelect ==
  ASSUME Shape, Select, kind = "summary"
  PROVE  /\ UNCHANGED <<vars, kind, about, moved, kept>>
         /\ step' = step + 1
         /\ answered' \in BOOLEAN
         /\ answered' <=> step = 5
         /\ \/ step = 0 /\ Adds("total", Cardinality(InWindow(about)))
            \/ step = 1 /\ Adds("classes", ClassificationCounts(about))
            \/ step = 2 /\ Adds("statuses", PipelineStatusCounts(about))
            \/ step = 3 /\ Adds("early", EarlyExits(about))
            \/ step = 4 /\ Adds("escalated", Escalations(about))
            \/ step = 5 /\ Adds("average", AverageIsNull(about))
<1>1. ~answered /\ step \in {0, 1, 2, 3, 4, 5}
  BY DEF Shape, SummaryShape, Select
<1>2. Statements["summary"]
        = <<"total", "classes", "statuses", "early", "escalated", "average">>
  BY DEF Statements
<1>3. CASE step = 0
  <2>1. Result("total") = Cardinality(InWindow(about))
    BY DEF Result
  <2>2. Statements[kind][0 + 1] = "total" /\ Len(Statements[kind]) = 6
    BY <1>2
  <2>3. QED
    BY <1>3, <2>1, <2>2, SelectStep
<1>4. CASE step = 1
  <2>1. Result("classes") = ClassificationCounts(about)
    BY DEF Result
  <2>2. Statements[kind][1 + 1] = "classes" /\ Len(Statements[kind]) = 6
    BY <1>2
  <2>3. QED
    BY <1>4, <2>1, <2>2, SelectStep
<1>5. CASE step = 2
  <2>1. Result("statuses") = PipelineStatusCounts(about)
    BY DEF Result
  <2>2. Statements[kind][2 + 1] = "statuses" /\ Len(Statements[kind]) = 6
    BY <1>2
  <2>3. QED
    BY <1>5, <2>1, <2>2, SelectStep
<1>6. CASE step = 3
  <2>1. Result("early") = EarlyExits(about)
    BY DEF Result
  <2>2. Statements[kind][3 + 1] = "early" /\ Len(Statements[kind]) = 6
    BY <1>2
  <2>3. QED
    BY <1>6, <2>1, <2>2, SelectStep
<1>7. CASE step = 4
  <2>1. Result("escalated") = Escalations(about)
    BY DEF Result
  <2>2. Statements[kind][4 + 1] = "escalated" /\ Len(Statements[kind]) = 6
    BY <1>2
  <2>3. QED
    BY <1>7, <2>1, <2>2, SelectStep
<1>8. CASE step = 5
  <2>1. Result("average") = AverageIsNull(about)
    BY DEF Result
  <2>2. Statements[kind][5 + 1] = "average" /\ Len(Statements[kind]) = 6
    BY <1>2
  <2>3. QED
    BY <1>8, <2>1, <2>2, SelectStep
<1>9. QED
  BY <1>1, <1>3, <1>4, <1>5, <1>6, <1>7, <1>8

LEMMA UsageSelect ==
  ASSUME Shape, Select, kind = "usage"
  PROVE  /\ UNCHANGED <<vars, kind, about, moved, kept>>
         /\ step' = step + 1
         /\ answered' \in BOOLEAN
         /\ answered' <=> step = 2
         /\ \/ step = 0 /\ Adds("stage1", Stage1Count(about))
            \/ step = 1 /\ Adds("stage3", Stage3Count(about))
            \/ step = 2 /\ Adds("saved", EarlyExits(about))
<1>1. ~answered /\ step \in {0, 1, 2}
  BY DEF Shape, UsageShape, Select
<1>2. Statements["usage"] = <<"stage1", "stage3", "saved">>
  BY DEF Statements
<1>3. CASE step = 0
  <2>1. Result("stage1") = Stage1Count(about)
    BY DEF Result
  <2>2. Statements[kind][0 + 1] = "stage1" /\ Len(Statements[kind]) = 3
    BY <1>2
  <2>3. QED
    BY <1>3, <2>1, <2>2, SelectStep
<1>4. CASE step = 1
  <2>1. Result("stage3") = Stage3Count(about)
    BY DEF Result
  <2>2. Statements[kind][1 + 1] = "stage3" /\ Len(Statements[kind]) = 3
    BY <1>2
  <2>3. QED
    BY <1>4, <2>1, <2>2, SelectStep
<1>5. CASE step = 2
  <2>1. Result("saved") = EarlyExits(about)
    BY DEF Result
  <2>2. Statements[kind][2 + 1] = "saved" /\ Len(Statements[kind]) = 3
    BY <1>2
  <2>3. QED
    BY <1>5, <2>1, <2>2, SelectStep
<1>6. QED
  BY <1>1, <1>3, <1>4, <1>5

\* Numbers that are shown are counts of stored emails.
Counters == {"total", "early", "escalated", "stage1", "stage3", "saved"}

LEMMA Counted ==
  ASSUME TypeOK, NEW w
  PROVE  /\ Cardinality(InWindow(w)) \in 0 .. Cardinality(Emails)
         /\ EarlyExits(w) \in 0 .. Cardinality(Emails)
         /\ Escalations(w) \in 0 .. Cardinality(Emails)
         /\ Stage1Count(w) \in 0 .. Cardinality(Emails)
         /\ Stage3Count(w) \in 0 .. Cardinality(Emails)
<1>1. \A S \in SUBSET InWindow(w) : Cardinality(S) \in 0 .. Cardinality(Emails)
  BY Finite, QueriedEmails, FS_CardinalityType, FiniteAssumption
<1>2. QED
  BY <1>1 DEF EarlyExits, Escalations, Stage1Count, Stage3Count, Count

\* A SELECT that counts emails, or shows something else, keeps ReadsTypeOK.
Counting(s) ==
  /\ DOMAIN shown' = DOMAIN shown \cup {s}
  /\ \A t \in DOMAIN shown \ {s} : shown'[t] = shown[t]
  /\ s \in Counters => shown'[s] \in 0 .. Cardinality(Emails)

LEMMA CountersKept ==
  ASSUME ReadsTypeOK, UNCHANGED <<kind, about, moved, kept>>,
         step' = step + 1, answered' \in BOOLEAN, NEW s, Counting(s)
  PROVE  ReadsTypeOK'
<1>1. \A t \in DOMAIN shown' \cap Counters :
        shown'[t] \in 0 .. Cardinality(Emails)
  BY DEF ReadsTypeOK, Counters, Counting
<1>2. QED
  BY <1>1 DEF ReadsTypeOK, Counters

LEMMA SelectShape ==
  ASSUME TypeOK, Shape, Select
  PROVE  Shape'
<1>1. kind \in {"detail", "summary", "usage"}
  BY DEF Select, Statements
<1>2. ReadsTypeOK /\ step \in Nat
  BY DEF Shape, ReadsTypeOK
<1>3. /\ UNCHANGED <<kind, about, moved, kept>> /\ step' = step + 1
      /\ answered' \in BOOLEAN
  BY <1>2, SelectStep
<1>4. {"row", "links", "pages", "classes", "statuses", "average"}
        \cap Counters = {}
  BY DEF Counters
<1>5. ASSUME NEW s, Counting(s)
      PROVE  ReadsTypeOK'
  BY <1>2, <1>3, <1>5, CountersKept
<1>6. CASE kind = "detail"
  <2>1. \/ shown' = shown
        \/ Counting("row") \/ Counting("links") \/ Counting("pages")
    BY <1>4, <1>6, DetailSelect DEF Adds, Counting
  <2>2. shown' = shown => ReadsTypeOK'
    BY <1>2, <1>3 DEF ReadsTypeOK
  <2>3. ReadsTypeOK'
    BY <1>5, <2>1, <2>2
  <2>4. DetailShape /\ ~answered
    BY <1>6 DEF Shape, Select
  <2>5. DetailShape'
    BY <1>3, <1>6, <2>4, DetailSelect DEF DetailShape, Adds, Has
  <2>6. QED
    BY <1>3, <1>6, <2>3, <2>5 DEF Shape
<1>7. CASE kind = "summary"
  <2>1. \/ Counting("total") \/ Counting("classes") \/ Counting("statuses")
        \/ Counting("early") \/ Counting("escalated") \/ Counting("average")
    BY <1>4, <1>7, SummarySelect, Counted DEF Adds, Counting
  <2>2. ReadsTypeOK'
    BY <1>5, <2>1
  <2>3. SummaryShape
    BY <1>7 DEF Shape
  <2>4. SummaryShape'
    BY <1>3, <1>7, <2>3, SummarySelect DEF SummaryShape, Adds, Has
  <2>5. QED
    BY <1>3, <1>7, <2>2, <2>4 DEF Shape
<1>8. CASE kind = "usage"
  <2>1. Counting("stage1") \/ Counting("stage3") \/ Counting("saved")
    BY <1>8, UsageSelect, Counted DEF Adds, Counting
  <2>2. ReadsTypeOK'
    BY <1>5, <2>1
  <2>3. UsageShape
    BY <1>8 DEF Shape
  <2>4. UsageShape'
    BY <1>3, <1>8, <2>3, UsageSelect DEF UsageShape, Adds, Has
  <2>5. QED
    BY <1>3, <1>8, <2>2, <2>4 DEF Shape
<1>9. QED
  BY <1>1, <1>6, <1>7, <1>8

LEMMA FetchShape ==
  ASSUME TypeOK, Shape, FetchPage
  PROVE  Shape'
<1>1. /\ kind = "walk" /\ step' = step + 1
      /\ UNCHANGED <<vars, kind, about, moved, kept>>
      /\ answered' \in BOOLEAN
      /\ DOMAIN shown' = DOMAIN shown \cup {"seen"}
      /\ \A t \in DOMAIN shown \ {"seen"} : shown'[t] = shown[t]
  BY DEF FetchPage, Show
<1>2. ReadsTypeOK /\ step \in Nat /\ "seen" \notin Counters
  BY DEF Shape, ReadsTypeOK, Counters
<1>3. ReadsTypeOK'
  BY <1>1, <1>2, CountersKept DEF Counting
<1>4. QED
  BY <1>1, <1>2, <1>3 DEF Shape, WalkShape, Has, Adds

LEMMA AskShape ==
  ASSUME TypeOK, Shape, NEW k, NEW what, NEW matching, Ask(k, what, matching),
         matching \subseteq Emails,
         \/ k = "detail" /\ what \in Emails
         \/ k \in {"summary", "usage"} /\ what \in Windows
         \/ k = "walk" /\ what \in Filters
  PROVE  Shape'
<1>1. /\ UNCHANGED <<vars, step, shown, answered, moved>>
      /\ kind' = k /\ about' = what /\ kept' = matching
      /\ step = 0 /\ DOMAIN shown = {} /\ ~answered
  BY DEF Ask, Shape
<1>2. ReadsTypeOK'
  BY <1>1 DEF Shape, ReadsTypeOK, Kinds
<1>3. DetailShape' /\ SummaryShape' /\ UsageShape' /\ WalkShape'
  BY <1>1 DEF DetailShape, SummaryShape, UsageShape, WalkShape, Has
<1>4. QED
  BY <1>1, <1>2, <1>3 DEF Shape

LEMMA CloseShape ==
  ASSUME Shape, Close
  PROVE  Shape'
<1>1. /\ kind' = "none" /\ about' = NoEmail /\ step' = 0 /\ answered' = FALSE
      /\ moved' = {} /\ kept' = {} /\ DOMAIN shown' = {}
  BY DEF Close
<1>2. QED
  BY <1>1 DEF Shape, ReadsTypeOK, Kinds

LEMMA QueryShape ==
  ASSUME TypeOK, Shape, Query
  PROVE  Shape'
<1>1. CASE \E e \in Emails : AskDetail(e)
  BY <1>1, AskShape DEF AskDetail
<1>2. CASE \E w \in Windows : AskSummary(w) \/ AskUsage(w)
  BY <1>2, AskShape DEF AskSummary, AskUsage
<1>3. CASE \E f \in Filters : StartWalk(f)
  BY <1>3, AskShape, QueriedEmails DEF StartWalk
<1>4. QED
  BY <1>1, <1>2, <1>3, SelectShape, FetchShape, CloseShape DEF Query

LEMMA WriteShape ==
  ASSUME TypeOK, Shape, Write \/ UNCHANGED allVars
  PROVE  Shape'
<1>1. UNCHANGED <<kind, about, step, shown, answered>>
  BY WriteFrame
<1>2. /\ kept' \subseteq kept
      /\ moved' \subseteq Moves
      /\ kind = "none" => moved' = {} /\ kept' = {}
  BY DEF Write, Scope, Moves, allVars, readVars, Shape, ReadsTypeOK
<1>3. ReadsTypeOK'
  BY <1>1, <1>2 DEF Shape, ReadsTypeOK
<1>4. QED
  BY <1>1, <1>2, <1>3
    DEF Shape, DetailShape, SummaryShape, UsageShape, WalkShape, Has

LEMMA ShapeInit == InitReads => TypeOK /\ RequestsMatchTasks /\ Shape
<1> SUFFICES ASSUME InitReads
             PROVE  TypeOK /\ RequestsMatchTasks /\ Shape
  OBVIOUS
<1>1. DOMAIN shown = {}
  BY DEF InitReads
<1>2. Shape
  BY <1>1 DEF InitReads, Shape, ReadsTypeOK, Kinds
<1>3. QED
  BY <1>2, RequestsInit DEF InitReads

LEMMA ShapeNext ==
  TypeOK /\ RequestsMatchTasks /\ Shape /\ [NextReads]_allVars
    => (TypeOK /\ RequestsMatchTasks /\ Shape)'
<1> SUFFICES ASSUME TypeOK, RequestsMatchTasks, Shape, [NextReads]_allVars
             PROVE  (TypeOK /\ RequestsMatchTasks /\ Shape)'
  OBVIOUS
<1>1. [Next]_vars
  BY ReadsAreSteps
<1>2. TypeOK' /\ RequestsMatchTasks'
  BY <1>1, TypeNext, RequestsNext
<1>3. Shape'
  BY QueryShape, WriteShape DEF NextReads, Query
<1>4. QED
  BY <1>2, <1>3

\* ReadsTypeOK: whatever the pipeline commits between the SELECTs of an
\* answer, its numbers are counts of the emails there can be.
THEOREM ReadsTyped == SpecReads => []ReadsTypeOK
<1>1. Shape => ReadsTypeOK
  BY DEF Shape
<1>2. QED
  BY <1>1, ShapeInit, ShapeNext, PTL DEF SpecReads

-----------------------------------------------------------------------------
(***************************************************************************)
(* The walk through the list.                                              *)
(***************************************************************************)

\* The emails that come before e in every listing.
Newer(f, e) == {d \in Matching(f) : ReceivedAt[d] > ReceivedAt[e]}

Seen == IF step = 0 THEN {} ELSE shown["seen"]

\* A listing is sorted and has every email that matches once.
LEMMA ListingFacts ==
  ASSUME TypeOK, NEW f, NEW list \in Listings(f)
  PROVE  LET n == Cardinality(Matching(f))
         IN  /\ n \in Nat /\ Len(list) = n
             /\ list \in [1 .. n -> Matching(f)]
             /\ \A i, j \in 1 .. n : list[i] = list[j] => i = j
             /\ \A e \in Matching(f) : \E i \in 1 .. n : list[i] = e
             /\ \A i, j \in 1 .. n :
                  i < j => ReceivedAt[list[i]] >= ReceivedAt[list[j]]
<1> DEFINE n == Cardinality(Matching(f))
<1>1. IsFiniteSet(Matching(f)) /\ n \in Nat
  BY Finite, QueriedEmails
<1>2. /\ list \in [1 .. n -> Matching(f)]
      /\ \A i, j \in 1 .. n : i # j => list[i] # list[j]
      /\ \A i, j \in DOMAIN list :
           i < j => ReceivedAt[list[i]] >= ReceivedAt[list[j]]
  BY DEF Listings, SetToSeqs
<1>3. Len(list) = n
  BY <1>1, <1>2
<1>4. list \in Injection(1 .. n, Matching(f))
  BY <1>2 DEF Injection, IsInjective
<1>5. Cardinality(1 .. n) = n
  BY <1>1, FS_Interval
<1>6. list \in Surjection(1 .. n, Matching(f))
  BY <1>1, <1>4, <1>5, FS_Injection
<1>7. QED
  BY <1>1, <1>2, <1>3, <1>6 DEF Surjection

\* Its i-th email has exactly i - 1 newer ones.
LEMMA Ranked ==
  ASSUME TypeOK, IsInjective(ReceivedAt), NEW f, NEW list \in Listings(f),
         NEW i \in 1 .. Cardinality(Matching(f))
  PROVE  Cardinality(Newer(f, list[i])) = i - 1
<1> DEFINE n == Cardinality(Matching(f))
           before == [j \in 1 .. (i - 1) |-> list[j]]
<1>1. /\ n \in Nat
      /\ list \in [1 .. n -> Matching(f)]
      /\ \A k, j \in 1 .. n : list[k] = list[j] => k = j
      /\ \A e \in Matching(f) : \E j \in 1 .. n : list[j] = e
      /\ \A k, j \in 1 .. n :
           k < j => ReceivedAt[list[k]] >= ReceivedAt[list[j]]
  BY ListingFacts
<1>2. \A e \in Matching(f) : e \in Emails /\ ReceivedAt[e] \in Nat
  BY QueriedEmails, TimeAssumption
<1>3. \A j \in 1 .. (i - 1) : j \in 1 .. n /\ j < i
  BY <1>1
<1>4. ASSUME NEW j \in 1 .. (i - 1)
      PROVE  list[j] \in Newer(f, list[i])
  <2>1. /\ list[j] \in Matching(f) /\ list[i] \in Matching(f)
        /\ ReceivedAt[list[j]] >= ReceivedAt[list[i]] /\ list[j] # list[i]
    BY <1>1, <1>3
  <2>2. ReceivedAt[list[j]] # ReceivedAt[list[i]]
    BY <1>2, <2>1, TimeAssumption DEF IsInjective
  <2>3. QED
    BY <1>2, <2>1, <2>2 DEF Newer
<1>5. ASSUME NEW d \in Newer(f, list[i])
      PROVE  \E j \in 1 .. (i - 1) : list[j] = d
  <2>1. PICK j \in 1 .. n : list[j] = d
    BY <1>1 DEF Newer
  <2>2. ReceivedAt[list[j]] > ReceivedAt[list[i]]
    BY <2>1 DEF Newer
  <2>3. ReceivedAt[list[j]] \in Nat /\ ReceivedAt[list[i]] \in Nat
    BY <1>1, <1>2
  <2>4. j < i
    <3>1. ~(i < j)
      BY <1>1, <2>2, <2>3
    <3>2. i # j
      BY <2>2, <2>3
    <3>3. QED
      BY <1>1, <3>1, <3>2
  <2>5. QED
    BY <1>1, <2>1, <2>4
<1>6. \A k, j \in 1 .. (i - 1) : before[k] = before[j] => k = j
  BY <1>1, <1>3
<1>7. before \in Bijection(1 .. (i - 1), Newer(f, list[i]))
  BY <1>4, <1>5, <1>6, Fun_IsBij
<1>8. i - 1 \in Int /\ 1 \in Int /\ i - 1 >= 0
  BY <1>1
<1>9. IsFiniteSet(1 .. (i - 1)) /\ Cardinality(1 .. (i - 1)) = i - 1
  BY <1>8, FS_Interval
<1>10. QED
  BY <1>7, <1>9, FS_Bijection DEF ExistsBijection

LEMMA Offsets ==
  ASSUME NEW k \in Nat
  PROVE  /\ k * PageSize \in Nat /\ PageSize \in Nat /\ PageSize > 0
         /\ (k + 1) * PageSize = k * PageSize + PageSize
         /\ Offset(k + 1) = k * PageSize
  BY ListAssumption DEF Offset

LEMMA MinOfTwo ==
  ASSUME NEW a \in Nat, NEW b \in Nat
  PROVE  Min({a, b}) = IF a <= b THEN a ELSE b
<1> DEFINE m == IF a <= b THEN a ELSE b
<1>1. m \in {a, b} /\ \A y \in {a, b} : m <= y
  OBVIOUS
<1>2. \A x \in {a, b} : (\A y \in {a, b} : x <= y) => x = m
  OBVIOUS
<1>3. QED
  BY <1>1, <1>2 DEF Min

\* The page after k pages has the next PageSize emails, if there are so many.
LEMMA PageFacts ==
  ASSUME TypeOK, NEW f, NEW list \in Listings(f), NEW k \in Nat
  PROVE  LET page == PageOf(list, k + 1)
             from == k * PageSize
         IN  /\ \A i \in 1 .. Cardinality(Matching(f)) :
                  (from < i /\ i <= from + PageSize) => list[i] \in ToSet(page)
             /\ Cardinality(Matching(f)) >= from + PageSize =>
                  ~(Len(page) < PageSize)
<1> DEFINE n == Cardinality(Matching(f))
           from == k * PageSize
           last == Min({from + PageSize, n})
           page == PageOf(list, k + 1)
<1>1. /\ n \in Nat /\ list \in [1 .. n -> Matching(f)] /\ Len(list) = n
  BY ListingFacts
<1>2. from \in Nat /\ PageSize \in Nat /\ PageSize > 0
  BY Offsets
<1>3. last = IF from + PageSize <= n THEN from + PageSize ELSE n
  BY <1>1, <1>2, MinOfTwo
<1>4. page = SubSeq(list, from + 1, last)
  BY <1>1, Offsets DEF PageOf
<1> HIDE DEF from, last, n, page
<1>5. page = [i \in 1 .. (last - from) |-> list[from + i]]
  <2>1. SubSeq(list, from + 1, last)
          = [i \in 1 .. (last - (from + 1) + 1) |-> list[(from + 1) + i - 1]]
    BY <1>1, <1>2, <1>3
  <2>2. QED
    BY <1>1, <1>2, <1>3, <1>4, <2>1
<1>6. ASSUME NEW i \in 1 .. n, from < i, i <= from + PageSize
      PROVE  list[i] \in ToSet(page)
  <2>1. i - from \in 1 .. (last - from) /\ from + (i - from) = i
    BY <1>1, <1>2, <1>3, <1>6
  <2>2. page[i - from] = list[i] /\ i - from \in DOMAIN page
    BY <1>5, <2>1
  <2>3. QED
    BY <2>2 DEF ToSet
<1>7. ASSUME n >= from + PageSize
      PROVE  Len(page) = PageSize
  BY <1>1, <1>2, <1>3, <1>5, <1>7
<1>8. QED
  BY <1>2, <1>6, <1>7 DEF from, n, page

\* What keeps the walk complete: an email it has not seen is still listed,
\* behind everything that the pages so far could show.
WalkInv ==
  /\ kind = "walk" => kept \subseteq Matching(about)
  /\ (kind = "walk" /\ Calm({"unlisted"}) /\ IsInjective(ReceivedAt)) =>
       \A e \in kept \ Seen :
         ~answered /\ Cardinality(Newer(about, e)) >= step * PageSize

LEMMA FetchWalk ==
  ASSUME TypeOK, Shape, WalkInv, FetchPage
  PROVE  WalkInv'
<1> USE DEF Calm
<1>1. /\ kind = "walk" /\ step' = step + 1 /\ step \in Nat /\ ~answered
      /\ UNCHANGED <<vars, kind, about, moved, kept>>
  BY DEF FetchPage, Shape, ReadsTypeOK
<1>2. Matching(about)' = Matching(about)
  BY <1>1 DEF Matching, Effective, vars
<1>3. \A e : Newer(about, e)' = Newer(about, e)
  BY <1>1, <1>2 DEF Newer
<1>4. PICK list \in Listings(about) :
         /\ shown'["seen"] = ToSet(PageOf(list, step + 1)) \cup Seen
         /\ answered' <=> Len(PageOf(list, step + 1)) < PageSize
  BY DEF FetchPage, Show, Seen
<1>5. Seen' = ToSet(PageOf(list, step + 1)) \cup Seen
  BY <1>1, <1>4 DEF Seen
<1>6. ASSUME Calm({"unlisted"}), IsInjective(ReceivedAt),
             NEW e \in kept \ Seen'
      PROVE  ~answered' /\ Cardinality(Newer(about, e)) >= (step + 1) * PageSize
  <2> DEFINE n == Cardinality(Matching(about))
             from == step * PageSize
  <2>1. e \in Matching(about) /\ Cardinality(Newer(about, e)) >= from
    BY <1>1, <1>5, <1>6 DEF WalkInv
  <2>2. PICK i \in 1 .. n : list[i] = e
    BY <2>1, ListingFacts
  <2>3. Cardinality(Newer(about, e)) = i - 1 /\ n \in Nat
    BY <1>6, <2>2, Ranked, ListingFacts
  <2>4. /\ from \in Nat /\ PageSize \in Nat
        /\ (step + 1) * PageSize = from + PageSize
    BY <1>1, Offsets
  <2>5. list[i] \notin ToSet(PageOf(list, step + 1))
    BY <1>5, <1>6, <2>2
  <2> HIDE DEF n, from
  <2>6. ~(from < i /\ i <= from + PageSize)
    BY <1>1, <2>2, <2>5, PageFacts DEF n, from
  <2>7. i > from + PageSize
    BY <2>1, <2>2, <2>3, <2>4, <2>6
  <2>8. ~answered'
    <3>1. n >= from + PageSize
      BY <2>2, <2>3, <2>4, <2>7
    <3>2. QED
      BY <1>1, <1>4, <3>1, PageFacts DEF n, from
  <2>9. QED
    BY <2>2, <2>3, <2>4, <2>7, <2>8
<1>7. QED
  BY <1>1, <1>2, <1>3, <1>6 DEF WalkInv

LEMMA WriteWalk ==
  ASSUME TypeOK, TypeOK', Shape, WalkInv, Write \/ UNCHANGED allVars
  PROVE  WalkInv'
<1> USE DEF Calm
<1>1. /\ UNCHANGED <<kind, about, step, shown, answered>>
      /\ moved \subseteq moved'
  BY WriteFrame
<1>2. SUFFICES ASSUME kind = "walk"
               PROVE  WalkInv'
  BY <1>1 DEF WalkInv
<1>3. kept' \subseteq kept /\ kept' \subseteq Matching(about)'
  <2>1. CASE Write
    BY <1>2, <2>1 DEF Write
  <2>2. CASE UNCHANGED allVars
    BY <1>2, <2>2 DEF allVars, vars, readVars, WalkInv, Matching, Effective
  <2>3. QED
    BY <2>1, <2>2
<1>4. "unlisted" \notin moved' => Matching(about) \subseteq Matching(about)'
  <2>1. CASE Write
    BY <1>2, <2>1 DEF Write
  <2>2. CASE UNCHANGED allVars
    BY <2>2 DEF allVars, vars, readVars, Matching, Effective
  <2>3. QED
    BY <2>1, <2>2
<1>5. Seen' = Seen
  BY <1>1 DEF Seen
<1>6. ASSUME "unlisted" \notin moved', IsInjective(ReceivedAt),
             NEW e \in kept' \ Seen'
      PROVE  ~answered' /\ Cardinality(Newer(about, e)') >= step' * PageSize
  <2>1. ~answered /\ Cardinality(Newer(about, e)) >= step * PageSize
    BY <1>1, <1>2, <1>3, <1>5, <1>6 DEF WalkInv
  <2>2. Newer(about, e) \subseteq Newer(about, e)'
    BY <1>1, <1>4, <1>6 DEF Newer
  <2>3. Newer(about, e)' \subseteq Emails
    BY DEF Newer, Matching, TypeOK
  <2>4. /\ Cardinality(Newer(about, e)) \in Nat
        /\ Cardinality(Newer(about, e)') \in Nat
        /\ Cardinality(Newer(about, e)) <= Cardinality(Newer(about, e)')
    BY <2>2, <2>3, Finite
  <2>5. step * PageSize \in Nat
    BY Offsets DEF Shape, ReadsTypeOK
  <2>6. QED
    BY <1>1, <2>1, <2>4, <2>5
<1>7. QED
  BY <1>1, <1>3, <1>6 DEF WalkInv

LEMMA QueryWalk ==
  ASSUME TypeOK, Shape, WalkInv, Query
  PROVE  WalkInv'
<1>1. CASE \E f \in Filters : StartWalk(f)
  <2>1. PICK f \in Filters : StartWalk(f)
    BY <1>1
  <2>2. /\ UNCHANGED vars /\ about' = f /\ kept' = Matching(f)
        /\ step' = 0 /\ ~answered'
    BY <2>1 DEF StartWalk, Ask, Shape
  <2>3. Matching(about)' = Matching(f)
    BY <2>2 DEF Matching, Effective, vars
  <2>4. \A e : Newer(about, e)' = Newer(f, e)
    BY <2>2, <2>3 DEF Newer
  <2>5. \A e : Cardinality(Newer(f, e)) \in Nat
    BY Finite, QueriedEmails DEF Newer
  <2>6. 0 * PageSize = 0
    BY ListAssumption
  <2>7. QED
    BY <2>2, <2>3, <2>4, <2>5, <2>6 DEF WalkInv
<1>2. CASE kind' # "walk"
  BY <1>2 DEF WalkInv
<1>3. CASE FetchPage
  BY <1>3, FetchWalk
<1>4. QED
  BY <1>1, <1>2, <1>3 DEF Query, AskDetail, AskSummary, AskUsage, Ask, Close,
    Select, Statements

\* WalkFindsAll: a client that walks until a page is short has seen every
\* email that matched all the while, although the pipeline shifts the offsets
\* between its pages.
THEOREM WalksFindAll == SpecReads => []WalkFindsAll
<1> DEFINE Inv == TypeOK /\ RequestsMatchTasks /\ Shape /\ WalkInv
<1>1. InitReads => Inv
  BY ShapeInit DEF InitReads, WalkInv
<1>2. Inv /\ [NextReads]_allVars => Inv'
  BY ShapeNext, QueryWalk, WriteWalk DEF NextReads, Query
<1>3. Inv => WalkFindsAll
  <2> SUFFICES ASSUME Inv, Answered("walk"), Calm({"unlisted"}),
                      IsInjective(ReceivedAt)
               PROVE  kept \subseteq shown["seen"]
    BY DEF WalkFindsAll
  <2>1. kind = "walk" /\ answered /\ step # 0
    BY DEF Answered, Shape, WalkShape
  <2>2. QED
    BY <2>1 DEF WalkInv, Seen
<1>4. QED
  BY <1>1, <1>2, <1>3, PTL DEF SpecReads

-----------------------------------------------------------------------------
(***************************************************************************)
(* What a commit of the pipeline does to an email that it neither re-queues *)
(* nor deletes.                                                            *)
(***************************************************************************)

\* The rows agree in all that a run writes.
SameRun(r, s) == /\ r.status = s.status /\ r.stage = s.stage
                 /\ r.class = s.class /\ r.confidence = s.confidence
                 /\ r.linkCount = s.linkCount
                 /\ r.finalClass = s.finalClass /\ r.trigger = s.trigger

\* The run of a complete email stays, and evidence is only ever added.
Keeps(e) ==
  /\ Found(e) # {} => Found(e)' # {}
  /\ row[e].status = "complete" =>
       /\ SameRun(row'[e], row[e])
       /\ LinksOf(e)' = LinksOf(e)
       /\ Found(e)' = Found(e)

LEMMA SameRecordKeeps ==
  ASSUME NEW e, SameRecord(e)
  PROVE  Keeps(e)
  BY DEF SameRecord, Keeps, SameRun

LEMMA TaskKeeps ==
  ASSUME ClientsWait, EvidenceInv, NEW q \in Requests, TaskStep(q),
         NEW e \in Emails
  PROVE  Keeps(e)
<1>1. Live(q)
  BY TaskFrame DEF TaskStep, Live
<1>2. PICK d \in Emails : target[q] = d
  BY <1>1, TaskEmail
<1>3. CASE Open(q)
  BY <1>2, <1>3, StandByEffect, SameRecordKeeps DEF TaskEffect
<1>4. CASE ~Open(q)
  <2>1. Writing(q, d)
    BY <1>1, <1>2, <1>4 DEF Writing
  <2>2. e # d => SameRecord(e)
    BY <2>1, WritingTaskEffect DEF TaskEffect
  <2>3. row[d].status # "complete"
    BY <2>1, WritingFacts
  <2>4. UNCHANGED target /\ links \subseteq links' /\ pages \subseteq pages'
    BY DEF TaskStep, Stage, StageFails, MarkFailedRaises, FindEmail,
      StopWaiting, StartClassification, Classify, StartLinkResolution,
      ResolveLinks, StartPageAnalysis, AnalysePages, StartAggregation,
      StoreVerdict, MarkFailed, SetStage, dbVars, reqVars
  <2>5. Found(d) # {} => Found(d)' # {}
    BY <2>4 DEF Found, PagesOf, LinksOf
  <2>6. QED
    BY <2>2, <2>3, <2>5, SameRecordKeeps DEF Keeps
<1>5. QED
  BY <1>3, <1>4

LEMMA CommitKeeps ==
  ASSUME EvidenceInv, NEW q \in Requests, Commit(q), NEW e \in Emails,
         e \in stored', ~Requeues(e)
  PROVE  Keeps(e)
<1>1. txn[q] = "written" /\ End(q, "committed")
  BY DEF Commit, CommitSubmit, CommitReanalyze, CommitReview, CommitDelete
<1>2. /\ UNCHANGED target /\ txn'[q] = "committed"
      /\ row \in [Emails -> Row]
  BY <1>1, EndFrame DEF EvidenceInv, Basis, TypeOK
<1>3. PICK d \in Emails : target[q] = d
  BY <1>1, EndFrame
<1>4. CASE CommitSubmit(q)
  BY <1>2, <1>4, SameLinks, SameRecordKeeps DEF CommitSubmit, SameRecord
<1>5. CASE CommitReview(q)
  <2>1. LinksOf(e)' = LinksOf(e) /\ Found(e)' = Found(e)
    BY <1>2, <1>5, SameLinks DEF CommitReview
  <2>2. row'[e] = row[e] \/ row'[e] = [row[e] EXCEPT !.review = TRUE]
    BY <1>2, <1>3, <1>5 DEF CommitReview
  <2>3. SameRun(row'[e], row[e])
    BY <1>2, <2>2 DEF SameRun, Row
  <2>4. QED
    BY <2>1, <2>3 DEF Keeps
<1>6. CASE CommitReanalyze(q)
  <2>1. e # d
    BY <1>1, <1>2, <1>3, <1>6 DEF Requeues, CommitReanalyze
  <2>2. \A c \in Emails : c # d => row'[c] = row[c]
    BY <1>2, <1>3, <1>6 DEF CommitReanalyze
  <2>3. doomed[q] = LinksOf(d)
    BY <1>3, <1>6 DEF EvidenceInv, Agreement, RequeuesDropAll, CommitReanalyze
  <2>4. DropLinks(LinksOf(d))
    BY <1>6, <2>3 DEF CommitReanalyze
  <2>5. QED
    BY <1>2, <2>1, <2>2, <2>4, DropEffect, SameRecordKeeps
<1>7. CASE CommitDelete(q)
  <2>1. e # d
    BY <1>3, <1>7 DEF CommitDelete
  <2>2. \A c \in Emails : c # d => row'[c] = row[c]
    BY <1>2, <1>3, <1>7 DEF CommitDelete
  <2>3. DropLinks(LinksOf(d))
    BY <1>3, <1>7 DEF CommitDelete
  <2>4. QED
    BY <1>2, <2>1, <2>2, <2>3, DropEffect, SameRecordKeeps
<1>8. QED
  BY <1>4, <1>5, <1>6, <1>7 DEF Commit

LEMMA StepKeeps ==
  ASSUME ClientsWait, EvidenceInv, [Next]_vars, NEW e \in Emails,
         e \in stored', ~Requeues(e)
  PROVE  Keeps(e)
<1>1. CASE UNCHANGED <<row, links, pages, target>>
  BY <1>1, SameLinks, SameRecordKeeps DEF SameRecord
<1>2. ASSUME NEW q \in Requests, Begin(q)
      PROVE  Keeps(e)
  BY <1>2, BeginRecord, SameRecordKeeps DEF EvidenceInv
<1>3. ASSUME NEW q \in Requests, Statement(q) \/ Rollback(q)
      PROVE  UNCHANGED <<row, links, pages, target>>
  BY <1>3 DEF Statement, Rollback, End, ReanalyzeUnlink, ReanalyzeReset,
    ReviewUpdate, DeleteRow, dbVars
<1>4. ASSUME NEW q \in Requests, Commit(q)
      PROVE  Keeps(e)
  BY <1>4, CommitKeeps
<1>5. ASSUME NEW q \in Requests,
             Stage(q) \/ StageFails(q) \/ MarkFailedRaises(q)
      PROVE  Keeps(e)
  BY <1>5, TaskKeeps DEF TaskStep
<1>6. CASE Process \/ UNCHANGED vars
  BY <1>1, <1>6 DEF Process, BeginDrain, Drained, DrainTimesOut, Kill, Start,
    vars, dbVars, reqVars
<1>7. QED
  BY <1>1, <1>2, <1>3, <1>4, <1>5, <1>6 DEF Next, Fault

\* What has happened to the emails of a read is remembered in moved.
LEMMA Remembered ==
  ASSUME Write \/ UNCHANGED allVars, NEW e \in Scope
  PROVE  /\ ("removed" \notin moved' /\ e \in stored) => e \in stored'
         /\ ("added" \notin moved' /\ e \in stored') => e \in stored
         /\ "requeued" \notin moved' => ~Requeues(e)
         /\ moved \subseteq moved'
<1>1. CASE Write
  BY <1>1 DEF Write
<1>2. CASE UNCHANGED allVars
  BY <1>2 DEF allVars, vars, readVars, Requeues
<1>3. QED
  BY <1>1, <1>2

-----------------------------------------------------------------------------
(***************************************************************************)
(* What every read relies on.                                              *)
(***************************************************************************)

\* Finitely many links are stored.
LEMMA LinksStayFinite ==
  ASSUME TypeOK, IsFiniteSet(links), [Next]_vars
  PROVE  IsFiniteSet(links')
<1>1. CASE links' \subseteq links
  BY <1>1, FS_Subset
<1>2. ASSUME NEW q \in Requests, NEW scraped, ResolveLinks(q, scraped)
      PROVE  links' \subseteq links \/ IsFiniteSet(links')
  <2>1. PICK n \in Nat : n = mem[q].linkCount
    BY BoundAssumption DEF TypeOK, Memory
  <2>2. IsFiniteSet({q})
    BY FS_Singleton
  <2>3. IsFiniteSet(1 .. n)
    BY FS_Interval
  <2>4. IsFiniteSet(NewLinks(q))
    BY <2>1, <2>2, <2>3, FS_Product DEF NewLinks
  <2>5. links' = links \/ links' = links \cup NewLinks(q)
    BY <1>2 DEF ResolveLinks
  <2>6. QED
    BY <2>4, <2>5, FS_Union
<1>3. ASSUME NEW q \in Requests,
             Begin(q) \/ Statement(q) \/ Commit(q) \/ Fault(q)
      PROVE  links' \subseteq links
  BY <1>3 DEF Begin, Submit, Read, Statement, ReanalyzeUnlink,
    ReanalyzeReset, ReviewUpdate, DeleteRow, Commit, CommitSubmit,
    CommitReanalyze, CommitReview, CommitDelete, DropLinks, Fault, Rollback,
    StageFails, MarkFailedRaises, dbVars
<1>4. ASSUME NEW q \in Requests, Stage(q)
      PROVE  \/ links' \subseteq links
             \/ \E scraped : ResolveLinks(q, scraped)
  BY <1>4 DEF Stage, FindEmail, StopWaiting, StartClassification, Classify,
    StartLinkResolution, StartPageAnalysis, AnalysePages, StartAggregation,
    StoreVerdict, MarkFailed, SetStage, dbVars
<1>5. ASSUME Process \/ UNCHANGED vars
      PROVE  links' \subseteq links
  BY <1>5 DEF Process, BeginDrain, Drained, DrainTimesOut, Kill, Start,
    dbVars, vars
<1>6. QED
  BY <1>1, <1>2, <1>3, <1>4, <1>5 DEF Next

\* A trigger is stored together with a final class.
TriggersJudge ==
  \A e \in Emails : row[e].trigger # Null => row[e].finalClass # Null

LEMMA TriggerUpdate ==
  ASSUME NEW e, NEW r, TypeOK, TriggersJudge, Update(e, r),
         e \in stored =>
           \/ r.trigger # Null => r.finalClass # Null
           \/ r.trigger = row[e].trigger /\ r.finalClass = row[e].finalClass
  PROVE  TriggersJudge'
  BY DEF TypeOK, TriggersJudge, Update

LEMMA TriggersNext ==
  TypeOK /\ TasksKnowClass /\ TriggersJudge /\ [Next]_vars => TriggersJudge'
<1> SUFFICES ASSUME TypeOK, TasksKnowClass, TriggersJudge, [Next]_vars
             PROVE  TriggersJudge'
  OBVIOUS
<1> USE DEF dbVars, reqVars
<1>1. ASSUME NEW q \in Requests, Commit(q) PROVE TriggersJudge'
  <2>1. CASE CommitReanalyze(q)
    BY <2>1 DEF CommitReanalyze, Reset, TypeOK, TriggersJudge, QueuedRow
  <2>2. CASE CommitReview(q)
    <3>1. \A e \in Emails : \/ row'[e] = row[e]
                            \/ row'[e] = [row[e] EXCEPT !.review = TRUE]
      BY <2>2 DEF CommitReview, TypeOK
    <3>2. \A e \in Emails : /\ row'[e].finalClass = row[e].finalClass
                            /\ row'[e].trigger = row[e].trigger
      BY <3>1 DEF TypeOK, Row
    <3>3. QED
      BY <3>2 DEF TriggersJudge
  <2>3. CASE CommitDelete(q)
    BY <2>3 DEF CommitDelete, TypeOK, TriggersJudge, QueuedRow
  <2>4. CASE CommitSubmit(q)
    BY <2>4 DEF CommitSubmit, TriggersJudge
  <2>5. QED
    BY <1>1, <2>1, <2>2, <2>3, <2>4 DEF Commit
<1>2. ASSUME NEW q \in Requests, Stage(q) PROVE TriggersJudge'
  <2>1. target[q] \in stored => row[target[q]] \in Row
    BY DEF TypeOK
  <2>2. ASSUME NEW r, Update(target[q], r),
               target[q] \in stored =>
                 /\ r.trigger = row[target[q]].trigger
                 /\ r.finalClass = row[target[q]].finalClass
        PROVE  TriggersJudge'
    BY <2>2, TriggerUpdate
  <2>3. ASSUME NEW from, NEW stage, NEW to, SetStage(q, from, stage, to)
        PROVE  TriggersJudge'
    <3> DEFINE r == [row[target[q]] EXCEPT !.status = "running",
                                           !.stage = stage]
    <3>1. target[q] \in stored => /\ r.trigger = row[target[q]].trigger
                                  /\ r.finalClass = row[target[q]].finalClass
      BY <2>1 DEF Row
    <3>2. Update(target[q], r)
      BY <2>3 DEF SetStage
    <3> HIDE DEF r
    <3>3. QED
      BY <2>2, <3>1, <3>2
  <2>4. ASSUME NEW answer \in Answers, Classify(q, answer) PROVE TriggersJudge'
    <3> DEFINE r == [row[target[q]] EXCEPT
                       !.class = answer.class,
                       !.confidence = answer.confidence,
                       !.linkCount = answer.linkCount]
    <3>1. target[q] \in stored => /\ r.trigger = row[target[q]].trigger
                                  /\ r.finalClass = row[target[q]].finalClass
      BY <2>1 DEF Row
    <3>2. Update(target[q], r)
      BY <2>4 DEF Classify
    <3> HIDE DEF r
    <3>3. QED
      BY <2>2, <3>1, <3>2
  <2>5. CASE StoreVerdict(q)
    <3> DEFINE m == mem[q]
               trigger == Trigger(m.class, m.linkCount, m.found,
                                  EarlyExit(m.class, m.confidence))
               r == [row[target[q]] EXCEPT
                       !.finalClass = FinalClass(m.class, trigger),
                       !.trigger = trigger,
                       !.status = "complete",
                       !.stage = "done"]
    <3>1. m.class \in Classes
      BY <2>5 DEF StoreVerdict, TasksKnowClass
    <3>2. FinalClass(m.class, trigger) \in Classes
      BY <3>1, VerdictType
    <3>3. Update(target[q], r)
      BY <2>5 DEF StoreVerdict
    <3> HIDE DEF m, trigger
    <3>4. target[q] \in stored => r.finalClass # Null
      BY <2>1, <3>2 DEF Row, Classes, Null
    <3> HIDE DEF r
    <3>5. QED
      BY <3>3, <3>4, TriggerUpdate
  <2>6. CASE MarkFailed(q)
    <3> DEFINE r == Failed(row[target[q]])
    <3>1. target[q] \in stored => /\ r.trigger = row[target[q]].trigger
                                  /\ r.finalClass = row[target[q]].finalClass
      BY <2>1 DEF Failed, Row
    <3>2. Update(target[q], r)
      BY <2>6 DEF MarkFailed
    <3> HIDE DEF r
    <3>3. QED
      BY <2>2, <3>1, <3>2
  <2>7. CASE UNCHANGED row
    BY <2>7 DEF TriggersJudge
  <2>8. QED
    BY <1>2, <2>3, <2>4, <2>5, <2>6, <2>7 DEF Stage, FindEmail, StopWaiting,
      ResolveLinks, AnalysePages, StartClassification, StartLinkResolution,
      StartPageAnalysis, StartAggregation
<1>3. CASE UNCHANGED row
  BY <1>3 DEF TriggersJudge
<1>4. QED
  BY <1>1, <1>2, <1>3 DEF Next, Begin, Submit, Read, Statement,
    ReanalyzeUnlink, ReanalyzeReset, ReviewUpdate, DeleteRow, Fault, Rollback,
    StageFails, MarkFailedRaises, Process, BeginDrain, Drained,
    DrainTimesOut, Kill, Start, vars

\* What the reads rely on, about the pipeline and about the answer.
ReadsInv == EvidenceInv /\ TriggersJudge /\ IsFiniteSet(links) /\ Shape

LEMMA ReadsInit == InitReads => ReadsInv
<1> SUFFICES ASSUME InitReads
             PROVE  ReadsInv
  OBVIOUS
<1>1. TriggersJudge /\ IsFiniteSet(links)
  BY FS_EmptySet DEF InitReads, Init, TriggersJudge, QueuedRow
<1>2. QED
  BY <1>1, ShapeInit, EvidenceInit DEF InitReads, ReadsInv

LEMMA ReadsNext ==
  ASSUME ClientsWait, ReadsInv, [NextReads]_allVars
  PROVE  ReadsInv'
<1>1. TypeOK /\ RequestsMatchTasks /\ TasksKnowClass /\ [Next]_vars
  BY ReadsAreSteps DEF ReadsInv, EvidenceInv, Basis
<1>2. QED
  BY <1>1, EvidenceNext, ShapeNext, LinksStayFinite, TriggersNext DEF ReadsInv

\* A stored email with a trigger is complete; after an early exit it has no
\* evidence.
LEMMA TriggersAreFinal ==
  ASSUME ReadsInv, NEW e \in stored
  PROVE  /\ row[e].trigger # Null <=> row[e].status = "complete"
         /\ row[e].trigger = "early_exit" => Found(e) = {}
<1>1. Fits(e) /\ e \in Emails /\ row[e] \in Row
  BY DEF ReadsInv, EvidenceInv, Basis, TypeOK, Agreement, EmailsFit
<1>2. row[e].trigger # Null => row[e].status = "complete"
  BY <1>1 DEF Fits, ReadsInv, TriggersJudge
<1>3. ASSUME row[e].status = "complete"
      PROVE  row[e].trigger # Null
  BY <1>1, <1>3 DEF Fits, Trigger, Null
<1>4. ASSUME row[e].trigger = "early_exit"
      PROVE  Found(e) = {}
  <2>1. Cardinality(LinksOf(e)) = 0
    BY <1>1, <1>2, <1>4 DEF Fits, Null
  <2>2. IsFiniteSet(LinksOf(e))
    BY FS_Subset DEF LinksOf, ReadsInv
  <2>3. LinksOf(e) = {}
    BY <2>1, <2>2, FS_EmptySet
  <2>4. QED
    BY <2>3 DEF Found, PagesOf
<1>5. QED
  BY <1>2, <1>3, <1>4

\* The window of a read only ever grows, unless it loses an email, and what it
\* has of evidence and of complete emails stays.
LEMMA WindowKept ==
  ASSUME ClientsWait, ReadsInv, Write \/ UNCHANGED allVars,
         kind \in {"summary", "usage"}, "removed" \notin moved'
  PROVE  /\ InWindow(about) \subseteq InWindow(about)'
         /\ "added" \notin moved' => InWindow(about)' = InWindow(about)
         /\ "requeued" \notin moved' =>
              \A e \in InWindow(about) : Keeps(e)
<1>1. about' = about /\ [Next]_vars
  BY WriteFrame
<1>2. stored \subseteq Emails /\ stored' \subseteq Emails
  BY <1>1, TypeNext DEF ReadsInv, EvidenceInv, Basis, TypeOK
<1>3. \A e \in InWindow(about) \cup InWindow(about)' : e \in Scope
  BY <1>1, <1>2 DEF InWindow, Scope
<1>4. InWindow(about) \subseteq InWindow(about)'
  BY <1>1, <1>3, Remembered DEF InWindow
<1>5. "added" \notin moved' => InWindow(about)' \subseteq InWindow(about)
  BY <1>1, <1>3, Remembered DEF InWindow
<1>6. ASSUME "requeued" \notin moved', NEW e \in InWindow(about)
      PROVE  Keeps(e)
  <2>1. e \in Emails /\ e \in stored' /\ ~Requeues(e)
    BY <1>2, <1>3, <1>4, <1>6, Remembered DEF InWindow
  <2>2. QED
    BY <1>1, <2>1, StepKeeps DEF ReadsInv
<1>7. QED
  BY <1>4, <1>5, <1>6

-----------------------------------------------------------------------------
(***************************************************************************)
(* The detail of an email.                                                 *)
(***************************************************************************)

\* From the moment a detail has read a complete row, that row stays, and with
\* it the links and the page analyses that are read later.
DetailInv ==
  (/\ kind = "detail" /\ Has("row") /\ Calm({"requeued", "removed"})
   /\ shown["row"].status = "complete") =>
     /\ about \in stored
     /\ SameRun(row[about], shown["row"])
     /\ Has("links") => shown["links"] = LinksOf(about)
     /\ Has("pages") => /\ \A p \in shown["pages"] : p[1] \in shown["links"]
                        /\ {p[2] : p \in shown["pages"]} = Found(about)

LEMMA SelectDetail ==
  ASSUME Shape, DetailInv, Select
  PROVE  DetailInv'
<1> SUFFICES ASSUME kind = "detail", Calm({"requeued", "removed"}),
                    Has("row")', shown'["row"].status = "complete"
             PROVE  DetailInv'
  <2>1. UNCHANGED <<kind, moved>>
    BY DEF Select
  <2>2. QED
    BY <2>1 DEF DetailInv, Calm
<1>1. UNCHANGED <<vars, kind, about, moved>>
  BY DetailSelect
<1>2. /\ LinksOf(about)' = LinksOf(about) /\ Found(about)' = Found(about)
      /\ row' = row /\ stored' = stored
  BY <1>1 DEF LinksOf, Found, PagesOf, vars
<1>3. DetailShape
  BY DEF Shape
<1>4. CASE step = 0 /\ about \notin stored /\ shown' = shown
  BY <1>3, <1>4 DEF DetailShape, Has
<1>5. CASE step = 0 /\ about \in stored /\ Adds("row", row[about])
  BY <1>2, <1>1, <1>3, <1>5 DEF DetailInv, DetailShape, Has, Adds, SameRun
<1>6. CASE step = 1 /\ Adds("links", LinksOf(about))
  BY <1>1, <1>2, <1>3, <1>6 DEF DetailInv, DetailShape, Has, Adds
<1>7. CASE step = 2 /\ Adds("pages", PagesOf(shown["links"]))
  <2>1. /\ shown'["row"] = shown["row"] /\ shown'["links"] = shown["links"]
        /\ shown'["pages"] = PagesOf(shown["links"])
        /\ Has("row") /\ Has("links")
    BY <1>3, <1>7 DEF DetailShape, Has, Adds
  <2>2. /\ about \in stored /\ SameRun(row[about], shown["row"])
        /\ shown["links"] = LinksOf(about)
    BY <1>1, <2>1 DEF DetailInv
  <2>3. /\ \A p \in PagesOf(shown["links"]) : p[1] \in shown["links"]
        /\ {p[2] : p \in PagesOf(shown["links"])} = Found(about)
    BY <2>2 DEF PagesOf, Found
  <2>4. QED
    BY <1>1, <1>2, <2>1, <2>2, <2>3 DEF DetailInv
<1>8. QED
  BY <1>4, <1>5, <1>6, <1>7, DetailSelect

LEMMA WriteDetail ==
  ASSUME ClientsWait, EvidenceInv, Shape, DetailInv, Write \/ UNCHANGED allVars
  PROVE  DetailInv'
<1>1. /\ UNCHANGED <<kind, about, step, shown, answered>>
      /\ moved \subseteq moved' /\ [Next]_vars
  BY WriteFrame
<1> SUFFICES ASSUME kind = "detail", Calm({"requeued", "removed"})',
                    Has("row"), shown["row"].status = "complete"
             PROVE  DetailInv'
  BY <1>1 DEF DetailInv, Has
<1>2. about \in Emails /\ about \in Scope
  BY DEF Shape, Scope
<1>3. /\ about \in stored /\ SameRun(row[about], shown["row"])
      /\ Has("links") => shown["links"] = LinksOf(about)
      /\ Has("pages") => /\ \A p \in shown["pages"] : p[1] \in shown["links"]
                         /\ {p[2] : p \in shown["pages"]} = Found(about)
  BY <1>1 DEF DetailInv, Calm
<1>4. PICK e \in Emails : e = about
  BY <1>2
<1>5. e \in stored' /\ ~Requeues(e)
  BY <1>2, <1>3, <1>4, Remembered DEF Calm
<1>6. Keeps(e) /\ row[e].status = "complete"
  BY <1>1, <1>3, <1>4, <1>5, StepKeeps DEF SameRun
<1>7. /\ SameRun(row'[e], row[e]) /\ LinksOf(e)' = LinksOf(e)
      /\ Found(e)' = Found(e)
  BY <1>6 DEF Keeps
<1>8. LinksOf(about)' = LinksOf(e)' /\ Found(about)' = Found(e)' /\ about' = e
  BY <1>1, <1>4 DEF LinksOf, Found
<1>9. SameRun(row'[e], shown["row"])
  BY <1>3, <1>4, <1>7 DEF SameRun
<1>10. QED
  BY <1>1, <1>3, <1>4, <1>5, <1>7, <1>8, <1>9 DEF DetailInv, Has

LEMMA QueryDetail ==
  ASSUME Shape, DetailInv, Query
  PROVE  DetailInv'
<1>1. CASE Select
  BY <1>1, SelectDetail
<1>2. CASE kind' # "detail"
  BY <1>2 DEF DetailInv
<1>3. CASE \E e \in Emails : AskDetail(e)
  <2>1. ~Has("row")'
    BY <1>3 DEF AskDetail, Ask, Shape, Has
  <2>2. QED
    BY <2>1 DEF DetailInv
<1>4. QED
  BY <1>1, <1>2, <1>3 DEF Query, AskSummary, AskUsage, StartWalk, Ask, Close,
    FetchPage

\* The answer has the evidence that was read: one entry per link, and the
\* risks of all of them are those of the pages.
LEMMA DetailAnswer ==
  ASSUME IsFiniteSet(shown["links"]),
         \A p \in shown["pages"] : p[1] \in shown["links"]
  PROVE  /\ UNION {l.risks : l \in EmailDetail.links}
              = {p[2] : p \in shown["pages"]}
         /\ Cardinality(EmailDetail.links) = Cardinality(shown["links"])
<1> DEFINE L == shown["links"]
           entry == [l \in L |-> LinkWithPage(l)]
<1>1. EmailDetail.links = {LinkWithPage(l) : l \in L}
  BY DEF EmailDetail
<1>2. \A l : LinkWithPage(l).link = l
             /\ LinkWithPage(l).risks = PageAnalysisShown(l)
  BY DEF LinkWithPage
<1>3. UNION {l.risks : l \in EmailDetail.links}
        = UNION {PageAnalysisShown(l) : l \in L}
  BY <1>1, <1>2
<1>4. UNION {PageAnalysisShown(l) : l \in L} = {p[2] : p \in shown["pages"]}
  BY DEF PageAnalysisShown
<1>5. entry \in Bijection(L, EmailDetail.links)
  <2>1. entry \in [L -> EmailDetail.links]
    BY <1>1
  <2>2. \A l, m \in L : entry[l] = entry[m] => l = m
    BY <1>2
  <2>3. \A x \in EmailDetail.links : \E l \in L : entry[l] = x
    BY <1>1
  <2>4. QED
    BY <2>1, <2>2, <2>3, Fun_IsBij
<1>6. QED
  BY <1>3, <1>4, <1>5, FS_Bijection DEF ExistsBijection

\* DetailShowsEvidence: as long as clients wait, a detail that says complete
\* shows the evidence for its verdict, although the run may finish between the
\* three SELECTs.
THEOREM DetailsShowEvidence ==
  ASSUME ClientsWait
  PROVE  SpecReads => []DetailShowsEvidence
<1> DEFINE Inv == ReadsInv /\ DetailInv
<1>1. InitReads => Inv
  BY ReadsInit DEF InitReads, DetailInv
<1>2. Inv /\ [NextReads]_allVars => Inv'
  BY ReadsNext, QueryDetail, WriteDetail DEF NextReads, Query, ReadsInv
<1>3. Inv => DetailShowsEvidence
  <2> SUFFICES ASSUME Inv, Answered("detail"), Has("row"),
                      Calm({"requeued", "removed"}),
                      shown["row"].status = "complete"
               PROVE  DetailShowsEvidence
    BY DEF DetailShowsEvidence, EmailDetail, Has
  <2>1. kind = "detail" /\ Has("links") /\ Has("pages")
    BY DEF Answered, ReadsInv, Shape, DetailShape
  <2>2. /\ about \in stored /\ SameRun(row[about], shown["row"])
        /\ shown["links"] = LinksOf(about)
        /\ \A p \in shown["pages"] : p[1] \in shown["links"]
        /\ {p[2] : p \in shown["pages"]} = Found(about)
    BY <2>1 DEF DetailInv
  <2>3. Fits(about)
    BY <2>2 DEF ReadsInv, EvidenceInv, Agreement, EmailsFit
  <2>4. IsFiniteSet(shown["links"])
    BY <2>2, FS_Subset DEF LinksOf, ReadsInv
  <2>5. /\ UNION {l.risks : l \in EmailDetail.links} = Found(about)
        /\ Cardinality(EmailDetail.links) = Cardinality(LinksOf(about))
    BY <2>2, <2>4, DetailAnswer
  <2>6. EmailDetail.row = shown["row"]
    BY DEF EmailDetail
  <2>7. QED
    BY <2>2, <2>3, <2>5, <2>6 DEF DetailShowsEvidence, Fits, SameRun
<1>4. QED
  BY <1>1, <1>2, <1>3, PTL DEF SpecReads

-----------------------------------------------------------------------------
(***************************************************************************)
(* The model usage of a window.                                            *)
(***************************************************************************)

\* The emails that stage 3 was counted for still have their pages when the
\* early exits are counted.
UsageInv ==
  (kind = "usage" /\ Calm({"removed", "requeued"})) =>
    /\ (Has("stage3") /\ ~Has("saved")) =>
         \E S \in SUBSET InWindow(about) :
           /\ Cardinality(S) = shown["stage3"]
           /\ \A e \in S : Found(e) # {}
    /\ Has("saved") =>
         shown["stage3"] + shown["saved"] <= Cardinality(InWindow(about))

LEMMA SelectUsage ==
  ASSUME ReadsInv, UsageInv, Select
  PROVE  UsageInv'
<1> SUFFICES ASSUME kind = "usage", Calm({"removed", "requeued"})
             PROVE  UsageInv'
  <2>1. UNCHANGED <<kind, moved>>
    BY DEF Select
  <2>2. QED
    BY <2>1 DEF UsageInv, Calm
<1> DEFINE W == InWindow(about)
<1>1. Shape /\ UsageShape /\ W \subseteq Emails /\ W \subseteq stored
  BY QueriedEmails DEF ReadsInv, EvidenceInv, Basis, Shape, InWindow
<1>2. UNCHANGED <<vars, kind, about, moved>>
  BY <1>1, UsageSelect
<1>3. InWindow(about)' = W /\ \A e : Found(e)' = Found(e)
  BY <1>2 DEF InWindow, Found, LinksOf, PagesOf, vars
<1>4. CASE step = 0 /\ Adds("stage1", Stage1Count(about))
  BY <1>1, <1>4 DEF UsageInv, UsageShape, Has, Adds
<1>5. CASE step = 1 /\ Adds("stage3", Stage3Count(about))
  <2> DEFINE S == {e \in W : PagesOf(LinksOf(e)) # {}}
  <2>1. shown'["stage3"] = Cardinality(S) /\ ~Has("saved")'
    BY <1>1, <1>5 DEF UsageShape, Has, Adds, Stage3Count, Count
  <2>2. \A e \in S : Found(e) # {}
    BY DEF Found
  <2>3. QED
    BY <1>2, <1>3, <2>1, <2>2 DEF UsageInv
<1>6. CASE step = 2 /\ Adds("saved", EarlyExits(about))
  <2> DEFINE E == {e \in W : row[e].trigger = "early_exit"}
  <2>1. /\ shown'["saved"] = Cardinality(E) /\ Has("saved")'
        /\ shown'["stage3"] = shown["stage3"] /\ Has("stage3") /\ ~Has("saved")
    BY <1>1, <1>6 DEF UsageShape, Has, Adds, EarlyExits, Count
  <2>2. PICK S \in SUBSET W : /\ Cardinality(S) = shown["stage3"]
                             /\ \A e \in S : Found(e) # {}
    BY <2>1 DEF UsageInv
  <2>3. S \cap E = {}
    BY <1>1, <2>2, TriggersAreFinal
  <2>4. Cardinality(S) + Cardinality(E) <= Cardinality(W)
    BY <1>1, <2>3, DisjointCounts
  <2>5. QED
    BY <1>2, <1>3, <2>1, <2>2, <2>4 DEF UsageInv
<1>7. QED
  BY <1>1, <1>4, <1>5, <1>6, UsageSelect

LEMMA WriteUsage ==
  ASSUME ClientsWait, ReadsInv, UsageInv, Write \/ UNCHANGED allVars
  PROVE  UsageInv'
<1>1. /\ UNCHANGED <<kind, about, step, shown, answered>>
      /\ moved \subseteq moved' /\ [Next]_vars
  BY WriteFrame
<1> SUFFICES ASSUME kind = "usage", Calm({"removed", "requeued"})'
             PROVE  UsageInv'
  BY <1>1 DEF UsageInv
<1> DEFINE W == InWindow(about)
<1>2. /\ W \subseteq InWindow(about)'
      /\ \A e \in W : Keeps(e)
  BY WindowKept DEF Calm
<1>3. Calm({"removed", "requeued"})
  BY <1>1 DEF Calm
<1>4. ASSUME Has("stage3"), ~Has("saved")
      PROVE  \E S \in SUBSET InWindow(about)' :
               /\ Cardinality(S) = shown["stage3"]
               /\ \A e \in S : Found(e)' # {}
  <2>1. PICK S \in SUBSET W : /\ Cardinality(S) = shown["stage3"]
                             /\ \A e \in S : Found(e) # {}
    BY <1>3, <1>4 DEF UsageInv
  <2>2. \A e \in S : Found(e)' # {}
    BY <1>2, <2>1 DEF Keeps
  <2>3. QED
    BY <1>2, <2>1, <2>2
<1>5. ASSUME Has("saved")
      PROVE  shown["stage3"] + shown["saved"] <= Cardinality(InWindow(about)')
  <2>1. shown["stage3"] + shown["saved"] <= Cardinality(W)
    BY <1>3, <1>5 DEF UsageInv
  <2>2. shown["stage3"] \in Nat /\ shown["saved"] \in Nat
    BY <1>5, FS_CardinalityType, FiniteAssumption
      DEF ReadsInv, Shape, ReadsTypeOK, UsageShape, Has
  <2>3. InWindow(about)' \subseteq Emails
    BY <1>1, TypeNext DEF InWindow, ReadsInv, EvidenceInv, Basis, TypeOK
  <2>4. /\ Cardinality(W) \in Nat /\ Cardinality(InWindow(about)') \in Nat
        /\ Cardinality(W) <= Cardinality(InWindow(about)')
    BY <1>2, <2>3, Finite
  <2>5. QED
    BY <2>1, <2>2, <2>4
<1>6. QED
  BY <1>1, <1>4, <1>5 DEF UsageInv, Has

LEMMA QueryUsage ==
  ASSUME ReadsInv, UsageInv, Query
  PROVE  UsageInv'
<1>1. CASE Select
  BY <1>1, SelectUsage
<1>2. CASE kind' # "usage"
  BY <1>2 DEF UsageInv
<1>3. CASE \E w \in Windows : AskUsage(w)
  <2>1. ~Has("stage3")' /\ ~Has("saved")'
    BY <1>3 DEF AskUsage, Ask, ReadsInv, Shape, Has
  <2>2. QED
    BY <2>1 DEF UsageInv
<1>4. QED
  BY <1>1, <1>2, <1>3 DEF Query, AskSummary, AskDetail, StartWalk, Ask, Close,
    FetchPage

\* UsageAddsUp: as long as clients wait, no email is counted both as a saved
\* call and as a call of Gemini, although two SELECTs count them.
THEOREM UsageIsConsistent ==
  ASSUME ClientsWait
  PROVE  SpecReads => []UsageAddsUp
<1> DEFINE Inv == ReadsInv /\ UsageInv
<1>1. InitReads => Inv
  BY ReadsInit DEF InitReads, UsageInv
<1>2. Inv /\ [NextReads]_allVars => Inv'
  BY ReadsNext, QueryUsage, WriteUsage DEF NextReads, Query
<1>3. Inv => UsageAddsUp
  <2> SUFFICES ASSUME Inv, Answered("usage"), Calm({"removed", "requeued"})
               PROVE  UsageAddsUp
    BY DEF UsageAddsUp
  <2>1. kind = "usage" /\ Has("saved")
    BY DEF Answered, ReadsInv, Shape, UsageShape
  <2>2. QED
    BY <2>1 DEF UsageInv, UsageAddsUp, ApiCallsEstimated
<1>4. QED
  BY <1>1, <1>2, <1>3, PTL DEF SpecReads

-----------------------------------------------------------------------------
(***************************************************************************)
(* Sums of counts.                                                         *)
(*                                                                         *)
(* Sum folds over the domain of its argument by a function that CHOOSE     *)
(* picks among those that satisfy its recursive equation.  Counting a      *)
(* union satisfies it, and on a finite domain nothing else does.           *)
(***************************************************************************)

\* The equation of Sum: g sums f over every part of its domain.
IsSum(g, f) ==
  g = [s \in SUBSET DOMAIN f |->
         IF s = {} THEN 0
         ELSE f[CHOOSE x \in s : TRUE] + g[s \ {CHOOSE x \in s : TRUE}]]

\* Finite sets that share a property have a smallest among them.
LEMMA SmallestSet ==
  ASSUME NEW S, IsFiniteSet(S), NEW B \in SUBSET SUBSET S, B # {}
  PROVE  \E T \in B : \A U \in B : U \subseteq T => U = T
<1>1. IsWellFoundedOn(StrictSubsetOrdering(S), FiniteSubsetsOf(S))
  BY FS_StrictSubsetOrderingWellFounded
<1>2. B \subseteq FiniteSubsetsOf(S)
  BY FS_FiniteSubsetsOfFinite
<1>3. PICK T \in B : \A U \in B : ~ (<<U, T>> \in StrictSubsetOrdering(S))
  BY <1>1, <1>2, WFMin
<1>4. QED
  BY <1>3 DEF StrictSubsetOrdering

\* If the equation has a solution, Sum uses one.
LEMMA SumChosen ==
  ASSUME NEW f, NEW g, IsSum(g, f)
  PROVE  \E h : IsSum(h, f) /\ Sum(f) = h[DOMAIN f]
<1> DEFINE body(h) == [s \in SUBSET DOMAIN f |->
         IF s = {} THEN 0
         ELSE f[CHOOSE x \in s : TRUE] + h[s \ {CHOOSE x \in s : TRUE}]]
<1>1. Sum(f) = (CHOOSE h : h = body(h))[DOMAIN f]
  BY DEF Sum, FoldFunction, FoldFunctionOnSet, MapThenFoldSet
<1>2. g = body(g)
  BY DEF IsSum
<1> DEFINE h == CHOOSE h : h = body(h)
<1>3. h = body(h)
  <2> HIDE DEF body
  <2> QED BY <1>2
<1>4. IsSum(h, f) BY <1>3 DEF IsSum
<1>5. QED
  BY <1>1, <1>4


\* On a finite domain there is only one: a smallest set on which two differ
\* could not exist.
LEMMA SumUnique ==
  ASSUME NEW f, IsFiniteSet(DOMAIN f), NEW g, IsSum(g, f)
  PROVE  Sum(f) = g[DOMAIN f]
<1>1. PICK h : IsSum(h, f) /\ Sum(f) = h[DOMAIN f]
  BY SumChosen
<1> DEFINE Differ == {s \in SUBSET DOMAIN f : h[s] # g[s]}
<1>2. Differ = {}
  <2> SUFFICES ASSUME Differ # {}
               PROVE  FALSE
    OBVIOUS
  <2>1. PICK s \in Differ : \A u \in Differ : u \subseteq s => u = s
    <3>1. Differ \in SUBSET SUBSET DOMAIN f
      OBVIOUS
    <3> HIDE DEF Differ
    <3>2. QED
      BY <3>1, SmallestSet
  <2>2. s \subseteq DOMAIN f /\ h[s] # g[s]
    BY <2>1
  <2>3. PICK x : x = CHOOSE y \in s : TRUE
    OBVIOUS
  <2>4. s # {}
    <3>1. {} \in SUBSET DOMAIN f
      OBVIOUS
    <3>2. h[{}] = 0 /\ g[{}] = 0
      BY <1>1, <3>1 DEF IsSum
    <3>3. QED
      BY <2>2, <3>2
  <2>5. x \in s
    <3>1. \E y : y \in s
      BY <2>2, <2>4
    <3>2. QED
      BY <2>3, <3>1
  <2>6. s \ {x} \subseteq s /\ s \ {x} # s /\ s \ {x} \subseteq DOMAIN f
    BY <2>2, <2>5
  <2>7. h[s \ {x}] = g[s \ {x}]
    BY <2>1, <2>6
  <2>8. h[s] = f[x] + h[s \ {x}]
    BY <1>1, <2>2, <2>3, <2>4 DEF IsSum
  <2>9. g[s] = f[x] + g[s \ {x}]
    BY <2>2, <2>3, <2>4 DEF IsSum
  <2>10. QED
    BY <2>2, <2>7, <2>8, <2>9
<1>3. QED
  BY <1>1, <1>2

\* The sizes of disjoint sets sum to the size of their union.
LEMMA SumOfCounts ==
  ASSUME NEW B, IsFiniteSet(B), NEW W, IsFiniteSet(W),
         NEW E \in [B -> SUBSET W],
         \A b, c \in B : b # c => E[b] \cap E[c] = {},
         NEW f, f = [b \in B |-> Cardinality(E[b])]
  PROVE  Sum(f) = Cardinality(UNION {E[b] : b \in B})
<1> DEFINE All(s) == UNION {E[b] : b \in s}
           g == [s \in SUBSET B |-> Cardinality(All(s))]
<1>1. \A s \in SUBSET B : IsFiniteSet(All(s)) /\ Cardinality(All(s)) \in Nat
  <2> SUFFICES ASSUME NEW s \in SUBSET B
               PROVE  IsFiniteSet(All(s)) /\ Cardinality(All(s)) \in Nat
    OBVIOUS
  <2>1. All(s) \subseteq W
    OBVIOUS
  <2>2. QED
    BY <2>1, FS_Subset, FS_CardinalityType
<1>2. ASSUME NEW s \in SUBSET B, NEW x \in s
      PROVE  Cardinality(All(s)) = f[x] + Cardinality(All(s \ {x}))
  <2>1. All(s) = E[x] \cup All(s \ {x}) /\ E[x] \cap All(s \ {x}) = {}
    OBVIOUS
  <2>2. IsFiniteSet(E[x])
    BY FS_Subset
  <2>3. IsFiniteSet(All(s \ {x}))
    BY <1>1
  <2>4. Cardinality(All(s))
          = Cardinality(E[x]) + Cardinality(All(s \ {x}))
              - Cardinality(E[x] \cap All(s \ {x}))
    <3> HIDE DEF All
    <3> QED BY <2>1, <2>2, <2>3, FS_Union
  <2>5. Cardinality(E[x] \cap All(s \ {x})) = 0
    BY <2>1, FS_EmptySet
  <2>6. Cardinality(E[x]) \in Nat /\ Cardinality(All(s \ {x})) \in Nat
    BY <1>1, <2>2, FS_CardinalityType
  <2>7. f[x] = Cardinality(E[x])
    OBVIOUS
  <2> HIDE DEF All
  <2>8. QED
    BY <2>4, <2>5, <2>6, <2>7
<1>3. Cardinality(All({})) = 0
  <2>1. All({}) = {}
    OBVIOUS
  <2>2. QED
    BY <2>1, FS_EmptySet
<1>4. DOMAIN f = B
  OBVIOUS
<1>5. IsSum(g, f)
  <2> HIDE DEF All
  <2>1. ASSUME NEW s \in SUBSET B
        PROVE  g[s] = IF s = {} THEN 0
                      ELSE f[CHOOSE x \in s : TRUE]
                             + g[s \ {CHOOSE x \in s : TRUE}]
    <3>1. CASE s = {}
      BY <1>3, <3>1
    <3>2. CASE s # {}
      <4>1. PICK x \in s : x = CHOOSE y \in s : TRUE
        BY <3>2
      <4>2. g[s] = f[x] + g[s \ {x}]
        BY <1>2
      <4>3. QED
        BY <3>2, <4>1, <4>2
    <3>3. QED
      BY <3>1, <3>2
  <2>2. g = [s \in SUBSET B |-> g[s]]
    OBVIOUS
  <2> HIDE DEF g
  <2>3. g = [s \in SUBSET B |-> IF s = {} THEN 0
                      ELSE f[CHOOSE x \in s : TRUE]
                             + g[s \ {CHOOSE x \in s : TRUE}]]
    BY <2>1, <2>2
  <2>4. QED
    BY <1>4, <2>3 DEF IsSum
<1>6. Sum(f) = g[B]
  BY <1>4, <1>5, SumUnique
<1>7. QED
  BY <1>6

-----------------------------------------------------------------------------
(***************************************************************************)
(* The summary of a window.                                                *)
(***************************************************************************)

\* There are finitely many classes, statuses and triggers.
LEMMA Labels ==
  IsFiniteSet(Classes \cup {Null}) /\ IsFiniteSet(Statuses)
  /\ IsFiniteSet(Triggers)
<1>1. ASSUME NEW a, NEW b, NEW c, NEW d, NEW e
      PROVE  IsFiniteSet({a, b, c, d, e})
  <2>1. IsFiniteSet({a})
    BY FS_Singleton
  <2>2. IsFiniteSet({a} \cup {b})
    BY <2>1, FS_AddElement
  <2>3. IsFiniteSet(({a} \cup {b}) \cup {c})
    BY <2>2, FS_AddElement
  <2>4. IsFiniteSet((({a} \cup {b}) \cup {c}) \cup {d})
    BY <2>3, FS_AddElement
  <2>5. IsFiniteSet(((({a} \cup {b}) \cup {c}) \cup {d}) \cup {e})
    BY <2>4, FS_AddElement
  <2>6. {a, b, c, d, e} = ((({a} \cup {b}) \cup {c}) \cup {d}) \cup {e}
    OBVIOUS
  <2>7. QED
    BY <2>5, <2>6
<1>2. /\ Classes \cup {Null}
           = {"phishing", "suspicious", "legitimate", Null, Null}
      /\ Statuses = {"pending", "running", "complete", "failed", "failed"}
      /\ Triggers = {"page_high_risk", "page_medium_risk", "all_low",
                     "all_failed", "early_exit"}
  BY DEF Classes, Statuses, Triggers
<1>3. /\ IsFiniteSet({"phishing", "suspicious", "legitimate", Null, Null})
      /\ IsFiniteSet({"pending", "running", "complete", "failed", "failed"})
      /\ IsFiniteSet({"page_high_risk", "page_medium_risk", "all_low",
                      "all_failed", "early_exit"})
  BY <1>1
<1>4. QED
  BY <1>2, <1>3

\* Sorting emails by a key and counting each heap counts every email once.
LEMMA SumByKey ==
  ASSUME NEW B, IsFiniteSet(B), NEW W \in SUBSET Emails, NEW key \in [W -> B]
  PROVE  Sum([b \in B |-> Cardinality({e \in W : key[e] = b})])
           = Cardinality(W)
<1> DEFINE E == [b \in B |-> {e \in W : key[e] = b}]
           f == [b \in B |-> Cardinality({e \in W : key[e] = b})]
<1>1. IsFiniteSet(W)
  BY Finite
<1>2. E \in [B -> SUBSET W]
  OBVIOUS
<1>3. \A b, c \in B : b # c => E[b] \cap E[c] = {}
  OBVIOUS
<1>4. f = [b \in B |-> Cardinality(E[b])]
  OBVIOUS
<1>5. UNION {E[b] : b \in B} = W
  <2>1. \A e \in W : key[e] \in B /\ e \in E[key[e]]
    OBVIOUS
  <2>2. \A b \in B : E[b] \subseteq W
    OBVIOUS
  <2> HIDE DEF E
  <2>3. QED
    BY <2>1, <2>2
<1> HIDE DEF E, f
<1>6. Sum(f) = Cardinality(W)
  BY <1>1, <1>2, <1>3, <1>4, <1>5, SumOfCounts
<1>7. QED
  BY <1>6 DEF f

\* On one snapshot, classes and statuses count every email of the window once.
LEMMA CountsAddUp ==
  ASSUME TypeOK, NEW w
  PROVE  /\ Sum(ClassificationCounts(w)) = Cardinality(InWindow(w))
         /\ Sum(PipelineStatusCounts(w)) = Cardinality(InWindow(w))
<1> DEFINE W == InWindow(w)
           C == Classes \cup {Null}
           class == [e \in W |-> Effective(e)]
           status == [e \in W |-> row[e].status]
<1>1. W \in SUBSET Emails
  BY QueriedEmails
<1>2. class \in [W -> C] /\ status \in [W -> Statuses]
  BY <1>1 DEF TypeOK, Row, Effective
<1>3. \A c : {e \in W : Effective(e) = c} = {e \in W : class[e] = c}
  OBVIOUS
<1>4. \A s : {e \in W : row[e].status = s} = {e \in W : status[e] = s}
  OBVIOUS
<1>5. ClassificationCounts(w)
        = [c \in C |-> Cardinality({e \in W : class[e] = c})]
  BY <1>3 DEF ClassificationCounts, Count
<1>6. PipelineStatusCounts(w)
        = [s \in Statuses |-> Cardinality({e \in W : status[e] = s})]
  BY <1>4 DEF PipelineStatusCounts, Count
<1> HIDE DEF W, C, class, status
<1>7. Sum([c \in C |-> Cardinality({e \in W : class[e] = c})]) = Cardinality(W)
  BY <1>1, <1>2, Labels, SumByKey DEF C
<1>8. Sum([s \in Statuses |-> Cardinality({e \in W : status[e] = s})])
        = Cardinality(W)
  BY <1>1, <1>2, Labels, SumByKey
<1>9. QED
  BY <1>5, <1>6, <1>7, <1>8 DEF W

\* What a summary has shown is true of its window: the counts it has shown add
\* up to its size; the early exits it has counted are still early exits when
\* the escalations are counted; and a complete email it has counted is still
\* complete when the average is taken.
SummaryKnows(W) ==
  /\ (Has("statuses") /\ shown["statuses"]["complete"] > 0) =>
       \E e \in W : row[e].status = "complete"
  /\ (Has("early") /\ ~Has("escalated")) =>
       \E E \in SUBSET W : /\ Cardinality(E) = shown["early"]
                           /\ \A e \in E : row[e].trigger = "early_exit"
  /\ Has("escalated") => shown["early"] + shown["escalated"] <= Cardinality(W)
  /\ (Has("average") /\ shown["statuses"]["complete"] > 0) => ~shown["average"]

SummarySums(n) ==
  /\ Has("total") => shown["total"] = n
  /\ Has("classes") => Sum(shown["classes"]) = n
  /\ Has("statuses") => Sum(shown["statuses"]) = n

SummaryInv ==
  (kind = "summary" /\ Calm({"added", "removed"})) =>
    /\ SummarySums(Cardinality(InWindow(about)))
    /\ Calm({"requeued"}) => SummaryKnows(InWindow(about))

LEMMA SelectSums ==
  ASSUME ReadsInv, Select, kind = "summary",
         SummarySums(Cardinality(InWindow(about)))
  PROVE  SummarySums(Cardinality(InWindow(about)))'
<1>1. Shape /\ SummaryShape /\ TypeOK
  BY DEF ReadsInv, EvidenceInv, Basis, Shape
<1>2. PICK n : n = Cardinality(InWindow(about))
  OBVIOUS
<1>3. Cardinality(InWindow(about))' = n
  BY <1>1, <1>2, SummarySelect DEF InWindow, vars
<1>4. /\ Sum(ClassificationCounts(about)) = n
      /\ Sum(PipelineStatusCounts(about)) = n
  BY <1>1, <1>2, CountsAddUp
<1>5. SummarySums(n)
  BY <1>2
<1>6. SummarySums(n)'
  BY <1>1, <1>2, <1>4, <1>5, SummarySelect DEF SummarySums, SummaryShape,
    Has, Adds
<1>7. QED
  BY <1>3, <1>6 DEF SummarySums, Has

LEMMA SelectKnows ==
  ASSUME ReadsInv, Select, kind = "summary", NEW W, W = InWindow(about),
         SummaryKnows(W)
  PROVE  SummaryKnows(W)'
<1>1. Shape /\ SummaryShape /\ TypeOK /\ W \subseteq Emails /\ W \subseteq stored
  BY QueriedEmails DEF ReadsInv, EvidenceInv, Basis, Shape, InWindow
<1>2. row' = row
  BY <1>1, SummarySelect DEF vars
<1>3. CASE \/ step = 0 /\ Adds("total", Cardinality(InWindow(about)))
           \/ step = 1 /\ Adds("classes", ClassificationCounts(about))
  BY <1>1, <1>3 DEF SummaryKnows, SummaryShape, Has, Adds
<1>4. CASE step = 2 /\ Adds("statuses", PipelineStatusCounts(about))
  <2> DEFINE S == {e \in W : row[e].status = "complete"}
  <2>1. shown'["statuses"]["complete"] = Cardinality(S)
    BY <1>4 DEF Adds, PipelineStatusCounts, Count, Statuses
  <2>2. S # {} => \E e \in W : row'[e].status = "complete"
    BY <1>2
  <2>3. Cardinality(S) > 0 => S # {}
    BY FS_EmptySet
  <2>4. ~Has("early")' /\ ~Has("escalated")' /\ ~Has("average")'
    BY <1>1, <1>4 DEF SummaryShape, Has, Adds
  <2>5. QED
    BY <2>1, <2>2, <2>3, <2>4 DEF SummaryKnows
<1>5. CASE step = 3 /\ Adds("early", EarlyExits(about))
  <2> DEFINE E == {e \in W : row[e].trigger = "early_exit"}
  <2>1. shown'["early"] = Cardinality(E)
    BY <1>5 DEF Adds, EarlyExits, Count
  <2>2. /\ ~Has("escalated")' /\ ~Has("average")' /\ Has("statuses")
        /\ shown'["statuses"] = shown["statuses"]
    BY <1>1, <1>5 DEF SummaryShape, Has, Adds
  <2>3. \A e \in E : row'[e].trigger = "early_exit"
    BY <1>2
  <2>4. E \in SUBSET W
    OBVIOUS
  <2>5. shown["statuses"]["complete"] > 0 =>
          \E e \in W : row'[e].status = "complete"
    BY <1>2, <2>2 DEF SummaryKnows
  <2> HIDE DEF E
  <2>6. QED
    BY <2>1, <2>2, <2>3, <2>4, <2>5 DEF SummaryKnows
<1>6. CASE step = 4 /\ Adds("escalated", Escalations(about))
  <2> DEFINE F == {e \in W : row[e].trigger
                               \in {"page_high_risk", "page_medium_risk"}}
  <2>1. shown'["escalated"] = Cardinality(F)
    BY <1>6 DEF Adds, Escalations, Count
  <2>2. /\ Has("early") /\ ~Has("escalated") /\ Has("statuses")
        /\ Has("escalated")' /\ ~Has("average")'
        /\ shown'["statuses"] = shown["statuses"]
        /\ shown'["early"] = shown["early"]
    BY <1>1, <1>6 DEF SummaryShape, Has, Adds
  <2>3. PICK E \in SUBSET W : /\ Cardinality(E) = shown["early"]
                             /\ \A e \in E : row[e].trigger = "early_exit"
    BY <2>2 DEF SummaryKnows
  <2>4. E \cap F = {}
    BY <2>3
  <2>5. Cardinality(E) + Cardinality(F) <= Cardinality(W)
    BY <1>1, <2>4, DisjointCounts
  <2>6. shown["statuses"]["complete"] > 0 =>
          \E e \in W : row'[e].status = "complete"
    BY <1>2, <2>2 DEF SummaryKnows
  <2> HIDE DEF F
  <2>7. QED
    BY <2>1, <2>2, <2>3, <2>5, <2>6 DEF SummaryKnows
<1>7. CASE step = 5 /\ Adds("average", AverageIsNull(about))
  <2>1. /\ Has("early") /\ Has("escalated") /\ Has("statuses")
        /\ shown'["statuses"] = shown["statuses"]
        /\ shown'["early"] = shown["early"]
        /\ shown'["escalated"] = shown["escalated"]
        /\ shown'["average"] = AverageIsNull(about)
        /\ Has("early")' /\ Has("escalated")' /\ Has("statuses")'
    BY <1>1, <1>7 DEF SummaryShape, Has, Adds
  <2>2. ASSUME shown["statuses"]["complete"] > 0
        PROVE  ~AverageIsNull(about) /\ \E e \in W : row'[e].status = "complete"
    <3>1. PICK e \in W : row[e].status = "complete"
      BY <2>1, <2>2 DEF SummaryKnows
    <3>2. row[e].finalClass # Null
      BY <1>1, <3>1 DEF ReadsInv, EvidenceInv, Agreement, EmailsFit, Fits
    <3>3. QED
      BY <1>2, <3>1, <3>2 DEF AverageIsNull
  <2>3. shown["statuses"]["complete"] > 0 => ~shown'["average"]
    BY <2>1, <2>2
  <2>4. shown["early"] + shown["escalated"] <= Cardinality(W)
    BY <2>1 DEF SummaryKnows
  <2>5. QED
    BY <2>1, <2>2, <2>3, <2>4 DEF SummaryKnows
<1>8. QED
  BY <1>1, <1>3, <1>4, <1>5, <1>6, <1>7, SummarySelect

LEMMA SelectSummary ==
  ASSUME ReadsInv, SummaryInv, Select
  PROVE  SummaryInv'
<1> SUFFICES ASSUME kind = "summary", Calm({"added", "removed"})
             PROVE  SummaryInv'
  <2>1. UNCHANGED <<kind, moved>>
    BY DEF Select
  <2>2. QED
    BY <2>1 DEF SummaryInv, Calm
<1>1. /\ UNCHANGED <<vars, kind, about, moved>>
  BY SummarySelect DEF ReadsInv
<1>2. PICK W : W = InWindow(about)
  OBVIOUS
<1>3. InWindow(about)' = W
  BY <1>1, <1>2 DEF InWindow, vars
<1>4. SummarySums(Cardinality(InWindow(about)))'
  BY SelectSums DEF SummaryInv
<1>5. Calm({"requeued"}) => SummaryKnows(W)'
  BY <1>2, SelectKnows DEF SummaryInv
<1>6. SummaryKnows(W)' => SummaryKnows(InWindow(about))'
  BY <1>3 DEF SummaryKnows
<1>7. QED
  BY <1>1, <1>4, <1>5, <1>6 DEF SummaryInv, Calm

LEMMA WriteSummary ==
  ASSUME ClientsWait, ReadsInv, SummaryInv, Write \/ UNCHANGED allVars
  PROVE  SummaryInv'
<1>1. /\ UNCHANGED <<kind, about, step, shown, answered>>
      /\ moved \subseteq moved' /\ [Next]_vars
  BY WriteFrame
<1> SUFFICES ASSUME kind = "summary", Calm({"added", "removed"})'
             PROVE  SummaryInv'
  BY <1>1 DEF SummaryInv
<1>2. PICK W : W = InWindow(about)
  OBVIOUS
<1>3. InWindow(about)' = W
  BY <1>2, WindowKept DEF Calm
<1>4. Calm({"added", "removed"}) /\ (Calm({"requeued"})' => Calm({"requeued"}))
  BY <1>1 DEF Calm
<1>5. SummarySums(Cardinality(InWindow(about)))'
  BY <1>1, <1>2, <1>3, <1>4 DEF SummaryInv, SummarySums, Has
<1>6. ASSUME Calm({"requeued"})'
      PROVE  SummaryKnows(W)'
  <2>1. SummaryKnows(W)
    BY <1>2, <1>4, <1>6 DEF SummaryInv
  <2>2. \A e \in W : Keeps(e) /\ e \in stored
    BY <1>2, <1>6, WindowKept DEF Calm, InWindow
  <2>3. \A e \in W : row[e].status = "complete" =>
          /\ row'[e].status = "complete"
          /\ row'[e].trigger = row[e].trigger
    BY <2>2 DEF Keeps, SameRun
  <2>4. \A e \in W : row[e].trigger = "early_exit" =>
          row'[e].trigger = "early_exit"
    BY <2>2, <2>3, TriggersAreFinal DEF Null
  <2>5. QED
    BY <1>1, <2>1, <2>3, <2>4 DEF SummaryKnows, Has
<1>7. SummaryKnows(W)' => SummaryKnows(InWindow(about))'
  BY <1>3 DEF SummaryKnows
<1>8. QED
  BY <1>5, <1>6, <1>7 DEF SummaryInv

LEMMA QuerySummary ==
  ASSUME ReadsInv, SummaryInv, Query
  PROVE  SummaryInv'
<1>1. CASE Select
  BY <1>1, SelectSummary
<1>2. CASE kind' # "summary"
  BY <1>2 DEF SummaryInv
<1>3. CASE \E w \in Windows : AskSummary(w)
  <2>1. DOMAIN shown' = {}
    BY <1>3 DEF AskSummary, Ask, ReadsInv, Shape
  <2>2. QED
    BY <2>1 DEF SummaryInv, SummarySums, SummaryKnows, Has
<1>4. QED
  BY <1>1, <1>2, <1>3 DEF Query, AskUsage, AskDetail, StartWalk, Ask, Close,
    FetchPage

\* SummaryAddsUp: as long as clients wait, the numbers of a summary add up,
\* although six SELECTs count them while runs go on.
THEOREM SummariesAddUp ==
  ASSUME ClientsWait
  PROVE  SpecReads => []SummaryAddsUp
<1> DEFINE Inv == ReadsInv /\ SummaryInv
<1>1. InitReads => Inv
  BY ReadsInit DEF InitReads, SummaryInv
<1>2. Inv /\ [NextReads]_allVars => Inv'
  BY ReadsNext, QuerySummary, WriteSummary DEF NextReads, Query
<1>3. Inv => SummaryAddsUp
  <2> SUFFICES ASSUME Inv, Answered("summary"), Calm({"added", "removed"})
               PROVE  SummaryAddsUp
    BY DEF SummaryAddsUp
  <2>1. /\ kind = "summary" /\ Has("total") /\ Has("classes") /\ Has("statuses")
        /\ Has("escalated") /\ Has("average")
    BY DEF Answered, ReadsInv, Shape, SummaryShape
  <2>2. /\ Sum(shown["classes"]) = shown["total"]
        /\ Sum(shown["statuses"]) = shown["total"]
        /\ Calm({"requeued"}) =>
             /\ shown["early"] + shown["escalated"] <= shown["total"]
             /\ shown["statuses"]["complete"] > 0 => ~shown["average"]
    BY <2>1 DEF SummaryInv, SummarySums, SummaryKnows
  <2>3. QED
    BY <2>2 DEF SummaryAddsUp, SummaryStats
<1>4. QED
  BY <1>1, <1>2, <1>3, PTL DEF SpecReads

-----------------------------------------------------------------------------
(***************************************************************************)
(* The charts.                                                             *)
(***************************************************************************)
LEMMA BucketsAddUp ==
  ASSUME TypeOK, NEW w, NEW c \in Classes
  PROVE  Sum([b \in DOMAIN VerdictsOverTime(w) |-> VerdictsOverTime(w)[b][c]])
           = ClassificationCounts(w)[c]
<1> DEFINE S == InWindow(w)
           bucket == [e \in S |-> ReceivedAt[e] \div BucketLength]
           B == {bucket[e] : e \in S}
           W == {e \in S : Effective(e) = c}
           key == [e \in W |-> bucket[e]]
           sum == [b \in B |-> Cardinality({e \in W : key[e] = b})]
<1>1. S \in SUBSET Emails /\ W \in SUBSET Emails
  BY QueriedEmails
<1>2. IsFiniteSet(B)
  <2>1. bucket \in Surjection(S, B)
    <3> HIDE DEF S
    <3>1. bucket \in [S -> B]
      OBVIOUS
    <3>2. \A b \in B : \E e \in S : bucket[e] = b
      OBVIOUS
    <3> HIDE DEF bucket, B
    <3>3. QED
      BY <3>1, <3>2, Fun_IsSurj
  <2>2. IsFiniteSet(S)
    BY <1>1, Finite
  <2>3. QED
    BY <2>1, <2>2, FS_Surjection
<1>3. key \in [W -> B]
  OBVIOUS
<1>4. Sum(sum) = Cardinality(W)
  <2> HIDE DEF B, W, key
  <2>1. QED
    BY <1>1, <1>2, <1>3, SumByKey
<1>5. B = {ReceivedAt[e] \div BucketLength : e \in S}
  OBVIOUS
<1>6. \A b : {e \in W : key[e] = b}
               = {e \in S : /\ ReceivedAt[e] \div BucketLength = b
                            /\ Effective(e) = c}
  OBVIOUS
<1>7. [b \in DOMAIN VerdictsOverTime(w) |-> VerdictsOverTime(w)[b][c]] = sum
  <2>1. DOMAIN VerdictsOverTime(w) = B
    BY <1>5 DEF VerdictsOverTime
  <2>2. \A b \in B : VerdictsOverTime(w)[b][c]
                       = Cardinality({e \in W : key[e] = b})
    <3> SUFFICES ASSUME NEW b \in B
                 PROVE  VerdictsOverTime(w)[b][c]
                          = Cardinality({e \in W : key[e] = b})
      OBVIOUS
    <3>1. VerdictsOverTime(w)[b][c]
            = Cardinality({e \in S : /\ ReceivedAt[e] \div BucketLength = b
                                     /\ Effective(e) = c})
      BY <1>5 DEF VerdictsOverTime, Count
    <3>2. QED
      BY <1>6, <3>1
  <2> HIDE DEF B, W, key
  <2>3. QED
    BY <2>1, <2>2
<1>8. ClassificationCounts(w)[c] = Cardinality(W)
  BY DEF ClassificationCounts, Count
<1>9. QED
  BY <1>4, <1>7, <1>8

LEMMA TriggersAddUp ==
  ASSUME ReadsInv, NEW w
  PROVE  Sum(TriggerBreakdown(w)) = PipelineStatusCounts(w)["complete"]
<1> DEFINE W == {e \in InWindow(w) : row[e].status = "complete"}
           key == [e \in W |-> row[e].trigger]
<1>1. TypeOK /\ \A e \in InWindow(w) : e \in stored /\ e \in Emails
  BY QueriedEmails DEF InWindow, ReadsInv, EvidenceInv, Basis
<1>2. \A e \in InWindow(w) : /\ row[e].trigger \in Triggers \cup {Null}
                             /\ row[e].trigger # Null <=> e \in W
  BY <1>1, TriggersAreFinal DEF TypeOK, Row
<1>3. W \in SUBSET Emails /\ key \in [W -> Triggers]
  BY <1>1, <1>2
<1>4. \A t \in Triggers : {e \in InWindow(w) : row[e].trigger = t}
                            = {e \in W : key[e] = t}
  BY <1>2 DEF Triggers, Null
<1>5. TriggerBreakdown(w)
        = [t \in Triggers |-> Cardinality({e \in W : key[e] = t})]
  BY <1>4 DEF TriggerBreakdown, Count
<1>6. PipelineStatusCounts(w)["complete"] = Cardinality(W)
  BY DEF PipelineStatusCounts, Count, Statuses
<1> HIDE DEF W, key
<1>7. Sum([t \in Triggers |-> Cardinality({e \in W : key[e] = t})])
        = Cardinality(W)
  BY <1>3, Labels, SumByKey
<1>8. QED
  BY <1>5, <1>6, <1>7

\* ChartsAgree: as long as clients wait, the charts of a window agree with its
\* summary on every snapshot, whatever the runs have stored so far.
THEOREM ChartsAreConsistent ==
  ASSUME ClientsWait
  PROVE  SpecReads => []ChartsAgree
<1>1. InitReads => ReadsInv
  BY ReadsInit
<1>2. ReadsInv /\ [NextReads]_allVars => ReadsInv'
  BY ReadsNext
<1>3. ReadsInv => ChartsAgree
  BY BucketsAddUp, TriggersAddUp DEF ChartsAgree, ReadsInv, EvidenceInv, Basis
<1>4. QED
  BY <1>1, <1>2, <1>3, PTL DEF SpecReads
=============================================================================
