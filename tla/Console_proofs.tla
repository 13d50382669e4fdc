---------------------------- MODULE Console_proofs ----------------------------
(* What the pages of the dashboard and the operators' commands promise, each beside
   the others: walks through lists (Listing), flags (Risk), messages (Notify),
   views of disputes (DisputeViews), figures and the forecast (Figures_proofs),
   migrations (Migrations) and the seed (Seed).  Every part has an inductive
   invariant of its own; they are put together at the end. *)
EXTENDS Console, Figures_proofs, FiniteSetTheorems, SequenceTheorems

-----------------------------------------------------------------------------
(* Lists.  Rows of a later created_at come before a row in any order that a query
   may choose: as long as none of those that fit leaves, they are no fewer, and as
   long as none comes, no more. *)
Rank(created, fitting, i) == Cardinality({j \in fitting : created[j] > created[i]})

LEMMA RankType ==
    ASSUME NEW created, NEW S, IsFiniteSet(S), NEW i
    PROVE  Rank(created, S, i) \in Nat
<1>1. {j \in S : created[j] > created[i]} \in SUBSET S
  OBVIOUS
<1> QED
  BY <1>1, FS_Subset, FS_CardinalityType DEF Rank

LEMMA RankMonotone ==
    ASSUME NEW before, NEW after, NEW S, NEW T, IsFiniteSet(T), S \subseteq T, NEW i,
           before[i] = after[i], \A j \in S : before[j] = after[j]
    PROVE  Rank(before, S, i) <= Rank(after, T, i)
<1>1. {j \in S : before[j] > before[i]} \in SUBSET {j \in T : after[j] > after[i]}
  OBVIOUS
<1>2. {j \in T : after[j] > after[i]} \in SUBSET T
  OBVIOUS
<1> QED
  BY <1>1, <1>2, FS_Subset DEF Rank

\* A row that fits is one of those that fit, but not one of those before it.
LEMMA RankBound ==
    ASSUME NEW created, NEW S, IsFiniteSet(S), NEW i \in S, created[i] \in Int
    PROVE  Rank(created, S, i) < Cardinality(S)
<1> DEFINE A == {j \in S : created[j] > created[i]}
<1>1. A \in SUBSET S /\ i \notin A
  OBVIOUS
<1> HIDE DEF A
<1>2. Cardinality(A) <= Cardinality(S) /\ Cardinality(A) # Cardinality(S)
  BY <1>1, FS_Subset
<1>3. Cardinality(A) \in Nat /\ Cardinality(S) \in Nat
  BY <1>1, FS_Subset, FS_CardinalityType
<1> QED
  BY <1>2, <1>3 DEF Rank, A

LEMMA UnionCount ==
    ASSUME NEW S, NEW T, IsFiniteSet(S), IsFiniteSet(T)
    PROVE  /\ IsFiniteSet(S \cup T) /\ Cardinality(S \cup T) \in Nat
           /\ Cardinality(S \cup T) <= Cardinality(S) + Cardinality(T)
           /\ S \cap T = {} <=> Cardinality(S \cup T) = Cardinality(S) + Cardinality(T)
<1>1. /\ IsFiniteSet(S \cup T)
      /\ Cardinality(S \cup T) = Cardinality(S) + Cardinality(T) - Cardinality(S \cap T)
  BY FS_Union
<1>2. IsFiniteSet(S \cap T)
  BY FS_Intersection
<1>3. /\ Cardinality(S) \in Nat /\ Cardinality(T) \in Nat
      /\ Cardinality(S \cup T) \in Nat /\ Cardinality(S \cap T) \in Nat
  BY <1>1, <1>2, FS_CardinalityType
<1>4. S \cap T = {} <=> Cardinality(S \cap T) = 0
  BY <1>2, FS_EmptySet
<1> QED
  BY <1>1, <1>3, <1>4

LEMMA IntervalSize ==
    ASSUME NEW a \in Int, NEW b \in Int, a <= b + 1
    PROVE  IsFiniteSet(a .. b) /\ Cardinality(a .. b) = b + 1 - a
<1>1. (a > b => b + 1 - a = 0) /\ b - a + 1 = b + 1 - a
  OBVIOUS
<1> QED
  BY <1>1, FS_Interval

\* Whatever order a query chooses, a row is at one of its places: the rows before
\* it have places of their own below, and those after it, above.
LEMMA PlaceOfRow ==
    ASSUME NEW S, IsFiniteSet(S), \A j \in S : createdAt[j] \in Int,
           NEW place \in Orders(S), NEW i \in S
    PROVE  place[i] \in Places(S, i)
<1> DEFINE A == Ahead(S, i)
           E == Tied(S, i)
           B == {j \in S : createdAt[j] < createdAt[i]}
           n == Cardinality(S)
<1>1. A \in SUBSET S /\ E \in SUBSET S /\ B \in SUBSET S
  BY DEF Ahead, Tied
<1>2. /\ IsFiniteSet(A) /\ IsFiniteSet(E) /\ IsFiniteSet(B)
      /\ Cardinality(A) \in Nat /\ Cardinality(E) \in Nat /\ Cardinality(B) \in Nat /\ n \in Nat
  BY <1>1, FS_Subset, FS_CardinalityType
<1>3. \A j \in S : createdAt[j] > createdAt[i] \/ createdAt[j] = createdAt[i] \/ createdAt[j] < createdAt[i]
  OBVIOUS
<1>4. /\ A \cap E = {} /\ (A \cup E) \cap B = {} /\ (A \cup E) \cup B = S
  BY <1>3 DEF Ahead, Tied
<1>5. /\ place \in [S -> 0 .. n - 1]
      /\ \A j, k \in S : /\ j # k => place[j] # place[k]
                         /\ createdAt[j] > createdAt[k] => place[j] < place[k]
  BY DEF Orders
<1>6. place[i] \in 0 .. n - 1 /\ \A j \in S : place[j] \in 0 .. n - 1
  BY <1>5
<1>7. \A j \in A : place[j] \in 0 .. place[i] - 1
  BY <1>2, <1>5, <1>6 DEF Ahead
<1>8. \A j \in B : place[j] \in place[i] + 1 .. n - 1
  <2>1. ASSUME NEW j \in B PROVE createdAt[i] > createdAt[j] /\ j \in S
    OBVIOUS
  <2> HIDE DEF B, n
  <2> QED
    BY <1>2, <1>5, <1>6, <2>1
<1> HIDE DEF A, E, B, n
<1>9. Cardinality(A) <= place[i]
  <2> DEFINE f == [j \in A |-> place[j]]
  <2>1. f \in Injection(A, 0 .. place[i] - 1)
    BY <1>1, <1>5, <1>7 DEF Injection, IsInjective
  <2>2. place[i] \in Nat /\ 0 \in Int /\ place[i] - 1 \in Int /\ 0 <= (place[i] - 1) + 1
    BY <1>2, <1>6
  <2>3. IsFiniteSet(0 .. place[i] - 1) /\ Cardinality(0 .. place[i] - 1) = (place[i] - 1) + 1 - 0
    BY <2>2, IntervalSize
  <2> QED
    BY <2>1, <2>2, <2>3, FS_Injection
<1>10. Cardinality(B) <= n - 1 - place[i]
  <2> DEFINE f == [j \in B |-> place[j]]
  <2>1. f \in Injection(B, place[i] + 1 .. n - 1)
    BY <1>1, <1>5, <1>8 DEF Injection, IsInjective
  <2>2. /\ place[i] + 1 \in Int /\ n - 1 \in Int /\ place[i] \in Nat
        /\ place[i] + 1 <= (n - 1) + 1
    BY <1>2, <1>6
  <2>3. /\ IsFiniteSet(place[i] + 1 .. n - 1)
        /\ Cardinality(place[i] + 1 .. n - 1) = (n - 1) + 1 - (place[i] + 1)
    BY <2>2, IntervalSize
  <2> QED
    BY <1>2, <2>1, <2>2, <2>3, FS_Injection
<1>11. n = Cardinality(A) + Cardinality(E) + Cardinality(B)
  <2> DEFINE D == A \cup E
  <2>1. IsFiniteSet(D) /\ Cardinality(D) = Cardinality(A) + Cardinality(E)
    BY <1>2, <1>4, UnionCount
  <2>2. D \cap B = {} /\ D \cup B = S
    BY <1>4
  <2> HIDE DEF D
  <2>3. Cardinality(D \cup B) = Cardinality(D) + Cardinality(B)
    BY <1>2, <2>1, <2>2, UnionCount
  <2> QED
    BY <2>1, <2>2, <2>3 DEF n
<1> QED
  BY <1>2, <1>6, <1>9, <1>10, <1>11 DEF Places, A, E

Paged(nth, limit) == nth \in Nat /\ limit \in Nat \ {0}

LEMMA OffsetType ==
    ASSUME NEW nth, NEW limit, Paged(nth, limit)
    PROVE  /\ Offset(nth, limit) \in Int /\ Offset(nth + 1, limit) = Offset(nth, limit) + limit
           /\ \A n \in Int : n \in Window(nth, limit) <=>
                                n >= Offset(nth, limit) /\ n < Offset(nth + 1, limit)
<1>1. Offset(nth, limit) \in Int /\ Offset(nth + 1, limit) = Offset(nth, limit) + limit
  BY DEF Offset, Paged
<1> QED
  BY <1>1 DEF Window, Paged

\* A row that the page does not part from others of its created_at is on it when the
\* number of rows before it says so.
LEMMA RowOnPage ==
    ASSUME NEW S, IsFiniteSet(S), \A j \in S : createdAt[j] \in Int,
           NEW place \in Orders(S), NEW window, NEW i \in S, i \notin CutBy(S, window)
    PROVE  place[i] \in window <=> Rank(createdAt, S, i) \in window
<1>1. place[i] \in Places(S, i)
  BY PlaceOfRow
<1>2. Rank(createdAt, S, i) \in Places(S, i)
  <2>1. /\ Ahead(S, i) \in SUBSET S /\ Tied(S, i) \in SUBSET S
        /\ Rank(createdAt, S, i) = Cardinality(Ahead(S, i))
    BY DEF Ahead, Tied, Rank
  <2>2. Cardinality(Ahead(S, i)) \in Nat /\ Cardinality(Tied(S, i)) \in Nat
    BY <2>1, FS_Subset, FS_CardinalityType
  <2> QED
    BY <1>1, <2>1, <2>2 DEF Places
<1>3. Places(S, i) \cap window = {} \/ Places(S, i) \subseteq window
  BY DEF CutBy
<1> QED
  BY <1>1, <1>2, <1>3

LEMMA PageFits ==
    ASSUME NEW S, IsFiniteSet(S), NEW place \in Orders(S), NEW nth, NEW limit, Paged(nth, limit)
    PROVE  Cardinality({i \in S : place[i] \in Window(nth, limit)}) <= limit
<1> DEFINE first == Offset(nth, limit)
           P     == {i \in S : place[i] \in Window(nth, limit)}
           f     == [i \in P |-> place[i]]
<1>1. first \in Int /\ limit \in Nat \ {0} /\ Window(nth, limit) = first .. first + limit - 1
  BY OffsetType DEF Paged, Window
<1>2. f \in Injection(P, Window(nth, limit))
  BY DEF Orders, Injection, IsInjective
<1>3. IsFiniteSet(Window(nth, limit)) /\ Cardinality(Window(nth, limit)) = limit
  <2> HIDE DEF first
  <2>1. first + limit - 1 \in Int /\ ~ first > first + limit - 1
    BY <1>1
  <2>2. (first + limit - 1) - first + 1 = limit
    BY <1>1
  <2> QED
    BY <1>1, <2>1, <2>2, FS_Interval
<1> HIDE DEF f, first
<1> QED
  BY <1>2, <1>3, FS_Injection
-----------------------------------------------------------------------------
\* The rows that the pages read so far have passed.
Reached == Offset(IF walk.gotRows THEN walk.page + 1 ELSE walk.page, walk.limit)

Unseen == walk.stayed \ (walk.seen \cup walk.items)

(* While a walk goes on, but for the rows that a page parts from others of their
   created_at.  If no row has left, a row that is still to be shown has as many
   before it as the pages have passed; a count that is not late counts it, and so
   the page is not the last.  If no row has come, what was shown and still fits is
   among what the pages have passed. *)
Walking ==
    /\ walk.stayed \subseteq ShownOf(rows)
    /\ ~ walk.left => \A i \in Unseen \ walk.cut : Rank(createdAt, ShownOf(rows), i) >= Reached
    /\ ~ walk.left /\ ~ walk.late /\ walk.total # -1 =>
          IF walk.gotRows THEN Unseen \ walk.cut # {} => Reached < walk.total
          ELSE Cardinality(ShownOf(rows)) <= walk.total
    /\ ~ walk.came =>
          /\ \A i \in ((walk.seen \cup walk.items) \cap ShownOf(rows)) \ walk.cut :
                Rank(createdAt, ShownOf(rows), i) < Reached
          /\ walk.seen \cap walk.items \subseteq walk.cut

ListInv ==
    /\ ListTypeOK
    /\ ~ walk.gotRows => walk.items = {}
    /\ ~ walk.done => Walking
    /\ NothingMissed /\ NothingTwice

LEMMA NoWalkType == NoWalk \in Walk /\ Cardinality(NoWalk.items) <= NoWalk.limit
BY FS_EmptySet, ListingAssumption DEF NoWalk, Walk, RowState

LEMMA ListInitInv == ListInit => ListInv
<1> SUFFICES ASSUME ListInit PROVE ListInv
  OBVIOUS
<1>1. ListTypeOK
  <2>1. <<>> \in Seq(RowState \cup {"gone"}) /\ <<>> \in Seq(1 .. MaxCreatedAt) /\ Len(<<>>) = 0
    OBVIOUS
  <2> QED
    BY <2>1, NoWalkType, ListingAssumption DEF ListInit, ListTypeOK
<1> QED
  BY <1>1 DEF ListInit, ListInv, NoWalk, NothingMissed, NothingTwice

LEMMA ShownType ==
    ASSUME NEW table, NEW where, table \in Seq(RowState \cup {"gone"}), Len(table) <= MaxRows
    PROVE  /\ Fitting(where, table) \in SUBSET (1 .. MaxRows)
           /\ Fitting(where, table) \in SUBSET Nat
           /\ Fitting(where, table) \subseteq DOMAIN table
           /\ IsFiniteSet(Fitting(where, table))
<1>1. MaxRows \in Nat /\ Len(table) \in Nat /\ DOMAIN table = 1 .. Len(table)
  BY ListingAssumption, LenProperties
<1>2. Fitting(where, table) \in SUBSET (1 .. MaxRows)
  BY <1>1 DEF Fitting
<1>3. IsFiniteSet(1 .. MaxRows)
  BY <1>1, FS_Interval
<1> QED
  BY <1>1, <1>2, <1>3, FS_Subset DEF Fitting

LEMMA TimesType ==
    ASSUME ListTypeOK
    PROVE  DOMAIN createdAt = DOMAIN rows /\ \A i \in DOMAIN rows : createdAt[i] \in Int
<1>1. DOMAIN rows = 1 .. Len(rows) /\ DOMAIN createdAt = 1 .. Len(createdAt)
  BY LenProperties DEF ListTypeOK
<1>2. \A i \in DOMAIN createdAt : createdAt[i] \in 1 .. MaxCreatedAt
  BY <1>1, ElementOfSeq DEF ListTypeOK
<1> QED
  BY <1>1, <1>2, ListingAssumption DEF ListTypeOK

LEMMA WalkPaged ==
    ASSUME ListTypeOK
    PROVE  /\ Paged(walk.page, walk.limit) /\ Paged(walk.page + 1, walk.limit)
           /\ Reached \in Int
<1>1. walk.page \in Nat /\ walk.limit \in Limit \cup {1}
  BY DEF ListTypeOK, Walk
<1>2. walk.limit \in Nat \ {0}
  <2>1. CASE walk.limit \in Limit
    BY <2>1, ListingAssumption
  <2>2. CASE walk.limit = 1
    BY <2>2
  <2> QED
    BY <1>1, <2>1, <2>2
<1>3. Paged(walk.page, walk.limit) /\ Paged(walk.page + 1, walk.limit)
  BY <1>1, <1>2 DEF Paged
<1>4. Offset(walk.page, walk.limit) \in Int /\ Offset(walk.page + 1, walk.limit) \in Int
  BY <1>3, OffsetType
<1> QED
  BY <1>3, <1>4 DEF Reached

\* The first page is asked for.
LEMMA ListOpens ==
    ASSUME ListInv, NEW list \in Shown, NEW limit \in Limit, Open(list, limit)
    PROVE  ListInv'
<1>1. list.where \subseteq RowState /\ list.reopens \in BOOLEAN /\ list.removes \in BOOLEAN
  <2>1. PICK name \in List, state \in State :
           list = [where |-> Where(name, state),
                   reopens |-> name \notin {"flags", "alerts", "notifications", "invitations"},
                   removes |-> name \in {"admins", "invitations"}]
    BY DEF Shown
  <2> QED
    BY <2>1 DEF Where
<1>2. Fitting(list.where, rows) \in SUBSET (1 .. MaxRows) /\ IsFiniteSet(Fitting(list.where, rows))
  BY ShownType DEF ListInv, ListTypeOK
<1>3. limit \in Nat \ {0} /\ rows' = rows /\ createdAt' = createdAt /\ limit \in Limit \cup {1}
  BY ListingAssumption DEF Open
<1>4. walk' = [where |-> list.where, reopens |-> list.reopens, removes |-> list.removes,
               limit |-> limit, page |-> 1, gotRows |-> FALSE, items |-> {}, total |-> -1,
               seen |-> {}, twice |-> {}, stayed |-> Fitting(list.where, rows),
               cut |-> {}, left |-> FALSE, came |-> FALSE, late |-> FALSE, done |-> FALSE]
  BY DEF Open, NoWalk
<1>5. -1 \in -1 .. MaxRows
  BY ListingAssumption
<1>6. walk' \in Walk /\ walk'.items = {} /\ walk'.page = 1 /\ walk'.limit = limit
      /\ walk'.where = list.where /\ walk'.stayed = Fitting(list.where, rows) /\ walk'.seen = {}
      /\ ~ walk'.gotRows /\ walk'.total = -1 /\ ~ walk'.done /\ walk'.twice = {}
  BY <1>1, <1>2, <1>3, <1>4, <1>5 DEF Walk
<1>7. ListTypeOK'
  BY <1>3, <1>6, FS_EmptySet DEF ListInv, ListTypeOK
<1>8. Reached' = 0
  BY <1>3, <1>6 DEF Reached, Offset
<1>9. \A i : Rank(createdAt', ShownOf(rows)', i) >= 0
  <2>1. ShownOf(rows)' = Fitting(list.where, rows)
    BY <1>3, <1>6 DEF ShownOf
  <2> QED
    BY <1>2, <2>1, RankType
<1>10. Walking'
  BY <1>3, <1>6, <1>8, <1>9 DEF Walking, ShownOf
<1> QED
  BY <1>6, <1>7, <1>10 DEF ListInv, NothingMissed, NothingTwice

\* The rows of the page are read.
LEMMA ListRowsRead == ASSUME ListInv, QueryRows PROVE ListInv'
<1> DEFINE S      == ShownOf(rows)
           here   == Offset(walk.page, walk.limit)
           next   == Offset(walk.page + 1, walk.limit)
           window == Window(walk.page, walk.limit)
           C      == CutBy(S, window)
<1>1. PICK place \in Orders(S) :
         walk' = [walk EXCEPT !.gotRows = TRUE, !.items = {i \in S : place[i] \in window},
                              !.cut = walk.cut \cup C]
  BY DEF QueryRows, PagesOf
<1> DEFINE P == {i \in S : place[i] \in window}
<1>2. /\ walk \in Walk /\ ListTypeOK
      /\ ~ walk.done /\ ~ walk.gotRows /\ walk.items = {}
      /\ rows' = rows /\ createdAt' = createdAt
  BY DEF QueryRows, ListInv, ListTypeOK
<1>3. /\ S \in SUBSET (1 .. MaxRows) /\ S \subseteq DOMAIN rows /\ IsFiniteSet(S)
      /\ \A i \in S : createdAt[i] \in Int
  BY <1>2, ShownType, TimesType DEF ListTypeOK, ShownOf
<1>4. P \in SUBSET S /\ C \in SUBSET S
  BY DEF CutBy
<1>5. Paged(walk.page, walk.limit) /\ walk.limit \in Nat
  BY <1>2, WalkPaged DEF Paged
<1>6. Cardinality(P) <= walk.limit
  BY <1>3, <1>5, PageFits
<1>7. /\ here \in Int /\ next = here + walk.limit
      /\ \A n \in Int : n \in window <=> n >= here /\ n < next
  BY <1>5, OffsetType
<1>8. \A i : Rank(createdAt, S, i) \in Nat
  BY <1>3, RankType
<1>9. \A i \in S \ C : i \in P <=> Rank(createdAt, S, i) >= here /\ Rank(createdAt, S, i) < next
  <2>1. ASSUME NEW i \in S, i \notin C
        PROVE  place[i] \in window <=> Rank(createdAt, S, i) \in window
    BY <1>3, <2>1, RowOnPage
  <2> HIDE DEF S, window, here, next, C
  <2> QED
    BY <1>7, <1>8, <2>1
<1>10. walk' = [walk EXCEPT !.gotRows = TRUE, !.items = P, !.cut = walk.cut \cup C]
  BY <1>1
<1>11. ShownOf(rows)' = S
  BY <1>2, <1>10 DEF ShownOf, Walk
<1>12. Reached = here /\ Reached' = next
  BY <1>2, <1>10 DEF Reached, Walk
<1> HIDE DEF here, next, window, P, C, S
<1>13. walk' \in Walk
  <2>1. P \in SUBSET (1 .. MaxRows) /\ walk.cut \cup C \in SUBSET (1 .. MaxRows)
    BY <1>2, <1>3, <1>4 DEF Walk
  <2> QED
    BY <1>2, <1>10, <2>1 DEF Walk
<1>14. /\ walk'.stayed = walk.stayed /\ walk'.seen = walk.seen /\ walk'.items = P
       /\ walk'.left = walk.left /\ walk'.came = walk.came /\ walk'.late = walk.late
       /\ walk'.total = walk.total /\ walk'.done = walk.done /\ walk'.gotRows = TRUE
       /\ walk'.twice = walk.twice /\ walk'.cut = walk.cut \cup C /\ walk'.limit = walk.limit
  BY <1>2, <1>10 DEF Walk
<1>15. ListTypeOK'
  BY <1>2, <1>6, <1>13, <1>14 DEF ListTypeOK
<1>16. Unseen' = Unseen \ P
  BY <1>2, <1>14 DEF Unseen
<1>17. Walking
  BY <1>2 DEF ListInv
<1>18. walk.stayed \subseteq S
  BY <1>17 DEF Walking, S
<1>19. ASSUME ~ walk.left, NEW i \in Unseen' \ walk'.cut
       PROVE  i \in S /\ Rank(createdAt, S, i) >= next
  <2>1. i \in Unseen \ walk.cut /\ i \in S \ C /\ i \notin P
    BY <1>14, <1>16, <1>18, <1>19 DEF Unseen
  <2>2. Rank(createdAt, S, i) >= here
    BY <1>12, <1>17, <1>19, <2>1 DEF Walking, S
  <2> QED
    BY <1>5, <1>7, <1>8, <1>9, <2>1, <2>2
<1>20. ASSUME ~ walk.left, ~ walk.late, walk.total # -1, Unseen' \ walk'.cut # {}
       PROVE  next < walk.total
  <2>1. Cardinality(S) <= walk.total
    BY <1>2, <1>17, <1>20 DEF Walking, S
  <2>2. PICK i \in Unseen' \ walk'.cut : TRUE
    BY <1>20
  <2>3. i \in S /\ Rank(createdAt, S, i) >= next
    BY <1>19, <1>20
  <2>4. Rank(createdAt, S, i) < Cardinality(S) /\ Cardinality(S) \in Nat
    BY <1>3, <2>3, RankBound, FS_CardinalityType
  <2>5. walk.total \in Int
    BY <1>2, ListingAssumption DEF Walk
  <2> QED
    BY <1>5, <1>7, <1>8, <2>1, <2>3, <2>4, <2>5
<1>21. ASSUME ~ walk.came
       PROVE  /\ \A i \in ((walk.seen \cup P) \cap S) \ walk'.cut : Rank(createdAt, S, i) < next
              /\ walk.seen \cap P \subseteq walk'.cut
  <2>1. \A i \in (walk.seen \cap S) \ walk.cut : Rank(createdAt, S, i) < here
    BY <1>2, <1>12, <1>17, <1>21 DEF Walking, S
  <2>2. P \subseteq S /\ walk'.cut = walk.cut \cup C
    BY <1>4, <1>14
  <2> QED
    BY <1>5, <1>7, <1>8, <1>9, <2>1, <2>2
<1>22. Walking'
  BY <1>2, <1>11, <1>12, <1>14, <1>18, <1>19, <1>20, <1>21 DEF Walking
<1> QED
  BY <1>2, <1>14, <1>15, <1>22 DEF ListInv, NothingMissed, NothingTwice

\* ... and counted.
LEMMA ListCounted == ASSUME ListInv, QueryCount PROVE ListInv'
<1> DEFINE S == ShownOf(rows)
<1>1. /\ walk \in Walk /\ ListTypeOK /\ ~ walk.done
      /\ rows' = rows /\ createdAt' = createdAt /\ walk' = [walk EXCEPT !.total = Cardinality(S)]
  BY DEF QueryCount, ListInv, ListTypeOK
<1>2. S \in SUBSET (1 .. MaxRows) /\ IsFiniteSet(S) /\ \A i \in S : createdAt[i] \in Int
  BY <1>1, ShownType, TimesType DEF ListTypeOK, ShownOf
<1>3. MaxRows \in Nat /\ IsFiniteSet(1 .. MaxRows) /\ Cardinality(1 .. MaxRows) = MaxRows
  BY ListingAssumption, FS_Interval
<1>4. Cardinality(S) \in Nat /\ Cardinality(S) <= MaxRows
  BY <1>2, <1>3, FS_Subset, FS_CardinalityType
<1> HIDE DEF S
<1>5. walk' \in Walk
  BY <1>1, <1>3, <1>4 DEF Walk
<1>6. ListTypeOK'
  BY <1>1, <1>5 DEF ListTypeOK, Walk
<1>7. /\ walk'.where = walk.where
      /\ walk'.stayed = walk.stayed /\ walk'.seen = walk.seen /\ walk'.items = walk.items
      /\ walk'.left = walk.left /\ walk'.came = walk.came /\ walk'.late = walk.late
      /\ walk'.total = Cardinality(S) /\ walk'.done = walk.done /\ walk'.gotRows = walk.gotRows
      /\ walk'.twice = walk.twice /\ walk'.page = walk.page /\ walk'.limit = walk.limit
      /\ walk'.cut = walk.cut
  BY <1>1 DEF Walk
<1>8. ShownOf(rows)' = ShownOf(rows) /\ Reached' = Reached /\ Unseen' = Unseen
  BY <1>1, <1>7 DEF ShownOf, Reached, Unseen
<1>9. Walking
  BY <1>1 DEF ListInv
<1>10. ASSUME ~ walk.left, Unseen \ walk.cut # {} PROVE Reached < Cardinality(S)
  <2>1. PICK i \in Unseen \ walk.cut : TRUE
    BY <1>10
  <2>2. i \in S /\ Rank(createdAt, S, i) >= Reached
    BY <1>9, <1>10 DEF Walking, S, Unseen
  <2>3. Rank(createdAt, S, i) < Cardinality(S) /\ Rank(createdAt, S, i) \in Nat
    BY <1>2, <2>2, RankBound, RankType
  <2>4. Reached \in Int
    BY <1>1, WalkPaged
  <2> QED
    BY <1>4, <2>2, <2>3, <2>4
<1>11. Walking'
  BY <1>1, <1>4, <1>7, <1>8, <1>9, <1>10 DEF Walking, S
<1> QED
  BY <1>1, <1>6, <1>7, <1>11 DEF ListInv, NothingMissed, NothingTwice

\* A page that is the last has passed as many rows as were counted.
LEMMA LastPage ==
    ASSUME NEW nth \in Nat, NEW limit \in Nat \ {0}, NEW total \in Nat,
           nth >= TotalPages(total, limit)
    PROVE  total <= Offset(nth + 1, limit)
<1>1. Offset(nth + 1, limit) = nth * limit
  BY DEF Offset
<1>2. CASE total = 0
  <2>1. nth * limit >= 0
    OBVIOUS
  <2> QED
    BY <1>1, <1>2, <2>1
<1>3. CASE total # 0
  <2> DEFINE pages == (total + limit - 1) \div limit
  <2>1. pages \in Nat /\ total <= pages * limit
    BY <1>3
  <2>2. nth >= pages
    BY <1>3 DEF TotalPages
  <2>3. nth * limit >= pages * limit
    BY <2>1, <2>2
  <2> QED
    BY <1>1, <2>1, <2>3
<1> QED
  BY <1>2, <1>3

\* The page is shown, and the next is asked for.
LEMMA ListTurns == ASSUME ListInv, Turn PROVE ListInv'
<1> DEFINE S    == ShownOf(rows)
           last == walk.page >= TotalPages(walk.total, walk.limit)
<1>1. /\ walk \in Walk /\ ListTypeOK
      /\ ~ walk.done /\ walk.gotRows /\ walk.total # -1
      /\ rows' = rows /\ createdAt' = createdAt
  BY DEF Turn, ListInv, ListTypeOK
<1>2. walk' = [walk EXCEPT
               !.seen = walk.seen \cup walk.items,
               !.twice = walk.twice \cup (walk.seen \cap walk.items),
               !.page = IF last THEN walk.page ELSE walk.page + 1,
               !.late = last /\ walk.late,
               !.items = {}, !.total = -1, !.gotRows = FALSE, !.done = last]
  BY DEF Turn
<1> HIDE DEF S, last
<1>3. last \in BOOLEAN
  BY DEF last
<1>4. -1 \in -1 .. MaxRows
  BY ListingAssumption
<1>5. walk' \in Walk
  <2> DEFINE twice == walk.twice \cup (walk.seen \cap walk.items)
             late  == last /\ walk.late
             nth  == IF last THEN walk.page ELSE walk.page + 1
  <2>1. twice \in SUBSET (1 .. MaxRows) /\ late \in BOOLEAN
    BY <1>1 DEF Walk
  <2>2. nth \in Nat /\ walk.seen \cup walk.items \in SUBSET (1 .. MaxRows)
    BY <1>1 DEF Walk
  <2> HIDE DEF twice, late, nth
  <2>3. walk' = [walk EXCEPT
               !.seen = walk.seen \cup walk.items, !.twice = twice, !.page = nth, !.late = late,
               !.items = {}, !.total = -1, !.gotRows = FALSE, !.done = last]
    BY <1>2 DEF twice, late, nth
  <2>4. /\ walk.where \in SUBSET RowState /\ walk.reopens \in BOOLEAN /\ walk.removes \in BOOLEAN
        /\ walk.limit \in Limit \cup {1} /\ walk.stayed \in SUBSET (1 .. MaxRows)
        /\ walk.cut \in SUBSET (1 .. MaxRows) /\ walk.left \in BOOLEAN /\ walk.came \in BOOLEAN
    BY <1>1 DEF Walk
  <2>5. walk' = [where |-> walk.where, reopens |-> walk.reopens, removes |-> walk.removes,
                 limit |-> walk.limit, page |-> nth, gotRows |-> FALSE, items |-> {}, total |-> -1,
                 seen |-> walk.seen \cup walk.items, twice |-> twice, stayed |-> walk.stayed,
                 cut |-> walk.cut, left |-> walk.left, came |-> walk.came, late |-> late, done |-> last]
    BY <1>1, <2>3 DEF Walk
  <2> QED
    BY <1>3, <1>4, <2>1, <2>2, <2>4, <2>5 DEF Walk
<1>6. /\ walk'.where = walk.where /\ walk'.limit = walk.limit
      /\ walk'.stayed = walk.stayed /\ walk'.seen = walk.seen \cup walk.items /\ walk'.items = {}
      /\ walk'.left = walk.left /\ walk'.came = walk.came
      /\ walk'.total = -1 /\ walk'.done = last /\ ~ walk'.gotRows
      /\ walk'.page = IF last THEN walk.page ELSE walk.page + 1
  BY <1>1, <1>2 DEF Walk
<1>7. /\ walk'.late = (last /\ walk.late)
      /\ walk'.twice = walk.twice \cup (walk.seen \cap walk.items) /\ walk'.cut = walk.cut
  BY <1>1, <1>2 DEF Walk
<1>8. ListTypeOK'
  <2>1. walk'.limit \in Nat /\ Cardinality({}) = 0
    BY <1>1, <1>6, WalkPaged, FS_EmptySet DEF Paged
  <2> QED
    BY <1>1, <1>5, <1>6, <2>1 DEF ListTypeOK
<1>9. Walking
  BY <1>1 DEF ListInv
<1>10. ShownOf(rows)' = S /\ Unseen' = Unseen
  BY <1>1, <1>6 DEF ShownOf, Unseen, S
<1>11. Reached = Offset(walk.page + 1, walk.limit)
  BY <1>1 DEF Reached
<1>12. NothingTwice'
  BY <1>6, <1>7, <1>9 DEF NothingTwice, ListInv, Walking
<1>13. CASE last
  <2>1. ASSUME ~ walk.left, ~ walk.late PROVE Unseen \ walk.cut = {}
    <3>1. walk.page \in Nat /\ walk.limit \in Nat \ {0} /\ Reached \in Int
      BY <1>1, WalkPaged DEF Paged
    <3>2. walk.total \in Nat
      BY <1>1, ListingAssumption DEF Walk
    <3>3. walk.total <= Reached
      BY <1>11, <1>13, <3>1, <3>2, LastPage DEF last
    <3>4. Unseen \ walk.cut # {} => Reached < walk.total
      BY <1>1, <1>9, <2>1 DEF Walking
    <3> QED
      BY <3>1, <3>2, <3>3, <3>4
  <2>2. NothingMissed'
    BY <1>6, <1>7, <1>13, <2>1 DEF NothingMissed, Unseen
  <2> QED
    BY <1>6, <1>8, <1>12, <1>13, <2>2 DEF ListInv
<1>14. CASE ~ last
  <2>1. Reached' = Reached
    BY <1>6, <1>11, <1>14 DEF Reached
  <2>2. Walking'
    BY <1>1, <1>6, <1>7, <1>9, <1>10, <2>1 DEF Walking, S
  <2> QED
    BY <1>6, <1>8, <1>12, <1>14, <2>2 DEF ListInv, NothingMissed
<1> QED
  BY <1>13, <1>14

\* Rows come and go.
LEMMA ListWritten ==
    ASSUME ListInv, NEW table, table \in Seq(RowState \cup {"gone"}), Len(table) <= MaxRows,
           createdAt' \in Seq(1 .. MaxCreatedAt), Len(createdAt') = Len(table),
           \A i \in DOMAIN rows : createdAt'[i] = createdAt[i],
           Write(table)
    PROVE  ListInv'
<1> DEFINE S == ShownOf(rows)
           T == ShownOf(table)
<1>1. walk \in Walk /\ ListTypeOK /\ rows' = table
  BY DEF Write, ListInv, ListTypeOK
<1>2. CASE walk.done
  <2>1. walk' = NoWalk
    BY <1>2 DEF Write
  <2>2. ListTypeOK'
    BY <1>1, <2>1, NoWalkType DEF ListTypeOK
  <2> QED
    BY <2>1, <2>2 DEF ListInv, NoWalk, NothingMissed, NothingTwice
<1>3. CASE ~ walk.done
  <2> DEFINE left == walk.left \/ S \ T # {}
             came == T \ S # {}
             late == walk.late \/ (came /\ walk.total # -1 /\ ~ walk.gotRows)
  <2>1. walk' = [walk EXCEPT !.stayed = walk.stayed \cap T, !.left = left,
                             !.came = walk.came \/ came, !.late = late]
    BY <1>3 DEF Write
  <2>2. /\ S \in SUBSET (1 .. MaxRows) /\ T \in SUBSET (1 .. MaxRows)
        /\ IsFiniteSet(S) /\ IsFiniteSet(T) /\ S \subseteq DOMAIN rows
    BY <1>1, ShownType DEF ListTypeOK, ShownOf
  <2> HIDE DEF S, T, left, came, late
  <2>3. walk' \in Walk
    <3> DEFINE anyCame == walk.came \/ came
    <3>1. left \in BOOLEAN /\ anyCame \in BOOLEAN /\ late \in BOOLEAN
      BY DEF left, late
    <3>2. walk.stayed \cap T \in SUBSET (1 .. MaxRows)
      BY <2>2
    <3> HIDE DEF anyCame
    <3>3. walk' = [walk EXCEPT !.stayed = walk.stayed \cap T, !.left = left,
                               !.came = anyCame, !.late = late]
      BY <2>1 DEF anyCame
    <3> QED
      BY <1>1, <3>1, <3>2, <3>3 DEF Walk
  <2>4. /\ walk'.where = walk.where /\ walk'.limit = walk.limit /\ walk'.page = walk.page
        /\ walk'.stayed = walk.stayed \cap T /\ walk'.seen = walk.seen /\ walk'.items = walk.items
        /\ walk'.left = left /\ walk'.total = walk.total /\ walk'.done = walk.done
        /\ walk'.gotRows = walk.gotRows /\ walk'.late = late /\ walk'.twice = walk.twice
        /\ walk'.cut = walk.cut
    BY <1>1, <2>1 DEF Walk
  <2>5. walk'.came = (walk.came \/ came)
    BY <1>1, <2>1 DEF Walk
  <2>6. ListTypeOK'
    BY <1>1, <2>3, <2>4 DEF ListTypeOK
  <2>7. Walking
    BY <1>3 DEF ListInv
  <2>8. ShownOf(rows)' = T /\ Reached' = Reached /\ Unseen' \subseteq Unseen
    BY <1>1, <2>4 DEF ShownOf, T, Reached, Unseen
  <2>9. Reached \in Int /\ \A i : Rank(createdAt, S, i) \in Nat /\ Rank(createdAt', T, i) \in Nat
    BY <1>1, <2>2, WalkPaged, RankType
  <2>10. ASSUME ~ left, NEW i \in Unseen' \ walk'.cut PROVE Rank(createdAt', T, i) >= Reached
    <3>1. S \subseteq T /\ ~ walk.left /\ i \in Unseen \ walk.cut
      BY <2>4, <2>8, <2>10 DEF left
    <3>2. Rank(createdAt, S, i) >= Reached /\ i \in S
      BY <2>7, <3>1 DEF Walking, S, Unseen
    <3>3. Rank(createdAt, S, i) <= Rank(createdAt', T, i)
      BY <2>2, <3>1, <3>2, RankMonotone
    <3> QED
      BY <2>9, <3>2, <3>3
  <2>11. ASSUME ~ left, ~ late, walk.total # -1
         PROVE  IF walk.gotRows THEN Unseen' \ walk'.cut # {} => Reached < walk.total
                ELSE Cardinality(T) <= walk.total
    <3>1. ~ walk.left /\ ~ walk.late
      BY <2>11 DEF left, late
    <3>2. CASE walk.gotRows
      BY <2>4, <2>7, <2>8, <2>11, <3>1, <3>2 DEF Walking
    <3>3. CASE ~ walk.gotRows
      <4>1. T = S
        BY <2>11, <3>3 DEF left, late, came
      <4> QED
        BY <2>7, <2>11, <3>1, <3>3, <4>1 DEF Walking, S
    <3> QED
      BY <3>2, <3>3
  <2>12. ASSUME ~ (walk.came \/ came)
         PROVE  /\ \A i \in ((walk.seen \cup walk.items) \cap T) \ walk.cut :
                      Rank(createdAt', T, i) < Reached
                /\ walk.seen \cap walk.items \subseteq walk.cut
    <3>1. T \subseteq S /\ ~ walk.came
      BY <2>12 DEF came
    <3>2. ASSUME NEW i \in ((walk.seen \cup walk.items) \cap T) \ walk.cut
          PROVE  Rank(createdAt', T, i) < Reached
      <4>1. Rank(createdAt, S, i) < Reached
        BY <2>7, <3>1, <3>2 DEF Walking, S
      <4>2. Rank(createdAt', T, i) <= Rank(createdAt, S, i)
        BY <2>2, <3>1, <3>2, RankMonotone
      <4> QED
        BY <2>9, <4>1, <4>2
    <3> QED
      BY <2>7, <3>1, <3>2 DEF Walking
  <2>13. Walking'
    BY <2>4, <2>5, <2>8, <2>10, <2>11, <2>12 DEF Walking
  <2> QED
    BY <1>3, <2>4, <2>5, <2>6, <2>13 DEF ListInv, NothingMissed, NothingTwice
<1> QED
  BY <1>2, <1>3

LEMMA ListNextInv == ASSUME ListInv, [ListNext]_listVars PROVE ListInv'
<1>0. /\ rows \in Seq(RowState \cup {"gone"}) /\ Len(rows) <= MaxRows /\ Len(rows) \in Nat
      /\ DOMAIN rows = 1 .. Len(rows) /\ MaxRows \in Nat
      /\ createdAt \in Seq(1 .. MaxCreatedAt) /\ Len(createdAt) = Len(rows)
  BY LenProperties, ListingAssumption DEF ListInv, ListTypeOK
<1>1. ASSUME NEW list \in Shown, NEW limit \in Limit, Open(list, limit) PROVE ListInv'
  BY <1>1, ListOpens
<1>2. CASE QueryRows
  BY <1>2, ListRowsRead
<1>3. CASE QueryCount
  BY <1>3, ListCounted
<1>4. CASE Turn
  BY <1>4, ListTurns
<1>5. CASE Leave
  <2>1. walk' = NoWalk /\ rows' = rows /\ createdAt' = createdAt
    BY <1>5 DEF Leave
  <2>2. ListTypeOK'
    BY <2>1, NoWalkType DEF ListInv, ListTypeOK
  <2> QED
    BY <2>1, <2>2 DEF ListInv, NoWalk, NothingMissed, NothingTwice
<1>6. ASSUME NEW row \in RowState, NEW n \in 1 .. MaxRows, NEW at \in 1 .. MaxCreatedAt,
             Create(row, n, at)
      PROVE  ListInv'
  <2> DEFINE more  == [k \in 1 .. n |-> row]
             times == [k \in 1 .. n |-> at]
  <2>1. /\ more \in Seq(RowState \cup {"gone"}) /\ times \in Seq(1 .. MaxCreatedAt)
        /\ Len(more) = n /\ Len(times) = n
    BY <1>0
  <2> HIDE DEF more, times
  <2>2. /\ rows \o more \in Seq(RowState \cup {"gone"}) /\ Len(rows \o more) = Len(rows) + n
        /\ createdAt \o times \in Seq(1 .. MaxCreatedAt)
        /\ Len(createdAt \o times) = Len(createdAt) + n
    <3> DEFINE state == RowState \cup {"gone"}
               time  == 1 .. MaxCreatedAt
    <3>1. rows \in Seq(state) /\ more \in Seq(state) /\ createdAt \in Seq(time) /\ times \in Seq(time)
      BY <1>0, <2>1
    <3> HIDE DEF state, time
    <3>2. rows \o more \in Seq(state) /\ Len(rows \o more) = Len(rows) + Len(more)
      BY <3>1, ConcatProperties
    <3>3. /\ createdAt \o times \in Seq(time)
          /\ Len(createdAt \o times) = Len(createdAt) + Len(times)
      BY <3>1, ConcatProperties
    <3> QED
      BY <2>1, <3>2, <3>3 DEF state, time
  <2>3. \A i \in DOMAIN rows : (createdAt \o times)[i] = createdAt[i]
    BY <1>0, <2>1, ConcatProperties
  <2>4. createdAt' = createdAt \o times /\ Write(rows \o more) /\ Len(rows \o more) <= MaxRows
    BY <1>0, <1>6, <2>2 DEF Create, more, times
  <2> QED
    BY <1>0, <2>2, <2>3, <2>4, ListWritten
<1>7. ASSUME NEW i \in DOMAIN rows, NEW state \in RowState \cup {"gone"},
             Write([rows EXCEPT ![i] = state]), createdAt' = createdAt
      PROVE  ListInv'
  <2>1. /\ [rows EXCEPT ![i] = state] \in Seq(RowState \cup {"gone"})
        /\ Len([rows EXCEPT ![i] = state]) = Len(rows)
    BY <1>0, ExceptSeq
  <2> QED
    BY <1>0, <1>7, <2>1, ListWritten
<1>8. ASSUME NEW i \in DOMAIN rows, Close(i) \/ Reopen(i) \/ Remove(i) PROVE ListInv'
  BY <1>7, <1>8 DEF Close, Reopen, Remove, RowState
<1>9. CASE UNCHANGED listVars
  BY <1>9 DEF listVars, ListInv, ListTypeOK, Walking, Unseen, Reached, ShownOf, NothingMissed,
     NothingTwice
<1> QED
  BY <1>1, <1>2, <1>3, <1>4, <1>5, <1>6, <1>8, <1>9 DEF ListNext

-----------------------------------------------------------------------------
(* Flags.  Users are counted by their open flags: a set of users each of whom has
   an open flag of some severities is no larger than the set of those flags. *)
OpenWith(severities) ==
    {f \in DOMAIN flags : flags[f].resolvedBy = "nobody" /\ flags[f].severity \in severities}

LEMMA FlagType ==
    ASSUME RiskTypeOK
    PROVE  /\ Len(flags) \in 0 .. MaxFlags /\ DOMAIN flags = 1 .. Len(flags) /\ MaxFlags \in Nat
           /\ \A f \in DOMAIN flags : flags[f] \in Flag
           /\ IsFiniteSet(DOMAIN flags) /\ Cardinality(DOMAIN flags) = Len(flags)
<1>1. MaxFlags \in Nat /\ flags \in Seq(Flag) /\ Len(flags) <= MaxFlags
  BY RiskAssumption DEF RiskTypeOK
<1>2. Len(flags) \in Nat /\ DOMAIN flags = 1 .. Len(flags)
  BY <1>1, LenProperties
<1>3. \A f \in DOMAIN flags : flags[f] \in Flag
  BY <1>1, ElementOfSeq, <1>2
<1>4. IsFiniteSet(1 .. Len(flags)) /\ Cardinality(1 .. Len(flags)) = Len(flags)
  <2>1. Len(flags) - 1 + 1 = Len(flags) /\ (1 > Len(flags) => Len(flags) = 0)
    BY <1>2
  <2> QED
    BY <1>2, <2>1, FS_Interval
<1> QED
  BY <1>1, <1>2, <1>3, <1>4

LEMMA OpenWithFinite ==
    ASSUME RiskTypeOK, NEW severities
    PROVE  /\ IsFiniteSet(OpenWith(severities)) /\ Cardinality(OpenWith(severities)) \in Nat
           /\ Cardinality(OpenWith(severities)) <= Len(flags)
<1>1. OpenWith(severities) \in SUBSET DOMAIN flags
  BY DEF OpenWith
<1> QED
  BY <1>1, FlagType, FS_Subset, FS_CardinalityType

LEMMA UsersByFlags ==
    ASSUME RiskTypeOK, NEW severities, NEW U \in SUBSET User,
           \A u \in U : \E f \in OpenWith(severities) : flags[f].user = u
    PROVE  /\ IsFiniteSet(U) /\ Cardinality(U) \in Nat
           /\ Cardinality(U) <= Cardinality(OpenWith(severities))
<1> DEFINE flagOf == [u \in U |-> CHOOSE f \in OpenWith(severities) : flags[f].user = u]
<1>1. ASSUME NEW u \in U PROVE flagOf[u] \in OpenWith(severities) /\ flags[flagOf[u]].user = u
  OBVIOUS
<1>2. flagOf \in Injection(U, OpenWith(severities))
  BY <1>1 DEF Injection, IsInjective
<1> QED
  BY <1>2, OpenWithFinite, FS_Injection, FS_CardinalityType

LEMMA FlaggedWithFits ==
    ASSUME RiskTypeOK, NEW severity
    PROVE  /\ IsFiniteSet(FlaggedWith(severity)) /\ Cardinality(FlaggedWith(severity)) \in Nat
           /\ Cardinality(FlaggedWith(severity)) <= Cardinality(OpenWith({severity}))
<1>1. FlaggedWith(severity) \in SUBSET User
  BY DEF FlaggedWith
<1>2. ASSUME NEW u \in FlaggedWith(severity)
      PROVE  \E f \in OpenWith({severity}) : flags[f].user = u
  BY DEF FlaggedWith, OpenOf, OpenFlags, OpenWith
<1> QED
  BY <1>1, <1>2, UsersByFlags

LEMMA FlaggedUsersFits ==
    ASSUME RiskTypeOK
    PROVE  FlaggedUsers \in Nat /\ FlaggedUsers <= Len(flags)
<1> DEFINE C == OpenWith({"critical"})
           W == OpenWith({"warning"})
           I == OpenWith({"info"})
<1>1. /\ IsFiniteSet(C) /\ IsFiniteSet(W) /\ IsFiniteSet(I)
      /\ Cardinality(C) \in Nat /\ Cardinality(W) \in Nat /\ Cardinality(I) \in Nat
  BY OpenWithFinite
<1>2. C \cap W = {} /\ (C \cup W) \cap I = {} /\ (C \cup W) \cup I \in SUBSET DOMAIN flags
  BY DEF OpenWith
<1> HIDE DEF C, W, I
<1>3. /\ IsFiniteSet(C \cup W)
      /\ Cardinality(C \cup W) = Cardinality(C) + Cardinality(W)
  BY <1>1, <1>2, UnionCount
<1>4. Cardinality((C \cup W) \cup I) = Cardinality(C) + Cardinality(W) + Cardinality(I)
  <2> DEFINE D == C \cup W
  <2> HIDE DEF D
  <2>1. IsFiniteSet(D) /\ D \cap I = {}
    BY <1>2, <1>3 DEF D
  <2>2. Cardinality(D \cup I) = Cardinality(D) + Cardinality(I)
    BY <1>1, <2>1, UnionCount
  <2> QED
    BY <1>3, <2>2 DEF D
<1>5. Cardinality((C \cup W) \cup I) <= Len(flags)
  BY <1>2, FlagType, FS_Subset
<1>6. /\ Cardinality(FlaggedWith("critical")) \in Nat /\ Cardinality(FlaggedWith("warning")) \in Nat
      /\ Cardinality(FlaggedWith("info")) \in Nat
      /\ Cardinality(FlaggedWith("critical")) <= Cardinality(C)
      /\ Cardinality(FlaggedWith("warning")) <= Cardinality(W)
      /\ Cardinality(FlaggedWith("info")) <= Cardinality(I)
  BY FlaggedWithFits DEF C, W, I
<1> QED
  BY <1>1, <1>4, <1>5, <1>6, FlagType DEF FlaggedUsers

\* What the two queries return, and how it adds up.
LEMMA CountsAddUp ==
    ASSUME RiskTypeOK
    PROVE  /\ FlaggedUsers \in 0 .. MaxFlags /\ CriticalFlags \in 0 .. MaxFlags
           /\ Cardinality(Frozen) \in 0 .. MaxFlags /\ Cardinality(Banned) \in 0 .. MaxFlags
           /\ Cardinality(Banned) <= Cardinality(Frozen) /\ Cardinality(Frozen) <= FlaggedUsers
           /\ Cardinality(Banned) <= CriticalFlags
<1> DEFINE C == FlaggedWith("critical")
           W == FlaggedWith("warning")
           I == FlaggedWith("info")
<1>1. \A u \in User : \A f \in OpenFlags(u) :
         f \in DOMAIN flags /\ flags[f].severity \in Severity /\ flags[f].user = u
  BY FlagType DEF OpenFlags, Flag
<1>2. Frozen \in SUBSET ((C \cup W) \cup I)
  BY <1>1 DEF Frozen, FlaggedWith, OpenOf, Severity
<1>3. /\ IsFiniteSet(C) /\ IsFiniteSet(W) /\ IsFiniteSet(I)
      /\ Cardinality(C) \in Nat /\ Cardinality(W) \in Nat /\ Cardinality(I) \in Nat
  BY FlaggedWithFits
<1>4. FlaggedUsers = Cardinality(C) + Cardinality(W) + Cardinality(I)
  BY DEF FlaggedUsers
<1>5. Banned \in SUBSET Frozen
  BY DEF Banned
<1>6. CriticalFlags = Cardinality(OpenWith({"critical"}))
  <2>1. UNION {OpenOf(u, "critical") : u \in User} = OpenWith({"critical"})
    BY FlagType DEF OpenOf, OpenFlags, OpenWith, Flag
  <2> QED
    BY <2>1 DEF CriticalFlags
<1>7. ASSUME NEW u \in Banned PROVE \E f \in OpenWith({"critical"}) : flags[f].user = u
  BY <1>1 DEF Banned, Frozen, OpenOf, OpenFlags, OpenWith
<1>8. Banned \in SUBSET User
  BY DEF Banned, Frozen
<1>9. Cardinality(Banned) \in Nat /\ Cardinality(Banned) <= CriticalFlags
  BY <1>6, <1>7, <1>8, UsersByFlags
<1> HIDE DEF C, W, I
<1>10. /\ IsFiniteSet(C \cup W) /\ Cardinality(C \cup W) \in Nat
       /\ Cardinality(C \cup W) <= Cardinality(C) + Cardinality(W)
  BY <1>3, UnionCount
<1>11. /\ IsFiniteSet((C \cup W) \cup I) /\ Cardinality((C \cup W) \cup I) \in Nat
       /\ Cardinality((C \cup W) \cup I) <= Cardinality(C \cup W) + Cardinality(I)
  BY <1>3, <1>10, UnionCount
<1>12. /\ IsFiniteSet(Frozen) /\ Cardinality(Frozen) \in Nat
       /\ Cardinality(Frozen) <= Cardinality((C \cup W) \cup I)
  BY <1>2, <1>11, FS_Subset, FS_CardinalityType
<1>13. Cardinality(Frozen) <= FlaggedUsers
  BY <1>3, <1>4, <1>10, <1>11, <1>12
<1>14. Cardinality(Banned) <= Cardinality(Frozen)
  BY <1>5, <1>12, FS_Subset
<1>15. CriticalFlags \in Nat /\ CriticalFlags <= Len(flags)
  BY <1>6, OpenWithFinite
<1> QED
  BY <1>9, <1>12, <1>13, <1>14, <1>15, FlagType, FlaggedUsersFits

\* A set and a part of it have the same number of elements if they are the same.
LEMMA PartCount ==
    ASSUME NEW T, IsFiniteSet(T), NEW S \in SUBSET T
    PROVE  Cardinality(S) <= Cardinality(T) /\ (Cardinality(S) = Cardinality(T) <=> S = T)
BY FS_Subset

\* A user with open flags of two severities is in two of the three sets that are
\* added up, and is not among the banned.
LEMMA CountsExact ==
    ASSUME RiskTypeOK
    PROVE  /\ FlaggedUsers >= Cardinality(Flagged)
           /\ FlaggedUsers = Cardinality(Flagged) <=> Mixed = {}
           /\ Cardinality(Banned) <= Cardinality(Severe)
           /\ Cardinality(Banned) = Cardinality(Severe) <=> Severe \cap Mixed = {}
<1> DEFINE C == FlaggedWith("critical")
           W == FlaggedWith("warning")
           I == FlaggedWith("info")
<1>1. \A u \in User : \A f \in OpenFlags(u) :
         f \in DOMAIN flags /\ flags[f].severity \in Severity /\ flags[f].user = u
  BY FlagType DEF OpenFlags, Flag
<1>2. Flagged = (C \cup W) \cup I
  BY <1>1 DEF Flagged, FlaggedWith, OpenOf, Severity
<1>3. ASSUME NEW u \in Flagged
      PROVE  u \in Mixed <=> (u \in C /\ u \in W) \/ (u \in C /\ u \in I) \/ (u \in W /\ u \in I)
  <2>1. u \in User /\ OpenFlags(u) # {}
    BY <1>3 DEF Flagged
  <2>2. OpenFlags(u) = OpenOf(u, "critical") <=> u \notin W /\ u \notin I
    BY <1>1, <2>1 DEF FlaggedWith, OpenOf, Severity
  <2>3. OpenFlags(u) = OpenOf(u, "warning") <=> u \notin C /\ u \notin I
    BY <1>1, <2>1 DEF FlaggedWith, OpenOf, Severity
  <2>4. OpenFlags(u) = OpenOf(u, "info") <=> u \notin C /\ u \notin W
    BY <1>1, <2>1 DEF FlaggedWith, OpenOf, Severity
  <2>5. u \in C \/ u \in W \/ u \in I
    BY <1>2
  <2> HIDE DEF C, W, I
  <2>6. u \in Mixed <=> /\ OpenFlags(u) # OpenOf(u, "critical")
                        /\ OpenFlags(u) # OpenOf(u, "warning")
                        /\ OpenFlags(u) # OpenOf(u, "info")
    BY <1>3 DEF Mixed, Severity
  <2> QED
    BY <2>2, <2>3, <2>4, <2>5, <2>6
<1>4. /\ IsFiniteSet(C) /\ IsFiniteSet(W) /\ IsFiniteSet(I)
      /\ Cardinality(C) \in Nat /\ Cardinality(W) \in Nat /\ Cardinality(I) \in Nat
  BY FlaggedWithFits
<1>5. FlaggedUsers = Cardinality(C) + Cardinality(W) + Cardinality(I)
  BY DEF FlaggedUsers
<1>6. Banned \in SUBSET Severe /\ (Banned = Severe <=> Severe \cap Mixed = {})
  <2>1. Severe \subseteq C /\ Severe \subseteq Flagged
    BY DEF Severe, Frozen, Flagged, FlaggedWith
  <2>2. ASSUME NEW u \in Severe PROVE u \in Banned <=> u \notin Mixed
    <3>1. u \in Flagged /\ u \in C /\ u \in User /\ u \in Frozen
      BY <2>1 DEF Severe, Frozen
    <3>2. OpenFlags(u) = OpenOf(u, "critical") <=> u \notin W /\ u \notin I
      BY <1>1, <3>1 DEF FlaggedWith, OpenOf, Severity
    <3> HIDE DEF C, W, I
    <3> QED
      BY <1>3, <3>1, <3>2 DEF Banned
  <2>3. Banned \subseteq Severe
    BY DEF Banned, Frozen, Severe
  <2> QED
    BY <2>2, <2>3
<1>7. Mixed \subseteq Flagged
  BY DEF Mixed
<1>8. Severe \in SUBSET C
  BY DEF Severe, Frozen, FlaggedWith
<1> HIDE DEF C, W, I
<1>9. Mixed = {} <=> C \cap W = {} /\ (C \cup W) \cap I = {}
  BY <1>2, <1>3, <1>7
<1>10. /\ IsFiniteSet(C \cup W) /\ Cardinality(C \cup W) \in Nat
       /\ Cardinality(C \cup W) <= Cardinality(C) + Cardinality(W)
       /\ C \cap W = {} <=> Cardinality(C \cup W) = Cardinality(C) + Cardinality(W)
  BY <1>4, UnionCount
<1>11. /\ Cardinality((C \cup W) \cup I) \in Nat
       /\ Cardinality((C \cup W) \cup I) <= Cardinality(C \cup W) + Cardinality(I)
       /\ (C \cup W) \cap I = {} <=> Cardinality((C \cup W) \cup I) = Cardinality(C \cup W) + Cardinality(I)
  BY <1>4, <1>10, UnionCount
<1>12. FlaggedUsers >= Cardinality(Flagged) /\ (FlaggedUsers = Cardinality(Flagged) <=> Mixed = {})
  BY <1>2, <1>4, <1>5, <1>9, <1>10, <1>11
<1>13. IsFiniteSet(Severe)
  BY <1>4, <1>8, FS_Subset
<1>14. /\ Cardinality(Banned) <= Cardinality(Severe)
       /\ Cardinality(Banned) = Cardinality(Severe) <=> Severe \cap Mixed = {}
  BY <1>6, <1>13, PartCount
<1> QED
  BY <1>12, <1>14
-----------------------------------------------------------------------------
\* Whom the rows name: the admin who was told, and the one who is about to be.
NamesWhoResolved ==
    \A a \in Admin :
        /\ \A f \in desk[a].told : f \in DOMAIN flags /\ flags[f].resolvedBy = a
        /\ desk[a].resolving # 0 =>
              desk[a].resolving \in DOMAIN flags /\ flags[desk[a].resolving].resolvedBy = a

\* Figures that are fresh are those of this moment.
FiguresNow ==
    figures.fresh =>
        /\ figures.flagged # -1 =>
              figures.flagged = FlaggedUsers /\ figures.critical = CriticalFlags
        /\ figures.frozen # -1 =>
              figures.frozen = Cardinality(Frozen) /\ figures.banned = Cardinality(Banned)

RiskInv == RiskTypeOK /\ NamesWhoResolved /\ FiguresNow

Figures == [flagged : -1 .. MaxFlags, critical : -1 .. MaxFlags,
            frozen : -1 .. MaxFlags, banned : -1 .. MaxFlags, fresh : BOOLEAN]

LEMMA NoFiguresType ==
    /\ NoFigures \in Figures /\ NoFigures.flagged = -1 /\ NoFigures.frozen = -1
    /\ 0 \in 0 .. MaxFlags
<1>1. -1 \in -1 .. MaxFlags /\ 0 \in 0 .. MaxFlags
  BY RiskAssumption
<1> QED
  BY <1>1 DEF NoFigures, Figures

LEMMA RiskInitInv == RiskInit => RiskInv
<1> SUFFICES ASSUME RiskInit PROVE RiskInv
  OBVIOUS
<1>1. flags \in Seq(Flag) /\ Len(flags) = 0 /\ MaxFlags \in Nat
  BY RiskAssumption, EmptySeq DEF RiskInit
<1>2. RiskTypeOK
  BY <1>1, NoFiguresType DEF RiskInit, UsersInit, UsersTypeOK, RiskTypeOK, Figures
<1> QED
  BY <1>2, NoFiguresType DEF RiskInit, RiskInv, NamesWhoResolved, FiguresNow

\* A write leaves no figures that are fresh, but those that are not there.
LEMMA FiguresStale ==
    ASSUME RiskTypeOK, Stale
    PROVE  figures' \in Figures /\ FiguresNow'
<1>1. CASE figures = NoFigures
  BY <1>1, NoFiguresType DEF Stale, FiguresNow
<1>2. CASE figures # NoFigures
  <2>1. figures' = [figures EXCEPT !.fresh = FALSE] /\ figures \in Figures
    BY <1>2 DEF Stale, RiskTypeOK, Figures
  <2> QED
    BY <2>1 DEF FiguresNow, Figures
<1> QED
  BY <1>1, <1>2

LEMMA FlagCreated ==
    ASSUME RiskInv, NEW u \in User, NEW severity \in Severity, createFlag(u, severity)
    PROVE  RiskInv'
<1> DEFINE row == [user |-> u, severity |-> severity, resolvedBy |-> "nobody"]
<1>1. /\ RiskTypeOK /\ flags \in Seq(Flag) /\ row \in Flag /\ Len(flags) < MaxFlags
      /\ flags' = Append(flags, row) /\ UNCHANGED <<active, desk>> /\ Stale
  BY DEF createFlag, RiskInv, RiskTypeOK, Flag
<1>2. Len(flags) \in 0 .. MaxFlags /\ DOMAIN flags = 1 .. Len(flags) /\ MaxFlags \in Nat
  BY <1>1, FlagType
<1>3. /\ flags' \in Seq(Flag) /\ Len(flags') = Len(flags) + 1
      /\ \A f \in 1 .. Len(flags) : flags'[f] = flags[f]
      /\ DOMAIN flags' = 1 .. Len(flags) + 1
  BY <1>1, AppendProperties
<1>4. Len(flags') <= MaxFlags /\ DOMAIN flags \subseteq DOMAIN flags'
  BY <1>1, <1>2, <1>3
<1>5. figures' \in Figures /\ FiguresNow'
  BY <1>1, FiguresStale
<1>6. RiskTypeOK'
  BY <1>1, <1>3, <1>4, <1>5 DEF RiskTypeOK, UsersTypeOK, Figures
<1>7. NamesWhoResolved'
  BY <1>1, <1>2, <1>3, <1>4 DEF RiskInv, NamesWhoResolved
<1> QED
  BY <1>5, <1>6, <1>7 DEF RiskInv

\* The row that is written was nobody's, so no admin was told of it or is about
\* to be.
LEMMA FlagResolved ==
    ASSUME RiskInv, NEW a \in Admin, NEW f \in DOMAIN flags, ResolveFlag(a, f)
    PROVE  RiskInv'
<1>1. /\ RiskTypeOK /\ flags \in Seq(Flag) /\ flags[f] \in Flag /\ Len(flags) <= MaxFlags
      /\ flags[f].resolvedBy = "nobody" /\ desk[a].resolving = 0 /\ Stale
      /\ flags' = [flags EXCEPT ![f] = [flags[f] EXCEPT !.resolvedBy = a]]
      /\ desk' = [desk EXCEPT ![a] = [desk[a] EXCEPT !.resolving = f]] /\ active' = active
  BY FlagType DEF ResolveFlag, Resolvable, RiskInv, RiskTypeOK
<1>2. Len(flags) \in 0 .. MaxFlags /\ DOMAIN flags = 1 .. Len(flags) /\ MaxFlags \in Nat
  BY <1>1, FlagType
<1>3. [flags[f] EXCEPT !.resolvedBy = a] \in Flag
  BY <1>1 DEF Flag
<1>4. /\ flags' \in Seq(Flag) /\ Len(flags') = Len(flags) /\ DOMAIN flags' = DOMAIN flags
      /\ flags'[f].resolvedBy = a
      /\ \A g \in DOMAIN flags \ {f} : flags'[g] = flags[g]
  BY <1>1, <1>2, <1>3, ExceptSeq DEF Flag
<1>5. figures' \in Figures /\ FiguresNow'
  BY <1>1, FiguresStale
<1>6. f \in 1 .. MaxFlags /\ f # 0
  BY <1>2
<1>7. desk \in [Admin -> [told : SUBSET (1 .. MaxFlags), resolving : 0 .. MaxFlags]]
  BY <1>1 DEF RiskTypeOK
<1>8. [desk[a] EXCEPT !.resolving = f] \in [told : SUBSET (1 .. MaxFlags), resolving : 0 .. MaxFlags]
  BY <1>2, <1>6, <1>7
<1>9. desk' \in [Admin -> [told : SUBSET (1 .. MaxFlags), resolving : 0 .. MaxFlags]]
  BY <1>1, <1>7, <1>8
<1>10. RiskTypeOK'
  BY <1>1, <1>4, <1>5, <1>9 DEF RiskTypeOK, UsersTypeOK, Figures
<1>11. NamesWhoResolved'
  <2>1. \A b \in Admin : desk'[b].told = desk[b].told
    BY <1>1, <1>7
  <2>2. desk'[a].resolving = f /\ \A b \in Admin \ {a} : desk'[b].resolving = desk[b].resolving
    BY <1>1, <1>7
  <2>3. \A b \in Admin : flags[f].resolvedBy # b
    BY <1>1, RiskAssumption
  <2> QED
    BY <1>4, <2>1, <2>2, <2>3 DEF RiskInv, NamesWhoResolved
<1> QED
  BY <1>5, <1>10, <1>11 DEF RiskInv

LEMMA FlagAnswered ==
    ASSUME RiskInv, NEW a \in Admin, AnswerResolved(a)
    PROVE  RiskInv'
<1>1. PICK told \in {desk[a].told, desk[a].told \cup {desk[a].resolving}} :
         desk' = [desk EXCEPT ![a] = [told |-> told, resolving |-> 0]]
  BY DEF AnswerResolved
<1>2. desk[a].resolving # 0 /\ UNCHANGED <<active, flags, figures>>
  BY DEF AnswerResolved
<1>3. desk \in [Admin -> [told : SUBSET (1 .. MaxFlags), resolving : 0 .. MaxFlags]]
  BY DEF RiskInv, RiskTypeOK
<1>4. MaxFlags \in Nat /\ desk[a].resolving \in 1 .. MaxFlags
  BY <1>2, <1>3, RiskAssumption
<1>5. [told |-> told, resolving |-> 0] \in [told : SUBSET (1 .. MaxFlags), resolving : 0 .. MaxFlags]
  BY <1>3, <1>4
<1>6. desk' \in [Admin -> [told : SUBSET (1 .. MaxFlags), resolving : 0 .. MaxFlags]]
  BY <1>1, <1>3, <1>5
<1>7. RiskTypeOK'
  BY <1>2, <1>6 DEF RiskInv, RiskTypeOK, UsersTypeOK
<1>8. NamesWhoResolved'
  <2>1. desk'[a].told = told /\ desk'[a].resolving = 0
    BY <1>1, <1>3
  <2>2. \A b \in Admin \ {a} : desk'[b] = desk[b]
    BY <1>1, <1>3
  <2> QED
    BY <1>2, <2>1, <2>2 DEF RiskInv, NamesWhoResolved
<1>9. FiguresNow'
  BY <1>2 DEF RiskInv, FiguresNow, FlaggedUsers, FlaggedWith, CriticalFlags, Frozen, Banned, OpenOf,
     OpenFlags
<1> QED
  BY <1>7, <1>8, <1>9 DEF RiskInv

LEMMA RiskNextInv == ASSUME RiskInv, [RiskNext]_riskVars PROVE RiskInv'
<1> USE DEF RiskInv
<1>1. ASSUME NEW u \in User, NEW severity \in Severity,
             createFlag(u, severity) \/ penalizeUser(u, severity)
      PROVE  RiskInv'
  BY <1>1, FlagCreated DEF penalizeUser
<1>2. ASSUME NEW u \in User, flagDispute(u) PROVE RiskInv'
  BY <1>2, FlagCreated DEF flagDispute, Severity
<1>3. ASSUME NEW u \in User, NEW isActive \in BOOLEAN, SetActive(u, isActive) PROVE RiskInv'
  <2>1. figures' \in Figures /\ FiguresNow'
    BY <1>3, FiguresStale DEF SetActive
  <2>2. active' \in [User -> BOOLEAN] /\ UNCHANGED <<flags, desk>>
    BY <1>3 DEF SetActive, setUserActive, RiskTypeOK, UsersTypeOK
  <2> QED
    BY <2>1, <2>2 DEF RiskTypeOK, UsersTypeOK, Figures, NamesWhoResolved
<1>4. ASSUME NEW a \in Admin, AnswerResolved(a) PROVE RiskInv'
  BY <1>4, FlagAnswered
<1>5. ASSUME NEW a \in Admin, NEW f \in DOMAIN flags, ResolveFlag(a, f) PROVE RiskInv'
  BY <1>5, FlagResolved
<1>6. CASE QueryFlags \/ QueryUsers
  <2>1. UNCHANGED <<active, flags, desk>> /\ figures \in Figures /\ RiskTypeOK
    BY <1>6 DEF QueryFlags, QueryUsers, RiskTypeOK, Figures
  <2>2. /\ FlaggedUsers' = FlaggedUsers /\ CriticalFlags' = CriticalFlags
        /\ Frozen' = Frozen /\ Banned' = Banned
    BY <2>1 DEF FlaggedUsers, FlaggedWith, CriticalFlags, Frozen, Banned, OpenOf, OpenFlags
  <2>3. /\ FlaggedUsers \in -1 .. MaxFlags /\ CriticalFlags \in -1 .. MaxFlags
        /\ Cardinality(Frozen) \in -1 .. MaxFlags /\ Cardinality(Banned) \in -1 .. MaxFlags
    BY <2>1, CountsAddUp, RiskAssumption
  <2>4. figures' \in Figures
    BY <1>6, <2>1, <2>3 DEF QueryFlags, QueryUsers, Figures
  <2>5. FiguresNow'
    BY <1>6, <2>1, <2>2 DEF QueryFlags, QueryUsers, FiguresNow, Figures
  <2> QED
    BY <2>1, <2>4, <2>5 DEF RiskTypeOK, UsersTypeOK, Figures, NamesWhoResolved
<1>7. CASE AnswerFigures
  <2>1. figures' = NoFigures /\ UNCHANGED <<active, flags, desk>>
    BY <1>7 DEF AnswerFigures
  <2> QED
    BY <2>1, NoFiguresType DEF RiskTypeOK, UsersTypeOK, Figures, NamesWhoResolved, FiguresNow
<1>8. CASE UNCHANGED riskVars
  BY <1>8 DEF riskVars, RiskTypeOK, UsersTypeOK, NamesWhoResolved, FiguresNow, FlaggedUsers,
     FlaggedWith, CriticalFlags, Frozen, Banned, OpenOf, OpenFlags
<1> QED
  BY <1>1, <1>2, <1>3, <1>4, <1>5, <1>6, <1>7, <1>8 DEF RiskNext

LEMMA RiskInvImplies == ASSUME RiskInv PROVE ResolvedOnce /\ FlagsAgree
<1>1. RiskTypeOK /\ ResolvedOnce
  BY DEF RiskInv, NamesWhoResolved, ResolvedOnce
<1>2. FiguresAddUp
  BY <1>1, CountsAddUp, CountsExact DEF RiskInv, FiguresNow, FiguresAddUp, HasFigures
<1>3. BannedAreHigh
  <2> SUFFICES ASSUME NEW u \in Banned PROVE RiskLevel(u) = "high"
    BY DEF BannedAreHigh
  <2>1. OpenFlags(u) # {} /\ OpenFlags(u) = OpenOf(u, "critical")
    BY DEF Banned, Frozen
  <2>2. OpenFlags(u) # OpenOf(u, "info")
    BY <2>1 DEF OpenOf
  <2> QED
    BY <2>1, <2>2 DEF RiskLevel
<1> QED
  BY <1>1, <1>2, <1>3 DEF FlagsAgree

-----------------------------------------------------------------------------
(* Messages.  A request that has written the message but not its notification, or
   the notification but not its answer, accounts for the rows by which the one
   table is ahead of the other. *)
SendingState == [op : {"none", "broadcast", "list", "message"},
                 step : {"idle", "select", "message", "insert", "answer"},
                 to : [User -> 0 .. 2], always : SUBSET User, ever : SUBSET User]

Announcing(s, u) == sending[s].op = "message" /\ At(s, "insert") /\ sending[s].to[u] = 1
Confirming(s, u) == sending[s].op = "message" /\ At(s, "answer") /\ sending[s].to[u] = 1

ToAnnounce(u) == {s \in Sender : Announcing(s, u)}
ToConfirm(u) == {s \in Sender : Confirming(s, u)}

RowsAreThere ==
    \A u \in User : /\ updates[u] + Cardinality(ToAnnounce(u)) <= messages[u]
                    /\ confirmed[u] + Cardinality(ToConfirm(u)) <= updates[u]

\* What a request at its step is about.
Sent(s) ==
    /\ At(s, "select") => sending[s].op = "broadcast"
    /\ At(s, "message") \/ At(s, "answer") => sending[s].op = "message"
    /\ sending[s].op = "message" => \A u \in User : sending[s].to[u] \in {0, 1}
    /\ sending[s].op = "broadcast" => At(s, "select") \/ At(s, "insert")

\* Until the SELECT of a broadcast, those who are active are there among the rest.
Meant(s) ==
    At(s, "select") => /\ sending[s].always \subseteq {u \in User : active[u]}
                       /\ {u \in User : active[u]} \subseteq sending[s].ever

NotifyInv ==
    /\ NotifyTypeOK /\ RowsAreThere /\ BroadcastReaches
    /\ \A s \in Sender : Sent(s) /\ Meant(s)

LEMMA IntervalCount ==
    ASSUME NEW n \in Nat
    PROVE  IsFiniteSet(1 .. n) /\ Cardinality(1 .. n) = n
<1>1. n - 1 + 1 = n /\ (1 > n => n = 0)
  OBVIOUS
<1> QED
  BY <1>1, FS_Interval

LEMMA SendingTypes ==
    /\ Nobody \in [User -> 0 .. 2] /\ NoSending \in SendingState
    /\ NoSending.op = "none" /\ NoSending.step = "idle"
    /\ \A u : Just(u) \in [User -> 0 .. 2] /\ \A v \in User : Just(u)[v] \in {0, 1}
<1>1. Nobody \in [User -> 0 .. 2]
  BY DEF Nobody
<1>2. NoSending \in SendingState /\ NoSending.op = "none" /\ NoSending.step = "idle"
  BY <1>1 DEF NoSending, SendingState
<1>3. \A u : Just(u) \in [User -> 0 .. 2] /\ \A v \in User : Just(u)[v] \in {0, 1}
  BY DEF Just
<1> QED
  BY <1>1, <1>2, <1>3

LEMMA MentionsType ==
    ASSUME NEW list \in Lists
    PROVE  Mentions(list) \in [User -> 0 .. 2]
<1>1. PICK n \in 0 .. 2 : list \in [1 .. n -> User]
  BY DEF Lists
<1>2. IsFiniteSet(1 .. n) /\ Cardinality(1 .. n) <= 2
  <2>1. n \in Nat /\ n <= 2
    BY <1>1
  <2> QED
    BY <2>1, IntervalCount
<1>3. ASSUME NEW u \in User PROVE Cardinality({i \in DOMAIN list : list[i] = u}) \in 0 .. 2
  <2>1. {i \in DOMAIN list : list[i] = u} \in SUBSET (1 .. n)
    BY <1>1
  <2>2. /\ Cardinality({i \in DOMAIN list : list[i] = u}) \in Nat
        /\ Cardinality({i \in DOMAIN list : list[i] = u}) <= Cardinality(1 .. n)
        /\ Cardinality(1 .. n) \in Nat
    BY <1>2, <2>1, FS_Subset, FS_CardinalityType
  <2> QED
    BY <1>2, <2>2
<1> QED
  BY <1>3 DEF Mentions

LEMMA TablesType ==
    NotifyTypeOK <=> /\ UsersTypeOK
                     /\ inbox \in [User -> Nat] /\ updates \in [User -> Nat]
                     /\ messages \in [User -> Nat] /\ confirmed \in [User -> Nat]
                     /\ sending \in [Sender -> SendingState] /\ budget \in 0 .. MaxRequests
BY DEF NotifyTypeOK, SendingState

LEMMA CountersType ==
    ASSUME NEW u
    PROVE  /\ IsFiniteSet(ToAnnounce(u)) /\ Cardinality(ToAnnounce(u)) \in Nat
           /\ IsFiniteSet(ToConfirm(u)) /\ Cardinality(ToConfirm(u)) \in Nat
<1>1. ToAnnounce(u) \in SUBSET Sender /\ ToConfirm(u) \in SUBSET Sender
  BY DEF ToAnnounce, ToConfirm
<1> QED
  BY <1>1, NotifyAssumption, FS_Subset, FS_CardinalityType

LEMMA NotifyInitInv == NotifyInit => NotifyInv
<1> SUFFICES ASSUME NotifyInit PROVE NotifyInv
  OBVIOUS
<1>1. NotifyTypeOK
  BY SendingTypes, NotifyAssumption, TablesType
     DEF NotifyInit, UsersInit, UsersTypeOK, Nobody
<1>2. ASSUME NEW s \in Sender PROVE sending[s] = NoSending
  BY DEF NotifyInit
<1>3. BroadcastReaches /\ \A s \in Sender : Sent(s) /\ Meant(s)
  BY <1>2, SendingTypes DEF BroadcastReaches, Sent, Meant, At
<1>4. ASSUME NEW u \in User PROVE ToAnnounce(u) = {} /\ ToConfirm(u) = {}
  BY <1>2, SendingTypes DEF ToAnnounce, ToConfirm, Announcing, Confirming
<1>5. RowsAreThere
  <2>1. \A u \in User : updates[u] = 0 /\ messages[u] = 0 /\ confirmed[u] = 0
    BY DEF NotifyInit, Nobody
  <2>2. Cardinality({}) = 0 /\ 0 + 0 <= 0
    BY FS_EmptySet
  <2> QED
    BY <1>4, <2>1, <2>2 DEF RowsAreThere
<1> QED
  BY <1>1, <1>3, <1>5 DEF NotifyInv

\* How a step of one request changes who is to announce and to confirm.
LEMMA OneMoves ==
    ASSUME NotifyInv, NEW s \in Sender, NEW request \in SendingState, NEW u,
           sending' = [sending EXCEPT ![s] = request]
    PROVE  /\ ToAnnounce(u)' = IF request.op = "message" /\ request.step = "insert" /\ request.to[u] = 1
                               THEN ToAnnounce(u) \cup {s} ELSE ToAnnounce(u) \ {s}
           /\ ToConfirm(u)' = IF request.op = "message" /\ request.step = "answer" /\ request.to[u] = 1
                              THEN ToConfirm(u) \cup {s} ELSE ToConfirm(u) \ {s}
<1>1. sending'[s] = request /\ \A q \in Sender \ {s} : sending'[q] = sending[q]
  BY TablesType DEF NotifyInv
<1> QED
  BY <1>1 DEF ToAnnounce, ToConfirm, Announcing, Confirming, At

\* ... and how many they are.
LEMMA OneCounts ==
    ASSUME NEW S, IsFiniteSet(S), NEW s
    PROVE  /\ Cardinality(S \cup {s}) = IF s \in S THEN Cardinality(S) ELSE Cardinality(S) + 1
           /\ Cardinality(S \ {s}) = IF s \in S THEN Cardinality(S) - 1 ELSE Cardinality(S)
           /\ Cardinality(S) \in Nat
BY FS_AddElement, FS_RemoveElement, FS_CardinalityType

\* The others' requests are as they were.
LEMMA OthersSend ==
    ASSUME NotifyInv, NEW s \in Sender, NEW request \in SendingState, active' = active,
           sending' = [sending EXCEPT ![s] = request],
           request.step = "select" => request.op = "broadcast",
           request.step \in {"message", "answer"} => request.op = "message",
           request.op = "message" => \A u \in User : request.to[u] \in {0, 1},
           request.op = "broadcast" => request.step \in {"select", "insert"},
           request.step = "select" => /\ request.always \subseteq {u \in User : active[u]}
                                      /\ {u \in User : active[u]} \subseteq request.ever,
           request.op = "broadcast" /\ request.step = "insert" =>
               /\ request.always \subseteq {u \in User : request.to[u] > 0}
               /\ {u \in User : request.to[u] > 0} \subseteq request.ever
    PROVE  /\ sending' \in [Sender -> SendingState]
           /\ BroadcastReaches' /\ \A q \in Sender : (Sent(q) /\ Meant(q))'
<1>1. /\ sending'[s] = request /\ \A q \in Sender \ {s} : sending'[q] = sending[q]
      /\ sending' \in [Sender -> SendingState]
  BY TablesType DEF NotifyInv
<1>2. BroadcastReaches'
  BY <1>1 DEF NotifyInv, BroadcastReaches, At
<1>3. ASSUME NEW q \in Sender PROVE (Sent(q) /\ Meant(q))'
  BY <1>1 DEF NotifyInv, Sent, Meant, At
<1> QED
  BY <1>1, <1>2, <1>3
\* A step that writes no table.
LEMMA NothingWritten ==
    ASSUME NotifyInv, UNCHANGED <<updates, messages, confirmed>>,
           \A u \in User : /\ ToAnnounce(u)' \subseteq ToAnnounce(u)
                           /\ ToConfirm(u)' \subseteq ToConfirm(u)
    PROVE  RowsAreThere'
<1> SUFFICES ASSUME NEW u \in User
             PROVE  /\ updates[u] + Cardinality(ToAnnounce(u)') <= messages[u]
                    /\ confirmed[u] + Cardinality(ToConfirm(u)') <= updates[u]
  BY DEF RowsAreThere
<1>1. /\ ToAnnounce(u)' \in SUBSET ToAnnounce(u) /\ ToConfirm(u)' \in SUBSET ToConfirm(u)
      /\ IsFiniteSet(ToAnnounce(u)) /\ IsFiniteSet(ToConfirm(u))
  BY CountersType
<1>2. /\ Cardinality(ToAnnounce(u)') <= Cardinality(ToAnnounce(u))
      /\ Cardinality(ToConfirm(u)') <= Cardinality(ToConfirm(u))
      /\ Cardinality(ToAnnounce(u)') \in Nat /\ Cardinality(ToConfirm(u)') \in Nat
      /\ Cardinality(ToAnnounce(u)) \in Nat /\ Cardinality(ToConfirm(u)) \in Nat
  BY <1>1, FS_Subset, FS_CardinalityType
<1>3. /\ updates[u] \in Nat /\ messages[u] \in Nat /\ confirmed[u] \in Nat
      /\ updates[u] + Cardinality(ToAnnounce(u)) <= messages[u]
      /\ confirmed[u] + Cardinality(ToConfirm(u)) <= updates[u]
  BY TablesType DEF NotifyInv, RowsAreThere
<1> QED
  BY <1>2, <1>3

\* A request that is accepted, or refused at once, announces nothing yet.
LEMMA SendAccepted ==
    ASSUME NotifyInv, NEW s \in Sender, NEW request \in SendingState, Accept(s),
           sending' = [sending EXCEPT ![s] = request],
           \/ request.op \in {"none", "list"} /\ request.step \in {"idle", "insert"}
           \/ /\ request.op = "broadcast" /\ request.step = "select"
              /\ request.always = {u \in User : active[u]}
              /\ request.ever = {u \in User : active[u]}
           \/ /\ request.op = "message" /\ request.step = "message"
              /\ \A u \in User : request.to[u] \in {0, 1}
    PROVE  NotifyInv'
<1>1. /\ UNCHANGED <<active, inbox, updates, messages, confirmed>>
      /\ budget \in 0 .. MaxRequests /\ budget > 0 /\ budget' = budget - 1
  BY TablesType DEF Accept, tables, NotifyInv
<1>2. budget' \in 0 .. MaxRequests
  BY <1>1, NotifyAssumption
<1>3. /\ sending' \in [Sender -> SendingState]
      /\ BroadcastReaches' /\ \A q \in Sender : (Sent(q) /\ Meant(q))'
  BY <1>1, OthersSend
<1>4. ASSUME NEW u \in User
      PROVE  ToAnnounce(u)' \subseteq ToAnnounce(u) /\ ToConfirm(u)' \subseteq ToConfirm(u)
  <2>1. ~ (request.op = "message" /\ request.step \in {"insert", "answer"})
    OBVIOUS
  <2>2. /\ ToAnnounce(u)' = ToAnnounce(u) \ {s} /\ ToConfirm(u)' = ToConfirm(u) \ {s}
    BY <2>1, OneMoves
  <2> QED
    BY <2>2
<1>5. RowsAreThere'
  BY <1>1, <1>4, NothingWritten
<1>6. NotifyTypeOK'
  BY <1>1, <1>2, <1>3, TablesType DEF NotifyInv, NotifyTypeOK, UsersTypeOK, SendingState
<1> QED
  BY <1>3, <1>5, <1>6 DEF NotifyInv

LEMMA SendRequested ==
    ASSUME NotifyInv, NEW s \in Sender, NEW broadcast \in BOOLEAN, NEW userIds \in Lists,
           NEW userId \in User \cup {"nobody"}, SendNotification(s, broadcast, userIds, userId)
    PROVE  NotifyInv'
<1>0. Accept(s)
  BY DEF SendNotification
<1>1. CASE broadcast
  <2> DEFINE request == [NoSending EXCEPT !.op = "broadcast", !.step = "select",
                            !.always = {u \in User : active[u]}, !.ever = {u \in User : active[u]}]
  <2>1. sending' = [sending EXCEPT ![s] = request]
    BY <1>1 DEF SendNotification
  <2>2. request \in SendingState /\ request.op = "broadcast" /\ request.step = "select"
        /\ request.always = {u \in User : active[u]} /\ request.ever = {u \in User : active[u]}
    BY SendingTypes DEF SendingState
  <2> QED
    BY <1>0, <2>1, <2>2, SendAccepted
<1>2. ASSUME NEW to \in [User -> 0 .. 2],
             sending' = [sending EXCEPT ![s] =
                [NoSending EXCEPT !.op = "list", !.step = "insert", !.to = to]]
      PROVE  NotifyInv'
  <2> DEFINE request == [NoSending EXCEPT !.op = "list", !.step = "insert", !.to = to]
  <2>1. request \in SendingState /\ request.op = "list" /\ request.step = "insert"
    BY SendingTypes DEF SendingState
  <2> QED
    BY <1>0, <1>2, <2>1, SendAccepted
<1>3. CASE ~ broadcast /\ userIds # <<>>
  BY <1>2, <1>3, MentionsType DEF SendNotification
<1>4. CASE ~ broadcast /\ userIds = <<>> /\ userId # "nobody"
  BY <1>2, <1>4, SendingTypes DEF SendNotification
<1>5. CASE ~ broadcast /\ userIds = <<>> /\ userId = "nobody"
  <2>1. sending' = [sending EXCEPT ![s] = NoSending]
    BY <1>5 DEF SendNotification
  <2> QED
    BY <1>0, <2>1, SendingTypes, SendAccepted
<1> QED
  BY <1>1, <1>3, <1>4, <1>5

LEMMA MessageRequested ==
    ASSUME NotifyInv, NEW s \in Sender, NEW recipient \in User \cup {"nobody"},
           SendMessage(s, recipient)
    PROVE  NotifyInv'
<1>1. CASE recipient = "nobody"
  <2>1. Accept(s) /\ sending' = [sending EXCEPT ![s] = NoSending]
    BY <1>1 DEF SendMessage
  <2> QED
    BY <2>1, SendingTypes, SendAccepted
<1>2. CASE recipient # "nobody"
  <2> DEFINE request == [NoSending EXCEPT !.op = "message", !.step = "message", !.to = Just(recipient)]
  <2>1. Accept(s) /\ sending' = [sending EXCEPT ![s] = request]
    BY <1>2 DEF SendMessage
  <2>2. request \in SendingState /\ request.op = "message" /\ request.step = "message"
        /\ request.to = Just(recipient)
    BY SendingTypes DEF SendingState
  <2>3. \A u \in User : request.to[u] \in {0, 1}
    BY <2>2, SendingTypes
  <2> QED
    BY <2>1, <2>2, <2>3, SendAccepted
<1> QED
  BY <1>1, <1>2

\* A request that is over, or whose process dies.
LEMMA SendingEnds ==
    ASSUME NotifyInv, NEW s \in Sender, Done(s), UNCHANGED <<active, updates, messages, confirmed, budget>>,
           inbox' \in [User -> Nat]
    PROVE  NotifyInv'
<1>1. /\ sending' = [sending EXCEPT ![s] = NoSending] /\ NoSending \in SendingState
      /\ NoSending.op = "none" /\ NoSending.step = "idle"
  BY SendingTypes DEF Done
<1>2. /\ sending' \in [Sender -> SendingState]
      /\ BroadcastReaches' /\ \A q \in Sender : (Sent(q) /\ Meant(q))'
  BY <1>1, OthersSend
<1>3. NotifyTypeOK'
  BY <1>2, TablesType DEF NotifyInv, NotifyTypeOK, UsersTypeOK, SendingState
<1>4. ASSUME NEW u \in User
      PROVE  ToAnnounce(u)' \subseteq ToAnnounce(u) /\ ToConfirm(u)' \subseteq ToConfirm(u)
  <2>1. /\ ToAnnounce(u)' = ToAnnounce(u) \ {s} /\ ToConfirm(u)' = ToConfirm(u) \ {s}
    BY <1>1, OneMoves
  <2> QED
    BY <2>1
<1>5. RowsAreThere'
  BY <1>4, NothingWritten
<1> QED
  BY <1>2, <1>3, <1>5 DEF NotifyInv
\* The SELECT of a broadcast: the active users of this moment.
LEMMA BroadcastSelects == ASSUME NotifyInv, NEW s \in Sender, SelectActive(s) PROVE NotifyInv'
<1>1. /\ sending[s] \in SendingState /\ sending[s].step = "select" /\ sending[s].op = "broadcast"
      /\ sending[s].always \subseteq {u \in User : active[u]}
      /\ {u \in User : active[u]} \subseteq sending[s].ever
      /\ UNCHANGED <<active, inbox, updates, messages, confirmed, budget>>
      /\ inbox \in [User -> Nat] /\ active \in [User -> BOOLEAN]
  BY TablesType DEF NotifyInv, Sent, Meant, SelectActive, At, tables, UsersTypeOK
<1>2. CASE ~ \E u \in User : active[u]
  BY <1>1, <1>2, SendingEnds DEF SelectActive
<1>3. CASE \E u \in User : active[u]
  <2> DEFINE to == [u \in User |-> IF active[u] THEN 1 ELSE 0]
             request == [sending[s] EXCEPT !.to = to, !.step = "insert"]
  <2>1. sending' = [sending EXCEPT ![s] = request]
    BY <1>3, TablesType DEF SelectActive, NotifyInv
  <2>2. to \in [User -> 0 .. 2] /\ {u \in User : to[u] > 0} = {u \in User : active[u]}
    <3>1. ASSUME NEW u \in User PROVE to[u] \in 0 .. 2 /\ (to[u] > 0 <=> active[u])
      OBVIOUS
    <3> QED
      BY <3>1
  <2>3. /\ request \in SendingState /\ request.op = "broadcast" /\ request.step = "insert"
        /\ request.to = to /\ request.always = sending[s].always /\ request.ever = sending[s].ever
    BY <1>1, <2>2 DEF SendingState
  <2> HIDE DEF to, request
  <2>4. /\ sending' \in [Sender -> SendingState]
        /\ BroadcastReaches' /\ \A q \in Sender : (Sent(q) /\ Meant(q))'
    BY <1>1, <2>1, <2>2, <2>3, OthersSend
  <2>5. ASSUME NEW u \in User
        PROVE  ToAnnounce(u)' \subseteq ToAnnounce(u) /\ ToConfirm(u)' \subseteq ToConfirm(u)
    <3>1. ToAnnounce(u)' = ToAnnounce(u) \ {s} /\ ToConfirm(u)' = ToConfirm(u) \ {s}
      BY <2>1, <2>3, OneMoves
    <3> QED
      BY <3>1
  <2>6. RowsAreThere'
    BY <1>1, <2>5, NothingWritten
  <2>7. NotifyTypeOK'
    BY <1>1, <2>4, TablesType DEF NotifyInv, NotifyTypeOK, UsersTypeOK, SendingState
  <2> QED
    BY <2>4, <2>6, <2>7 DEF NotifyInv
<1> QED
  BY <1>2, <1>3

LEMMA PlusType ==
    ASSUME NEW table \in [User -> Nat], NEW more \in [User -> 0 .. 2]
    PROVE  Plus(table, more) \in [User -> Nat]
<1>1. \A u \in User : table[u] \in Nat /\ more[u] \in Nat
  OBVIOUS
<1> QED
  BY <1>1 DEF Plus

\* A message is written, announced and confirmed: each time the request is
\* counted where it was not, and a row is added.
LEMMA MessageGoesOn ==
    ASSUME NotifyInv, NEW s \in Sender, sending[s].op = "message",
           NEW next \in {"idle", "insert", "answer"},
           sending' = [sending EXCEPT ![s] =
               IF next = "idle" THEN NoSending ELSE [sending[s] EXCEPT !.step = next]],
           UNCHANGED <<active, inbox, budget>>,
           \/ /\ At(s, "message") /\ next = "insert"
              /\ messages' = Plus(messages, sending[s].to) /\ UNCHANGED <<updates, confirmed>>
           \/ /\ At(s, "insert") /\ next = "answer"
              /\ updates' = Plus(updates, sending[s].to) /\ UNCHANGED <<messages, confirmed>>
           \/ /\ At(s, "answer") /\ next = "idle"
              /\ confirmed' = Plus(confirmed, sending[s].to) /\ UNCHANGED <<messages, updates>>
    PROVE  NotifyInv'
<1> DEFINE request == IF next = "idle" THEN NoSending ELSE [sending[s] EXCEPT !.step = next]
<1>1. /\ sending[s] \in SendingState /\ sending[s].to \in [User -> 0 .. 2]
      /\ \A u \in User : sending[s].to[u] \in {0, 1}
      /\ updates \in [User -> Nat] /\ messages \in [User -> Nat] /\ confirmed \in [User -> Nat]
  BY TablesType DEF NotifyInv, Sent, SendingState
<1>2. /\ request \in SendingState /\ request.step = next
      /\ next = "idle" => request.op = "none"
      /\ next # "idle" => request.op = "message" /\ request.to = sending[s].to
  BY <1>1, SendingTypes DEF SendingState
<1>3. sending' = [sending EXCEPT ![s] = request]
  OBVIOUS
<1> HIDE DEF request
<1>4. /\ sending' \in [Sender -> SendingState]
      /\ BroadcastReaches' /\ \A q \in Sender : (Sent(q) /\ Meant(q))'
  <2>1. request.op = "message" => \A u \in User : request.to[u] \in {0, 1}
    BY <1>1, <1>2
  <2>2. request.op # "broadcast" /\ request.step # "select" /\ request.step # "message"
    BY <1>2
  <2>3. request.step = "answer" => request.op = "message"
    BY <1>2
  <2> QED
    BY <1>2, <1>3, <2>1, <2>2, <2>3, OthersSend
<1>5. updates' \in [User -> Nat] /\ messages' \in [User -> Nat] /\ confirmed' \in [User -> Nat]
  BY <1>1, PlusType
<1>6. NotifyTypeOK'
  BY <1>4, <1>5, TablesType DEF NotifyInv, NotifyTypeOK, UsersTypeOK, SendingState
<1>7. ASSUME NEW u \in User
      PROVE  /\ updates'[u] + Cardinality(ToAnnounce(u)') <= messages'[u]
             /\ confirmed'[u] + Cardinality(ToConfirm(u)') <= updates'[u]
  <2>1. /\ updates[u] \in Nat /\ messages[u] \in Nat /\ confirmed[u] \in Nat
        /\ updates[u] + Cardinality(ToAnnounce(u)) <= messages[u]
        /\ confirmed[u] + Cardinality(ToConfirm(u)) <= updates[u]
        /\ sending[s].to[u] \in {0, 1}
    BY <1>1 DEF NotifyInv, RowsAreThere
  <2>2. /\ IsFiniteSet(ToAnnounce(u)) /\ IsFiniteSet(ToConfirm(u))
    BY CountersType
  <2> DEFINE A == ToAnnounce(u)
             C == ToConfirm(u)
  <2>3. /\ s \in A <=> At(s, "insert") /\ sending[s].to[u] = 1
        /\ s \in C <=> At(s, "answer") /\ sending[s].to[u] = 1
    BY DEF ToAnnounce, ToConfirm, Announcing, Confirming
  <2>4. /\ A' = IF next = "insert" /\ sending[s].to[u] = 1 THEN A \cup {s} ELSE A \ {s}
        /\ C' = IF next = "answer" /\ sending[s].to[u] = 1 THEN C \cup {s} ELSE C \ {s}
    <3>1. /\ A' = IF request.op = "message" /\ request.step = "insert" /\ request.to[u] = 1
                  THEN A \cup {s} ELSE A \ {s}
          /\ C' = IF request.op = "message" /\ request.step = "answer" /\ request.to[u] = 1
                  THEN C \cup {s} ELSE C \ {s}
      BY <1>2, <1>3, OneMoves
    <3> QED
      BY <1>2, <3>1
  <2>5. \A table \in [User -> Nat] : Plus(table, sending[s].to)[u] = table[u] + sending[s].to[u]
    BY DEF Plus
  <2> HIDE DEF A, C
  <2>6. /\ Cardinality(A \cup {s}) = IF s \in A THEN Cardinality(A) ELSE Cardinality(A) + 1
        /\ Cardinality(A \ {s}) = IF s \in A THEN Cardinality(A) - 1 ELSE Cardinality(A)
        /\ Cardinality(C \cup {s}) = IF s \in C THEN Cardinality(C) ELSE Cardinality(C) + 1
        /\ Cardinality(C \ {s}) = IF s \in C THEN Cardinality(C) - 1 ELSE Cardinality(C)
        /\ Cardinality(A) \in Nat /\ Cardinality(C) \in Nat
    BY <2>2, OneCounts DEF A, C
  <2>7. CASE sending[s].to[u] = 0
    <3>1. /\ updates'[u] = updates[u] /\ messages'[u] = messages[u] /\ confirmed'[u] = confirmed[u]
      BY <1>1, <2>1, <2>5, <2>7
    <3>2. Cardinality(A') = Cardinality(A) /\ Cardinality(C') = Cardinality(C)
      BY <2>3, <2>4, <2>6, <2>7
    <3> QED
      BY <2>1, <3>1, <3>2 DEF A, C
  <2>8. CASE sending[s].to[u] = 1
    <3>1. CASE At(s, "message")
      <4>1. /\ updates'[u] = updates[u] /\ messages'[u] = messages[u] + 1 /\ confirmed'[u] = confirmed[u]
            /\ s \notin A /\ s \notin C /\ next = "insert"
        BY <1>1, <2>3, <2>5, <2>8, <3>1 DEF At
      <4>2. Cardinality(A') = Cardinality(A) + 1 /\ Cardinality(C') = Cardinality(C)
        BY <2>4, <2>6, <2>8, <4>1
      <4> QED
        BY <2>1, <2>6, <4>1, <4>2 DEF A, C
    <3>2. CASE At(s, "insert")
      <4>1. /\ updates'[u] = updates[u] + 1 /\ messages'[u] = messages[u] /\ confirmed'[u] = confirmed[u]
            /\ s \in A /\ s \notin C /\ next = "answer"
        BY <1>1, <2>3, <2>5, <2>8, <3>2 DEF At
      <4>2. Cardinality(A') = Cardinality(A) - 1 /\ Cardinality(C') = Cardinality(C) + 1
        BY <2>4, <2>6, <2>8, <4>1
      <4> QED
        BY <2>1, <2>6, <4>1, <4>2 DEF A, C
    <3>3. CASE At(s, "answer")
      <4>1. /\ updates'[u] = updates[u] /\ messages'[u] = messages[u] /\ confirmed'[u] = confirmed[u] + 1
            /\ s \notin A /\ s \in C /\ next = "idle"
        BY <1>1, <2>3, <2>5, <2>8, <3>3 DEF At
      <4>2. Cardinality(A') = Cardinality(A) /\ Cardinality(C') = Cardinality(C) - 1
        BY <2>4, <2>6, <2>8, <4>1
      <4> QED
        BY <2>1, <2>6, <4>1, <4>2 DEF A, C
    <3> QED
      BY <3>1, <3>2, <3>3
  <2> QED
    BY <2>1, <2>7, <2>8
<1>8. RowsAreThere'
  BY <1>7 DEF RowsAreThere
<1> QED
  BY <1>4, <1>6, <1>8 DEF NotifyInv

\* Users are switched: the broadcasts take note.
LEMMA UserSwitched ==
    ASSUME NotifyInv, NEW u \in User, NEW isActive \in BOOLEAN, SwitchUser(u, isActive)
    PROVE  NotifyInv'
<1>1. /\ active' \in [User -> BOOLEAN] /\ UNCHANGED <<inbox, updates, messages, confirmed, budget>>
      /\ sending \in [Sender -> SendingState]
  BY TablesType DEF SwitchUser, setUserActive, NotifyInv, UsersTypeOK, tables
<1>2. ASSUME NEW s \in Sender
      PROVE  /\ sending'[s] \in SendingState
             /\ sending'[s].op = sending[s].op /\ sending'[s].step = sending[s].step
             /\ sending'[s].to = sending[s].to
             /\ sending[s].op = "broadcast" =>
                   /\ sending'[s].always = {v \in sending[s].always : active'[v]}
                   /\ sending'[s].ever = sending[s].ever \cup {v \in User : active'[v]}
  <2>1. sending[s] \in SendingState
    BY <1>1
  <2>2. CASE sending[s].op # "broadcast"
    <3>1. sending'[s] = sending[s]
      BY <2>2 DEF SwitchUser
    <3> QED
      BY <2>1, <2>2, <3>1
  <2>3. CASE sending[s].op = "broadcast"
    <3>1. sending'[s] = [sending[s] EXCEPT !.always = {v \in sending[s].always : active'[v]},
                                           !.ever = sending[s].ever \cup {v \in User : active'[v]}]
      BY <2>3 DEF SwitchUser
    <3> QED
      BY <2>1, <3>1 DEF SendingState
  <2> QED
    BY <2>2, <2>3
<1>3. sending' \in [Sender -> SendingState]
  <2>1. sending' = [s \in Sender |-> sending'[s]]
    BY DEF SwitchUser
  <2> QED
    BY <1>2, <2>1
<1>4. NotifyTypeOK'
  BY <1>1, <1>3, TablesType DEF NotifyInv, NotifyTypeOK, UsersTypeOK, SendingState
<1>5. ASSUME NEW v \in User PROVE ToAnnounce(v)' = ToAnnounce(v) /\ ToConfirm(v)' = ToConfirm(v)
  BY <1>2 DEF ToAnnounce, ToConfirm, Announcing, Confirming, At
<1>6. RowsAreThere'
  BY <1>1, <1>5, NothingWritten
<1>7. BroadcastReaches'
  BY <1>2 DEF NotifyInv, BroadcastReaches, At
<1>8. ASSUME NEW s \in Sender PROVE (Sent(s) /\ Meant(s))'
  <2>1. Sent(s)'
    BY <1>2 DEF NotifyInv, Sent, At
  <2>2. Meant(s)'
    BY <1>2 DEF NotifyInv, Sent, Meant, At, SendingState
  <2> QED
    BY <2>1, <2>2
<1> QED
  BY <1>4, <1>6, <1>7, <1>8 DEF NotifyInv

LEMMA NotifyNextInv == ASSUME NotifyInv, [NotifyNext]_notifyVars PROVE NotifyInv'
<1>1. ASSUME NEW s \in Sender, NEW broadcast \in BOOLEAN, NEW userIds \in Lists,
             NEW userId \in User \cup {"nobody"}, SendNotification(s, broadcast, userIds, userId)
      PROVE  NotifyInv'
  BY <1>1, SendRequested
<1>2. ASSUME NEW s \in Sender, NEW recipient \in User \cup {"nobody"}, SendMessage(s, recipient)
      PROVE  NotifyInv'
  BY <1>2, MessageRequested
<1>3. ASSUME NEW s \in Sender, SelectActive(s) PROVE NotifyInv'
  BY <1>3, BroadcastSelects
<1>4. ASSUME NEW s \in Sender, InsertMessage(s) PROVE NotifyInv'
  <2>1. sending[s].op = "message" /\ sending \in [Sender -> SendingState]
    BY <1>4, TablesType DEF InsertMessage, NotifyInv, Sent
  <2>2. sending' = [sending EXCEPT ![s] = [sending[s] EXCEPT !.step = "insert"]]
    BY <1>4, <2>1 DEF InsertMessage
  <2> QED
    BY <1>4, <2>1, <2>2, MessageGoesOn DEF InsertMessage
<1>5. ASSUME NEW s \in Sender, Insert(s) PROVE NotifyInv'
  <2>1. sending \in [Sender -> SendingState] /\ inbox \in [User -> Nat]
    BY TablesType DEF NotifyInv
  <2>2. CASE sending[s].op = "message"
    <3>1. sending' = [sending EXCEPT ![s] = [sending[s] EXCEPT !.step = "answer"]]
      BY <1>5, <2>1, <2>2 DEF Insert
    <3> QED
      BY <1>5, <2>2, <3>1, MessageGoesOn DEF Insert
  <2>3. CASE sending[s].op # "message"
    <3>1. inbox' \in [User -> Nat]
      BY <1>5, <2>1, <2>3, PlusType DEF Insert, SendingState
    <3> QED
      BY <1>5, <2>3, <3>1, SendingEnds DEF Insert
  <2> QED
    BY <2>2, <2>3
<1>6. ASSUME NEW s \in Sender, Confirm(s) PROVE NotifyInv'
  BY <1>6, MessageGoesOn DEF Confirm, Done, NotifyInv, Sent, tables
<1>7. ASSUME NEW s \in Sender, FailSending(s) PROVE NotifyInv'
  BY <1>7, SendingEnds, TablesType DEF FailSending, tables, NotifyInv
<1>8. ASSUME NEW u \in User, NEW isActive \in BOOLEAN, SwitchUser(u, isActive) PROVE NotifyInv'
  BY <1>8, UserSwitched
<1>9. CASE UNCHANGED notifyVars
  BY <1>9 DEF notifyVars, tables, NotifyInv, NotifyTypeOK, UsersTypeOK, RowsAreThere, ToAnnounce,
     ToConfirm, Announcing, Confirming, At, BroadcastReaches, Sent, Meant
<1> QED
  BY <1>1, <1>2, <1>3, <1>4, <1>5, <1>6, <1>7, <1>8, <1>9 DEF NotifyNext

LEMMA NotifyInvImplies == ASSUME NotifyInv PROVE SentArrives
<1> SUFFICES ASSUME NEW u \in User PROVE confirmed[u] <= updates[u] /\ updates[u] <= messages[u]
  BY DEF NotifyInv, SentArrives, AnnouncedIsThere
<1>1. /\ updates[u] \in Nat /\ messages[u] \in Nat /\ confirmed[u] \in Nat
      /\ updates[u] + Cardinality(ToAnnounce(u)) <= messages[u]
      /\ confirmed[u] + Cardinality(ToConfirm(u)) <= updates[u]
  BY TablesType DEF NotifyInv, RowsAreThere
<1>2. Cardinality(ToAnnounce(u)) \in Nat /\ Cardinality(ToConfirm(u)) \in Nat
  BY CountersType
<1> QED
  BY <1>1, <1>2

-----------------------------------------------------------------------------
(* Views of disputes.  Precedes is a strict total order, so that the events of a
   timeline stand where their numbers of predecessors say. *)
LEMMA PushedOnce ==
    /\ IsFiniteSet(Event)
    /\ \A e \in Event : PushedAt(e) \in Nat
    /\ \A e, f \in Event : PushedAt(e) = PushedAt(f) => e = f
<1>1. Event = {"escrow_created", "delivery_confirmed", "buyer_confirmed",
               "dispute_raised", "dispute_resolved"}
  BY DEF Event, OfEscrow
<1>2. IsFiniteSet(Event)
  <2>1. Event = (((({} \cup {"escrow_created"}) \cup {"delivery_confirmed"})
                 \cup {"buyer_confirmed"}) \cup {"dispute_raised"}) \cup {"dispute_resolved"}
    BY <1>1
  <2> QED
    BY <2>1, FS_EmptySet, FS_AddElement
<1>3. \A e \in Event : PushedAt(e) \in Nat
  BY <1>1 DEF PushedAt
<1>4. \A e, f \in Event : PushedAt(e) = PushedAt(f) => e = f
  BY <1>1 DEF PushedAt
<1> QED
  BY <1>2, <1>3, <1>4

LEMMA PrecedesOrders ==
    ASSUME NEW copy \in [Event -> Nat]
    PROVE  /\ \A e \in Event : ~ Precedes(copy, e, e)
           /\ \A e, f, g \in Event : Precedes(copy, e, f) /\ Precedes(copy, f, g) => Precedes(copy, e, g)
           /\ \A e, f \in Event : e # f => Precedes(copy, e, f) \/ Precedes(copy, f, e)
           /\ \A e, f \in Event : copy[e] < copy[f] => Precedes(copy, e, f)
<1>1. \A e \in Event : copy[e] \in Nat
  OBVIOUS
<1> QED
  BY <1>1, PushedOnce DEF Precedes

LEMMA PrecedingCounts ==
    ASSUME NEW copy \in [Event -> Nat]
    PROVE  /\ \A e : /\ IsFiniteSet(Preceding(copy, e)) /\ Cardinality(Preceding(copy, e)) \in Nat
           /\ \A e, f \in Pushed(copy) : Precedes(copy, e, f) =>
                 Cardinality(Preceding(copy, e)) < Cardinality(Preceding(copy, f))
<1>1. ASSUME NEW e
      PROVE  IsFiniteSet(Preceding(copy, e)) /\ Cardinality(Preceding(copy, e)) \in Nat
  <2>1. Preceding(copy, e) \in SUBSET Event
    BY DEF Preceding, Pushed
  <2> QED
    BY <2>1, PushedOnce, FS_Subset, FS_CardinalityType
<1>2. ASSUME NEW e \in Pushed(copy), NEW f \in Pushed(copy), Precedes(copy, e, f)
      PROVE  Cardinality(Preceding(copy, e)) < Cardinality(Preceding(copy, f))
  <2>1. e \in Event /\ f \in Event
    BY DEF Pushed
  <2>2. Preceding(copy, e) \subseteq Preceding(copy, f)
    BY <1>2, <2>1, PrecedesOrders DEF Preceding, Pushed
  <2>3. e \in Preceding(copy, f) /\ e \notin Preceding(copy, e)
    BY <1>2, <2>1, PrecedesOrders DEF Preceding
  <2>4. /\ Cardinality(Preceding(copy, e)) <= Cardinality(Preceding(copy, f))
        /\ Cardinality(Preceding(copy, e)) # Cardinality(Preceding(copy, f))
    BY <1>1, <2>2, <2>3, FS_Subset
  <2> QED
    BY <1>1, <2>4
<1> QED
  BY <1>1, <1>2

\* A timeline holds each event of its copy once, in the order of their times.
LEMMA TimelineSorts ==
    ASSUME NEW copy \in [Event -> Nat]
    PROVE  LET events == Timeline(copy)
               n      == Cardinality(Pushed(copy))
           IN  /\ n \in Nat /\ events \in [1 .. n -> Pushed(copy)] /\ Len(events) = n
               /\ \A e \in Pushed(copy) : \E i \in 1 .. n : events[i] = e
               /\ \A i, j \in 1 .. n : i < j => copy[events[i]] <= copy[events[j]]
<1> DEFINE P == Pushed(copy)
           n == Cardinality(P)
           before(e) == Cardinality(Preceding(copy, e))
           place == [e \in P |-> before(e)]
           events == Timeline(copy)
<1>1. P \in SUBSET Event /\ IsFiniteSet(P) /\ n \in Nat
  <2>1. P \in SUBSET Event
    BY DEF Pushed
  <2> QED
    BY <2>1, PushedOnce, FS_Subset, FS_CardinalityType
<1>2. ASSUME NEW e \in P PROVE before(e) \in Nat /\ before(e) < n
  <2>1. Preceding(copy, e) \in SUBSET P /\ e \notin Preceding(copy, e)
    BY <1>1, PrecedesOrders DEF Preceding
  <2>2. before(e) <= n /\ before(e) # n
    BY <1>1, <2>1, FS_Subset
  <2> QED
    BY <1>1, <2>2, PrecedingCounts
<1>3. ASSUME NEW e \in P, NEW f \in P, e # f PROVE before(e) # before(f)
  <2>1. before(e) \in Nat /\ before(f) \in Nat /\ (before(e) < before(f) \/ before(f) < before(e))
    BY <1>1, <1>2, <1>3, PrecedesOrders, PrecedingCounts
  <2> HIDE DEF before
  <2> QED
    BY <2>1
<1>4. ASSUME NEW i \in 1 .. n PROVE \E e \in P : before(e) = i - 1
  <2>1. place \in Injection(P, 0 .. n - 1)
    BY <1>1, <1>2, <1>3 DEF Injection, IsInjective
  <2>2. IsFiniteSet(0 .. n - 1) /\ Cardinality(0 .. n - 1) = n
    <3>1. n - 1 \in Int /\ (n - 1) - 0 + 1 = n /\ (0 > n - 1 => n = 0)
      BY <1>1
    <3> HIDE DEF n
    <3> QED
      BY <3>1, FS_Interval
  <2>3. place \in Surjection(P, 0 .. n - 1)
    BY <1>1, <2>1, <2>2, FS_Injection
  <2>4. i - 1 \in 0 .. n - 1
    BY <1>1
  <2> QED
    BY <2>3, <2>4 DEF Surjection
<1> HIDE DEF before
<1>5. ASSUME NEW i \in 1 .. n PROVE events[i] \in P /\ before(events[i]) = i - 1
  <2>1. events[i] = CHOOSE e \in P : before(e) = i - 1
    BY DEF Timeline, before
  <2> QED
    BY <1>4, <2>1
<1>6. events \in [1 .. n -> P]
  <2>1. events = [i \in 1 .. n |-> events[i]]
    BY DEF Timeline
  <2> QED
    BY <1>5, <2>1
<1>7. ASSUME NEW e \in P PROVE \E i \in 1 .. n : events[i] = e
  <2>1. before(e) + 1 \in 1 .. n
    BY <1>1, <1>2
  <2>2. events[before(e) + 1] \in P /\ before(events[before(e) + 1]) = (before(e) + 1) - 1
    BY <1>5, <2>1
  <2>3. before(events[before(e) + 1]) = before(e)
    BY <1>2, <2>2
  <2> QED
    BY <1>3, <2>1, <2>2, <2>3
<1>8. ASSUME NEW i \in 1 .. n, NEW j \in 1 .. n, i < j PROVE copy[events[i]] <= copy[events[j]]
  <2>1. /\ events[i] \in P /\ before(events[i]) = i - 1
        /\ events[j] \in P /\ before(events[j]) = j - 1
    BY <1>5
  <2>2. ~ Precedes(copy, events[j], events[i])
    <3>1. ~ before(events[j]) < before(events[i])
      BY <1>1, <1>8, <2>1
    <3> QED
      BY <2>1, <3>1, PrecedingCounts DEF before
  <2>3. copy[events[i]] \in Nat /\ copy[events[j]] \in Nat
    BY <1>1, <2>1
  <2> QED
    BY <1>1, <2>1, <2>2, <2>3, PrecedesOrders
<1>9. Len(events) = n
  <2>1. events \in Seq(P)
    BY <1>1, <1>6, SeqDef
  <2> QED
    BY <1>1, <1>6, <2>1, LenProperties
<1> HIDE DEF n, events, P
<1> QED
  BY <1>1, <1>6, <1>7, <1>8, <1>9 DEF n, events, P
-----------------------------------------------------------------------------
ViewState == [op : {"none", "timeline", "escrow"}, of : 0 .. MaxDisputes,
              reads : {<<>>, <<"escrow">>, <<"dispute">>,
                       <<"escrow", "dispute">>, <<"dispute", "escrow">>},
              dispute : DisputeRow \cup {NoDispute}, escrow : EscrowRow,
              before : SUBSET Event]

DisputeRead(v) ==
    \/ view[v].op \in {"timeline", "escrow"} /\ view[v].reads = <<>>
    \/ view[v].op = "timeline" /\ view[v].reads = <<"escrow">>

EscrowRead(v) ==
    \/ view[v].op \in {"timeline", "escrow"} /\ view[v].reads = <<>>
    \/ view[v].op = "escrow" /\ view[v].reads = <<"dispute">>

\* What a row of the escrow, or a copy of it, says of the disputes.
Caused(table, e) ==
    /\ e.cause # 0 => e.cause \in DOMAIN table /\ e.status \in {"disputed", "over"}
    /\ e.status = "disputed" => e.cause # 0
    /\ e.cause # 0 /\ e.status = "over" => table[e.cause].status = "resolved"

\* The dispute's copy is of a row whose dates are final.
CopiesDispute(v, k) ==
    /\ k \in DOMAIN disputes /\ view[v].dispute \in DisputeRow
    /\ view[v].dispute.raised = disputes[k].raised
    /\ view[v].dispute.resolved \in {0, disputes[k].resolved}
    /\ view[v].dispute.status = "resolved" => disputes[k].status = "resolved"
    /\ "dispute_resolved" \in view[v].before => view[v].dispute.resolved # 0

\* What GET /escrow/:id has found after it had read the escrow.
FoundAfter(v) ==
    view[v].escrow.cause # 0 =>
        /\ view[v].of # 0
        /\ view[v].dispute.raised >= disputes[view[v].escrow.cause].raised
        /\ view[v].escrow.status = "over" /\ view[v].of = view[v].escrow.cause =>
              view[v].dispute.status = "resolved"

\* What a request holds: copies of dates that are final, of all that had happened
\* when it came.
Holds(v) ==
    /\ Caused(disputes, view[v].escrow)
    /\ \A e \in OfEscrow : view[v].escrow.time[e] \in {0, escrow.time[e]}
    /\ view[v].before \subseteq Happened(view[v].of)
    /\ view[v].op # "timeline" => view[v].before = {}
    /\ view[v].op = "timeline" =>
          view[v].reads \in {<<>>, <<"escrow">>, <<"dispute", "escrow">>}
    /\ view[v].op = "escrow" =>
          view[v].reads \in {<<>>, <<"dispute">>, <<"escrow", "dispute">>}
    /\ DisputeRead(v) =>
          \/ CopiesDispute(v, view[v].of)
          \/ view[v].op = "escrow" /\ view[v].of = 0 /\ view[v].dispute = NoDispute
    /\ EscrowRead(v) =>
          \A e \in OfEscrow : e \in view[v].before => view[v].escrow.time[e] # 0
    /\ view[v].op = "escrow" /\ view[v].reads = <<>> => FoundAfter(v)

\* A resolved dispute has its date, and the escrow is over with it.
RowsHold ==
    /\ Caused(disputes, escrow)
    /\ \A k \in DOMAIN disputes :
          /\ disputes[k].resolved # 0 <=> disputes[k].status = "resolved"
          /\ disputes[k].status = "resolved" => escrow.status = "over"

ViewsInv == ViewsTypeOK /\ RowsHold /\ \A v \in Viewer : Holds(v)

LEMMA DatesAre ==
    ASSUME NEW d, NEW e
    PROVE  /\ \A f \in OfEscrow : f \in Event /\ Dates(d, e)[f] = e.time[f]
           /\ "dispute_raised" \in Event /\ Dates(d, e)["dispute_raised"] = d.raised
           /\ "dispute_resolved" \in Event /\ Dates(d, e)["dispute_resolved"] = d.resolved
           /\ "dispute_raised" \notin OfEscrow /\ "dispute_resolved" \notin OfEscrow
           /\ DOMAIN Dates(d, e) = Event
BY DEF Dates, Event, OfEscrow

LEMMA HappenedTo ==
    ASSUME NEW k \in DOMAIN disputes
    PROVE  /\ \A e \in OfEscrow : e \in Happened(k) <=> escrow.time[e] # 0
           /\ "dispute_raised" \in Happened(k) <=> disputes[k].raised # 0
           /\ "dispute_resolved" \in Happened(k) <=> disputes[k].resolved # 0
           /\ Happened(k) \subseteq Event
BY DatesAre DEF Happened

LEMMA NoViewType ==
    /\ NoView \in ViewState /\ NoView.op = "none" /\ NoView.before = {} /\ NoView.of = 0
    /\ NoView.dispute = NoDispute /\ NoView.escrow = NoEscrow
    /\ NoEscrow \in EscrowRow /\ NoEscrow.cause = 0 /\ NoEscrow.status = "initiated"
    /\ \A e \in OfEscrow : NoEscrow.time[e] = 0
    /\ MaxTime \in Nat \ {0} /\ MaxDisputes \in Nat /\ 0 \in 0 .. MaxTime /\ 1 \in 1 .. MaxTime
<1>1. /\ MaxTime \in Nat \ {0} /\ MaxDisputes \in Nat
      /\ 0 \in 0 .. MaxTime /\ 1 \in 1 .. MaxTime /\ 0 \in 0 .. MaxDisputes
  BY ViewsAssumption
<1>2. /\ NoEscrow \in EscrowRow /\ NoEscrow.cause = 0 /\ NoEscrow.status = "initiated"
      /\ \A e \in OfEscrow : NoEscrow.time[e] = 0
  BY <1>1 DEF NoEscrow, EscrowRow
<1> QED
  BY <1>1, <1>2 DEF NoView, ViewState

LEMMA DisputesType ==
    ASSUME ViewsTypeOK
    PROVE  /\ disputes \in Seq(DisputeRow) /\ Len(disputes) \in 0 .. MaxDisputes
           /\ DOMAIN disputes = 1 .. Len(disputes)
           /\ \A k \in DOMAIN disputes : disputes[k] \in DisputeRow
           /\ \A k \in DOMAIN disputes : k \in 1 .. MaxDisputes
           /\ escrow \in EscrowRow /\ now \in 1 .. MaxTime
           /\ view \in [Viewer -> ViewState]
<1>1. disputes \in Seq(DisputeRow) /\ Len(disputes) \in Nat /\ DOMAIN disputes = 1 .. Len(disputes)
  BY LenProperties DEF ViewsTypeOK
<1>2. \A k \in DOMAIN disputes : disputes[k] \in DisputeRow
  BY <1>1, ElementOfSeq
<1>3. Len(disputes) \in 0 .. MaxDisputes
  BY <1>1, ViewsAssumption DEF ViewsTypeOK
<1> QED
  BY <1>1, <1>2, <1>3, ViewsAssumption DEF ViewsTypeOK, ViewState

\* A request that rests.
LEMMA NothingHeld ==
    ASSUME NEW v \in Viewer, view[v] = NoView
    PROVE  Holds(v)
BY NoViewType DEF Holds, Caused, DisputeRead, EscrowRead

LEMMA ViewsInitInv == ViewsInit => ViewsInv
<1> SUFFICES ASSUME ViewsInit PROVE ViewsInv
  OBVIOUS
<1>1. now \in 1 .. MaxTime /\ disputes = <<>> /\ Len(disputes) = 0 /\ DOMAIN disputes = {}
  BY NoViewType DEF ViewsInit
<1>2. escrow \in EscrowRow /\ escrow.cause = 0 /\ escrow.status = "initiated"
  <2>1. 1 \in 0 .. MaxTime /\ NoEscrow.time \in [OfEscrow -> 0 .. MaxTime]
    BY NoViewType DEF EscrowRow
  <2> QED
    BY <2>1, NoViewType DEF ViewsInit, EscrowRow
<1>3. view \in [Viewer -> ViewState]
  BY NoViewType DEF ViewsInit
<1>4. ASSUME NEW v \in Viewer PROVE Holds(v)
  BY NothingHeld DEF ViewsInit
<1>5. ViewsTypeOK
  BY <1>1, <1>2, <1>3, NoViewType DEF ViewsTypeOK, ViewState
<1> QED
  BY <1>1, <1>2, <1>4, <1>5 DEF ViewsInv, RowsHold, Caused

\* Dates are set once, and a dispute that is resolved stays so.
Onward ==
    /\ \A e \in OfEscrow : escrow.time[e] # 0 => escrow'.time[e] = escrow.time[e]
    /\ DOMAIN disputes \subseteq DOMAIN disputes'
    /\ \A k \in DOMAIN disputes :
          /\ disputes'[k].raised = disputes[k].raised
          /\ disputes[k].resolved # 0 => disputes'[k].resolved = disputes[k].resolved
          /\ disputes[k].status = "resolved" => disputes'[k].status = "resolved"

LEMMA RowsMove ==
    ASSUME ViewsInv, UNCHANGED view, now' \in 1 .. MaxTime, escrow' \in EscrowRow,
           disputes' \in Seq(DisputeRow), Len(disputes') <= MaxDisputes, RowsHold', Onward
    PROVE  ViewsInv'
<1>1. ViewsTypeOK'
  BY DEF ViewsInv, ViewsTypeOK
<1>2. ASSUME NEW v \in Viewer PROVE Holds(v)'
  <2>1. Holds(v) /\ view'[v] = view[v] /\ view[v] \in ViewState
    BY DisputesType DEF ViewsInv
  <2>2. Caused(disputes', view[v].escrow)
    BY <2>1 DEF Holds, Caused, Onward
  <2>3. \A e \in OfEscrow : view[v].escrow.time[e] \in {0, escrow'.time[e]}
    BY <2>1 DEF Holds, Onward
  <2>4. view[v].before \subseteq Happened(view[v].of)'
    <3>1. CASE view[v].of \notin DOMAIN disputes
      BY <2>1, <3>1 DEF Holds, Happened
    <3>2. CASE view[v].of \in DOMAIN disputes
      <4> DEFINE k == view[v].of
      <4>1. k \in DOMAIN disputes' /\ Happened(k)' = {e \in Event : Dates(disputes'[k], escrow')[e] # 0}
        BY <2>1, <3>2 DEF Onward, Happened
      <4>2. ASSUME NEW e \in Happened(k) PROVE Dates(disputes'[k], escrow')[e] # 0
        <5>1. e \in Event /\ Dates(disputes[k], escrow)[e] # 0
          BY <3>2, <4>2 DEF Happened
        <5> HIDE DEF k
        <5> QED
          BY <3>2, <4>2, <5>1, DatesAre DEF Onward, Event, k
      <4>3. \A e \in view[v].before : e \in Event /\ e \in Happened(k)
        BY <2>1 DEF Holds, ViewState
      <4> QED
        BY <2>1, <4>1, <4>2, <4>3
    <3> QED
      BY <3>1, <3>2
  <2>5. CopiesDispute(v, view[v].of) => CopiesDispute(v, view[v].of)'
    BY <2>1 DEF CopiesDispute, Onward, DisputeRow
  <2>6. FoundAfter(v) => FoundAfter(v)'
    BY <2>1 DEF FoundAfter, Holds, Caused, Onward
  <2>7. (DisputeRead(v)' <=> DisputeRead(v)) /\ (EscrowRead(v)' <=> EscrowRead(v))
    BY <2>1 DEF DisputeRead, EscrowRead
  <2> QED
    BY <2>1, <2>2, <2>3, <2>4, <2>5, <2>6, <2>7 DEF Holds
<1> QED
  BY <1>1, <1>2 DEF ViewsInv

\* What the client backend and resolveDispute write.
LEMMA EscrowWritten ==
    ASSUME ViewsInv, Fund \/ Finish \/ \E e \in OfEscrow, at \in 1 .. now : Happen(e, at)
    PROVE  ViewsInv'
<1>1. /\ escrow \in EscrowRow /\ now \in 1 .. MaxTime /\ now # 0 /\ now \in 0 .. MaxTime
      /\ disputes \in Seq(DisputeRow) /\ Len(disputes) <= MaxDisputes /\ RowsHold
  BY DisputesType, NoViewType DEF ViewsInv
<1>2. disputes' = disputes /\ now' = now /\ view' = view
  BY DEF Fund, Finish, Happen
<1>3. /\ escrow' \in EscrowRow
      /\ escrow'.cause = escrow.cause
      /\ \/ escrow'.status = escrow.status
         \/ escrow.status \in {"initiated", "held"} /\ escrow'.status \in {"held", "over"}
      /\ \A e \in OfEscrow : escrow.time[e] # 0 => escrow'.time[e] = escrow.time[e]
  <2>1. CASE Fund
    <3>1. escrow' = [escrow EXCEPT !.status = "held"] /\ escrow.status = "initiated"
      BY <2>1 DEF Fund
    <3> QED
      BY <1>1, <3>1 DEF EscrowRow
  <2>2. CASE Finish
    <3>1. /\ escrow' = [escrow EXCEPT !.status = "over"]
          /\ escrow.status \in {"initiated", "held"}
      BY <2>2 DEF Finish
    <3> QED
      BY <1>1, <3>1 DEF EscrowRow
  <2>3. ASSUME NEW e \in OfEscrow, NEW at \in 1 .. now, Happen(e, at)
        PROVE  /\ escrow' \in EscrowRow /\ escrow'.cause = escrow.cause
               /\ escrow'.status = escrow.status
               /\ \A f \in OfEscrow : escrow.time[f] # 0 => escrow'.time[f] = escrow.time[f]
    <3> DEFINE times == [escrow.time EXCEPT ![e] = at]
    <3>1. escrow' = [escrow EXCEPT !.time = times] /\ escrow.time[e] = 0
      BY <2>3 DEF Happen
    <3>2. at \in 0 .. MaxTime
      BY <1>1, NoViewType
    <3>3. /\ times \in [OfEscrow -> 0 .. MaxTime]
          /\ \A f \in OfEscrow : escrow.time[f] # 0 => times[f] = escrow.time[f]
      BY <1>1, <3>1, <3>2 DEF EscrowRow
    <3> HIDE DEF times
    <3> QED
      BY <1>1, <3>1, <3>3 DEF EscrowRow
  <2> QED
    BY <2>1, <2>2, <2>3
<1>4. RowsHold'
  BY <1>1, <1>2, <1>3 DEF RowsHold, Caused
<1>5. Onward
  BY <1>2, <1>3 DEF Onward
<1> QED
  BY <1>1, <1>2, <1>3, <1>4, <1>5, RowsMove

LEMMA DisputeRaised ==
    ASSUME ViewsInv, NEW at \in 1 .. now, Raise(at)
    PROVE  ViewsInv'
<1> DEFINE row == [status |-> "open", raised |-> at, resolved |-> 0]
           n   == Len(disputes)
<1>1. /\ escrow \in EscrowRow /\ now \in 1 .. MaxTime /\ MaxTime \in Nat /\ MaxDisputes \in Nat
      /\ disputes \in Seq(DisputeRow) /\ DOMAIN disputes = 1 .. n /\ n \in Nat /\ RowsHold
  BY DisputesType, NoViewType DEF ViewsInv
<1>2. row \in DisputeRow /\ row.status = "open" /\ row.resolved = 0
  BY <1>1 DEF DisputeRow
<1>3. /\ n < MaxDisputes /\ disputes' = Append(disputes, row) /\ now' = now /\ view' = view
      /\ escrow' = IF escrow.status # "held" THEN escrow
                   ELSE [escrow EXCEPT !.status = "disputed", !.cause = n + 1]
  BY DEF Raise
<1> HIDE DEF row, n
<1>4. /\ disputes' \in Seq(DisputeRow) /\ Len(disputes') = n + 1 /\ DOMAIN disputes' = 1 .. n + 1
      /\ disputes'[n + 1] = row /\ \A k \in 1 .. n : disputes'[k] = disputes[k]
  BY <1>1, <1>2, <1>3, AppendProperties, LenProperties DEF n
<1>5. /\ escrow' \in EscrowRow /\ escrow'.time = escrow.time
      /\ escrow.status # "held" => escrow' = escrow
      /\ escrow.status = "held" => escrow'.status = "disputed" /\ escrow'.cause = n + 1
  <2>1. CASE escrow.status # "held"
    BY <1>1, <1>3, <2>1
  <2>2. CASE escrow.status = "held"
    <3>1. escrow' = [escrow EXCEPT !.status = "disputed", !.cause = n + 1]
      BY <1>3, <2>2
    <3>2. n + 1 \in 0 .. MaxDisputes
      BY <1>1, <1>3
    <3> QED
      BY <1>1, <2>2, <3>1, <3>2 DEF EscrowRow
  <2> QED
    BY <2>1, <2>2
<1>6. \A k \in 1 .. n : k \in 1 .. n + 1
  BY <1>1
<1>7. \A k \in 1 .. n + 1 : k \in 1 .. n \/ k = n + 1
  BY <1>1
<1>8. n + 1 # 0 /\ n + 1 \in 1 .. n + 1
  BY <1>1
<1>9. Caused(disputes', escrow')
  BY <1>1, <1>4, <1>5, <1>6, <1>8 DEF RowsHold, Caused
<1>10. RowsHold'
  BY <1>1, <1>2, <1>4, <1>5, <1>7, <1>9 DEF RowsHold
<1>11. Onward
  BY <1>1, <1>4, <1>5, <1>6 DEF Onward
<1> QED
  BY <1>1, <1>3, <1>4, <1>5, <1>10, <1>11, RowsMove

LEMMA DisputeEnds ==
    ASSUME ViewsInv, NEW k \in DOMAIN disputes,
           Withdraw(k) \/ \E at \in 1 .. now : Resolve(k, at)
    PROVE  ViewsInv'
<1>1. /\ escrow \in EscrowRow /\ now \in 1 .. MaxTime /\ now # 0 /\ now \in 0 .. MaxTime
      /\ disputes \in Seq(DisputeRow) /\ Len(disputes) <= MaxDisputes /\ RowsHold
      /\ DOMAIN disputes = 1 .. Len(disputes) /\ k \in 1 .. MaxDisputes
      /\ \A j \in DOMAIN disputes : disputes[j] \in DisputeRow
  BY DisputesType, NoViewType DEF ViewsInv
<1>2. disputes[k].status = "open" /\ now' = now /\ view' = view
  BY DEF Withdraw, Resolve
<1>3. disputes[k].resolved = 0
  BY <1>1, <1>2 DEF RowsHold
<1>4. ASSUME NEW row \in DisputeRow, disputes' = [disputes EXCEPT ![k] = row]
      PROVE  /\ disputes' \in Seq(DisputeRow) /\ Len(disputes') = Len(disputes)
             /\ DOMAIN disputes' = DOMAIN disputes /\ disputes'[k] = row
             /\ \A j \in DOMAIN disputes \ {k} : disputes'[j] = disputes[j]
  BY <1>1, <1>4, ExceptSeq
<1>5. CASE Withdraw(k)
  <2> DEFINE row == [disputes[k] EXCEPT !.status = "closed"]
  <2>1. /\ row \in DisputeRow /\ row.status = "closed" /\ row.raised = disputes[k].raised
        /\ row.resolved = disputes[k].resolved
    BY <1>1 DEF DisputeRow
  <2>2. disputes' = [disputes EXCEPT ![k] = row] /\ escrow' = escrow
    BY <1>5 DEF Withdraw
  <2> HIDE DEF row
  <2>3. RowsHold'
    BY <1>1, <1>2, <1>3, <1>4, <2>1, <2>2 DEF RowsHold, Caused
  <2>4. Onward
    BY <1>1, <1>2, <1>3, <1>4, <2>1, <2>2 DEF Onward
  <2> QED
    BY <1>1, <1>2, <1>4, <2>1, <2>2, <2>3, <2>4, RowsMove
<1>6. ASSUME NEW at \in 1 .. now, Resolve(k, at) PROVE ViewsInv'
  <2> DEFINE row == [disputes[k] EXCEPT !.status = "resolved", !.resolved = at]
  <2>0. at \in 0 .. MaxTime /\ at # 0
    BY <1>1, NoViewType
  <2>1. /\ row \in DisputeRow /\ row.status = "resolved" /\ row.raised = disputes[k].raised
        /\ row.resolved = at
    BY <1>1, <2>0 DEF DisputeRow
  <2>2. disputes' = [disputes EXCEPT ![k] = row]
    BY <1>6 DEF Resolve
  <2>3. escrow' = [escrow EXCEPT !.status = "over", !.cause = k]
    BY <1>6 DEF Resolve
  <2>4. /\ escrow' \in EscrowRow /\ escrow'.time = escrow.time
        /\ escrow'.status = "over" /\ escrow'.cause = k
    <3>1. k \in 0 .. MaxDisputes
      BY <1>1
    <3> QED
      BY <1>1, <2>3, <3>1 DEF EscrowRow
  <2> HIDE DEF row
  <2>5. RowsHold'
    BY <1>1, <1>2, <1>3, <1>4, <2>0, <2>1, <2>2, <2>4 DEF RowsHold, Caused
  <2>6. Onward
    BY <1>1, <1>2, <1>3, <1>4, <2>1, <2>2, <2>4 DEF Onward
  <2> QED
    BY <1>1, <1>2, <1>4, <2>1, <2>2, <2>4, <2>5, <2>6, RowsMove
<1> QED
  BY <1>5, <1>6

\* A step of one request.
LEMMA ViewMoves ==
    ASSUME ViewsInv, NEW v \in Viewer, NEW request \in ViewState,
           UNCHANGED <<escrow, disputes, now>>,
           view' = [view EXCEPT ![v] = request], Holds(v)'
    PROVE  ViewsInv'
<1>1. view \in [Viewer -> ViewState]
  BY DisputesType DEF ViewsInv
<1>2. view' \in [Viewer -> ViewState] /\ \A q \in Viewer \ {v} : view'[q] = view[q]
  BY <1>1
<1>3. ASSUME NEW q \in Viewer \ {v} PROVE Holds(q)'
  BY <1>2 DEF ViewsInv, Holds, DisputeRead, EscrowRead, CopiesDispute, FoundAfter, Happened
<1> QED
  BY <1>2, <1>3 DEF ViewsInv, ViewsTypeOK, RowsHold, ViewState

LEMMA ViewEnds ==
    ASSUME ViewsInv, NEW v \in Viewer, UNCHANGED <<escrow, disputes, now>>,
           view' = [view EXCEPT ![v] = NoView]
    PROVE  ViewsInv'
<1>1. view'[v] = NoView
  BY DEF ViewsInv, ViewsTypeOK
<1>2. Holds(v)'
  BY <1>1, NoViewType DEF Holds, Caused, DisputeRead, EscrowRead
<1> QED
  BY <1>2, NoViewType, ViewMoves

LEMMA ViewAsked ==
    ASSUME ViewsInv, NEW v \in Viewer,
           ViewEscrow(v) \/ \E k \in 1 .. MaxDisputes : ViewTimeline(v, k)
    PROVE  ViewsInv'
<1>1. PICK op \in {"timeline", "escrow"}, k \in 0 .. MaxDisputes, asked \in ViewState :
         /\ view' = [view EXCEPT ![v] = asked] /\ UNCHANGED <<escrow, disputes, now>>
         /\ asked.op = op /\ asked.of = k /\ asked.reads = Reads(op)
         /\ asked.escrow = NoEscrow
         /\ asked.before = IF op = "timeline" THEN Happened(k) ELSE {}
  <2>1. ASSUME ViewEscrow(v)
        PROVE  \E asked \in ViewState :
                  /\ view' = [view EXCEPT ![v] = asked] /\ UNCHANGED <<escrow, disputes, now>>
                  /\ asked.op = "escrow" /\ asked.of = 0 /\ asked.reads = Reads("escrow")
                  /\ asked.escrow = NoEscrow /\ asked.before = {}
    <3> DEFINE request == [NoView EXCEPT !.op = "escrow", !.reads = Reads("escrow")]
    <3>1. /\ request.op = "escrow" /\ request.of = 0 /\ request.reads = Reads("escrow")
          /\ request.escrow = NoEscrow /\ request.before = {} /\ request \in ViewState
      BY NoViewType DEF NoView, ViewState, Reads
    <3>2. view' = [view EXCEPT ![v] = request] /\ UNCHANGED <<escrow, disputes, now>>
      BY <2>1 DEF ViewEscrow
    <3> HIDE DEF request
    <3> QED
      BY <3>1, <3>2
  <2>2. ASSUME NEW k \in 1 .. MaxDisputes, ViewTimeline(v, k)
        PROVE  \E asked \in ViewState :
                  /\ view' = [view EXCEPT ![v] = asked] /\ UNCHANGED <<escrow, disputes, now>>
                  /\ asked.op = "timeline" /\ asked.of = k /\ asked.reads = Reads("timeline")
                  /\ asked.escrow = NoEscrow /\ asked.before = Happened(k)
    <3> DEFINE request == [NoView EXCEPT !.op = "timeline", !.of = k, !.reads = Reads("timeline"),
                                         !.before = Happened(k)]
    <3>1. Happened(k) \in SUBSET Event /\ k \in 0 .. MaxDisputes
      BY NoViewType DEF Happened
    <3>2. /\ request.op = "timeline" /\ request.of = k /\ request.reads = Reads("timeline")
          /\ request.escrow = NoEscrow /\ request.before = Happened(k) /\ request \in ViewState
      BY <3>1, NoViewType DEF NoView, ViewState, Reads
    <3>3. view' = [view EXCEPT ![v] = request] /\ UNCHANGED <<escrow, disputes, now>>
      BY <2>2 DEF ViewTimeline
    <3> HIDE DEF request
    <3> QED
      BY <3>2, <3>3
  <2>3. ViewEscrow(v) \/ \E k \in 1 .. MaxDisputes : ViewTimeline(v, k)
    OBVIOUS
  <2>4. 1 .. MaxDisputes \subseteq 0 .. MaxDisputes /\ 0 \in 0 .. MaxDisputes
    BY NoViewType
  <2> QED
    BY <2>1, <2>2, <2>3, <2>4
<1> DEFINE happened == IF op = "timeline" THEN Happened(k) ELSE {}
<1>2. happened \subseteq Happened(k) /\ (op # "timeline" => happened = {})
  OBVIOUS
<1>3. /\ Reads(op) = IF op = "timeline" THEN <<"dispute", "escrow">> ELSE <<"escrow", "dispute">>
      /\ Reads(op) # <<>> /\ Reads(op) # <<"escrow">> /\ Reads(op) # <<"dispute">>
  BY DEF Reads
<1>4. view'[v] = asked
  BY <1>1 DEF ViewsInv, ViewsTypeOK
<1>5. /\ view'[v].op = op /\ view'[v].of = k /\ view'[v].reads = Reads(op)
      /\ view'[v].escrow = NoEscrow /\ view'[v].before = happened
  BY <1>1, <1>4
<1>6. ~ DisputeRead(v)' /\ ~ EscrowRead(v)'
  BY <1>3, <1>5 DEF DisputeRead, EscrowRead
<1>7. Holds(v)'
  <2>1. view'[v].before \subseteq Happened(view[v].of)'
    BY <1>1, <1>2, <1>5 DEF Happened
  <2>2. /\ op = "timeline" => view'[v].reads = <<"dispute", "escrow">>
        /\ op # "timeline" => view'[v].reads = <<"escrow", "dispute">>
        /\ view'[v].reads # <<>> /\ op \in {"timeline", "escrow"}
    BY <1>1, <1>3, <1>5
  <2> HIDE DEF happened
  <2> QED
    BY <1>2, <1>5, <1>6, <2>1, <2>2, NoViewType DEF Holds, Caused
<1> QED
  BY <1>1, <1>7, ViewMoves

\* What is left after a read, for each of the two requests.
LEMMA ReadsLeft ==
    /\ Head(<<"dispute", "escrow">>) = "dispute" /\ Tail(<<"dispute", "escrow">>) = <<"escrow">>
    /\ Head(<<"escrow", "dispute">>) = "escrow" /\ Tail(<<"escrow", "dispute">>) = <<"dispute">>
    /\ Head(<<"dispute">>) = "dispute" /\ Tail(<<"dispute">>) = <<>>
    /\ Head(<<"escrow">>) = "escrow" /\ Tail(<<"escrow">>) = <<>>
    /\ <<"dispute", "escrow">> # <<"escrow", "dispute">>
    /\ <<"dispute", "escrow">> # <<"dispute">> /\ <<"dispute", "escrow">> # <<"escrow">>
    /\ <<"escrow", "dispute">> # <<"dispute">> /\ <<"escrow", "dispute">> # <<"escrow">>
    /\ <<"dispute", "escrow">> # <<>> /\ <<"escrow", "dispute">> # <<>>
    /\ <<"dispute">> # <<"escrow">> /\ <<"dispute">> # <<>> /\ <<"escrow">> # <<>>
<1>1. /\ <<"dispute", "escrow">>[1] = "dispute" /\ <<"escrow", "dispute">>[1] = "escrow"
      /\ <<"dispute">>[1] = "dispute" /\ <<"escrow">>[1] = "escrow"
  OBVIOUS
<1>2. /\ Len(<<"dispute", "escrow">>) = 2 /\ Len(<<"escrow", "dispute">>) = 2
      /\ Len(<<"dispute">>) = 1 /\ Len(<<"escrow">>) = 1 /\ Len(<<>>) = 0
  OBVIOUS
<1>3. /\ Head(<<"dispute", "escrow">>) = "dispute" /\ Tail(<<"dispute", "escrow">>) = <<"escrow">>
      /\ Head(<<"escrow", "dispute">>) = "escrow" /\ Tail(<<"escrow", "dispute">>) = <<"dispute">>
  OBVIOUS
<1>4. /\ Head(<<"dispute">>) = "dispute" /\ Tail(<<"dispute">>) = <<>>
      /\ Head(<<"escrow">>) = "escrow" /\ Tail(<<"escrow">>) = <<>>
  OBVIOUS
<1>5. <<"dispute", "escrow">> # <<"escrow", "dispute">> /\ <<"dispute">> # <<"escrow">>
  <2>1. "dispute" # "escrow"
    OBVIOUS
  <2> QED
    BY <1>1, <2>1
<1> QED
  BY <1>2, <1>3, <1>4, <1>5

LEMMA DisputeIsRead == ASSUME ViewsInv, NEW v \in Viewer, ReadDispute(v) PROVE ViewsInv'
<1>1. /\ view[v] \in ViewState /\ Holds(v) /\ view \in [Viewer -> ViewState]
      /\ UNCHANGED <<escrow, disputes, now>>
      /\ view[v].reads # <<>> /\ Head(view[v].reads) = "dispute"
      /\ DOMAIN disputes = 1 .. Len(disputes)
      /\ \A k \in DOMAIN disputes : k \in 1 .. MaxDisputes /\ disputes[k] \in DisputeRow
  BY DisputesType DEF ReadDispute, Reading, ViewsInv
<1>2. PICK k \in Found(v) :
         view' = [view EXCEPT ![v].of = k, ![v].reads = Tail(@),
                              ![v].dispute = IF k = 0 THEN NoDispute ELSE disputes[k]]
  BY DEF ReadDispute
<1>3. \/ view[v].reads = <<"dispute", "escrow">> /\ Tail(view[v].reads) = <<"escrow">>
      \/ view[v].reads = <<"dispute">> /\ Tail(view[v].reads) = <<>>
  <2>1. "dispute" # "escrow"
    OBVIOUS
  <2> QED
    BY <1>1, <2>1, ReadsLeft DEF ViewState
<1>4. /\ view[v].op = "timeline" =>
            k = view[v].of /\ k \in DOMAIN disputes /\ Tail(view[v].reads) = <<"escrow">>
      /\ view[v].op = "escrow" => k \in Latest /\ Tail(view[v].reads) = <<>>
      /\ view[v].op # "escrow" => k \in DOMAIN disputes
  BY <1>1, <1>2, <1>3, ReadsLeft DEF Found, Holds
<1>5. k = 0 \/ k \in DOMAIN disputes
  BY <1>2 DEF Found, Latest
<1>6. k \in DOMAIN disputes => k # 0
  BY <1>1
<1> DEFINE row     == IF k = 0 THEN NoDispute ELSE disputes[k]
           request == [view[v] EXCEPT !.of = k, !.reads = Tail(view[v].reads), !.dispute = row]
<1>7. row \in DisputeRow \cup {NoDispute} /\ k \in 0 .. MaxDisputes
  BY <1>1, <1>5, <1>6, NoViewType
<1>8. view' = [view EXCEPT ![v] = request]
  BY <1>1, <1>2
<1> HIDE DEF row
<1>9. request \in ViewState
  BY <1>1, <1>3, <1>7 DEF ViewState
<1>10. /\ view'[v].op = view[v].op /\ view'[v].before = view[v].before
       /\ view'[v].escrow = view[v].escrow /\ view'[v].dispute = row /\ view'[v].of = k
       /\ view'[v].reads = Tail(view[v].reads)
  BY <1>1, <1>8 DEF ViewState
<1>11. Happened(k)' = Happened(k)
  BY <1>1 DEF Happened
<1>12. CASE view[v].op = "timeline"
  <2>1. k \in DOMAIN disputes /\ row = disputes[k] /\ k = view[v].of
    BY <1>4, <1>6, <1>12 DEF row
  <2>2. "dispute_resolved" \in view[v].before => disputes[k].resolved # 0
    BY <1>1, <2>1, HappenedTo DEF Holds
  <2>3. CopiesDispute(v, k)'
    BY <1>1, <1>10, <2>1, <2>2 DEF CopiesDispute
  <2>4. ~ EscrowRead(v)' /\ view'[v].reads = <<"escrow">>
    BY <1>4, <1>10, <1>12, ReadsLeft DEF EscrowRead
  <2>5. view'[v].before \subseteq Happened(k)'
    BY <1>1, <1>10, <1>11, <2>1 DEF Holds
  <2>6. Holds(v)'
    BY <1>1, <1>10, <1>12, <2>3, <2>4, <2>5 DEF Holds
  <2> QED
    BY <1>1, <1>8, <1>9, <2>6, ViewMoves
<1>13. CASE view[v].op = "escrow"
  <2>1. k \in Latest /\ view'[v].reads = <<>> /\ view[v].before = {}
    BY <1>1, <1>4, <1>10, <1>13 DEF Holds
  <2>2. view[v].reads = <<"dispute">>
    BY <1>3, <1>10, <2>1, ReadsLeft
  <2>3. \/ CopiesDispute(v, k)'
        \/ k = 0 /\ view'[v].dispute = NoDispute
    <3>1. CASE k = 0
      BY <1>10, <3>1 DEF row
    <3>2. CASE k # 0
      BY <1>1, <1>5, <1>10, <2>1, <3>2 DEF row, CopiesDispute
    <3> QED
      BY <3>1, <3>2
  <2>4. FoundAfter(v)'
    <3> SUFFICES ASSUME view[v].escrow.cause # 0
                 PROVE  /\ k # 0
                        /\ row.raised >= disputes[view[v].escrow.cause].raised
                        /\ view[v].escrow.status = "over" /\ k = view[v].escrow.cause =>
                              row.status = "resolved"
      BY <1>1, <1>10 DEF FoundAfter
    <3> DEFINE cause == view[v].escrow.cause
    <3>1. cause \in DOMAIN disputes
      BY <1>1 DEF Holds, Caused
    <3>2. /\ k \in DOMAIN disputes /\ disputes[cause].raised <= disputes[k].raised
      BY <1>1, <2>1, <3>1 DEF Latest
    <3>3. disputes[cause].raised \in Int /\ disputes[k].raised \in Int
      BY <1>1, <3>1, <3>2 DEF DisputeRow
    <3>4. row = disputes[k] /\ k # 0
      BY <1>6, <3>2 DEF row
    <3>5. view[v].escrow.status = "over" => disputes[cause].status = "resolved"
      BY <1>1 DEF Holds, Caused
    <3> QED
      BY <3>2, <3>3, <3>4, <3>5
  <2>5. EscrowRead(v)' => EscrowRead(v)
    BY <1>10, <1>13, <2>2 DEF EscrowRead
  <2>6. Holds(v)'
    BY <1>1, <1>10, <1>13, <2>1, <2>3, <2>4, <2>5 DEF Holds
  <2> QED
    BY <1>1, <1>8, <1>9, <2>6, ViewMoves
<1>14. CASE view[v].op = "none"
  <2>1. k \in DOMAIN disputes /\ k = view[v].of /\ view[v].before = {}
    BY <1>1, <1>2, <1>14 DEF Found, Holds
  <2>2. Holds(v)'
    BY <1>1, <1>10, <1>14, <2>1 DEF Holds, DisputeRead, EscrowRead
  <2> QED
    BY <1>1, <1>8, <1>9, <2>2, ViewMoves
<1> QED
  BY <1>1, <1>12, <1>13, <1>14 DEF ViewState

LEMMA EscrowIsRead == ASSUME ViewsInv, NEW v \in Viewer, ReadEscrow(v) PROVE ViewsInv'
<1> DEFINE request == [view[v] EXCEPT !.escrow = escrow, !.reads = Tail(view[v].reads)]
<1>1. /\ view[v] \in ViewState /\ Holds(v) /\ escrow \in EscrowRow
      /\ UNCHANGED <<escrow, disputes, now>> /\ RowsHold
      /\ view[v].reads # <<>> /\ Head(view[v].reads) = "escrow"
  BY DisputesType DEF ReadEscrow, Reading, ViewsInv
<1>2. view' = [view EXCEPT ![v] = request]
  BY DEF ReadEscrow, ViewsInv, ViewsTypeOK
<1>3. \/ view[v].reads = <<"escrow", "dispute">> /\ Tail(view[v].reads) = <<"dispute">>
      \/ view[v].reads = <<"escrow">> /\ Tail(view[v].reads) = <<>>
  <2>1. "dispute" # "escrow"
    OBVIOUS
  <2> QED
    BY <1>1, <2>1, ReadsLeft DEF ViewState
<1>4. request \in ViewState
  BY <1>1, <1>3 DEF ViewState
<1>5. /\ view'[v].op = view[v].op /\ view'[v].before = view[v].before
      /\ view'[v].dispute = view[v].dispute /\ view'[v].of = view[v].of
      /\ view'[v].escrow = escrow /\ view'[v].reads = Tail(view[v].reads)
  BY <1>1, <1>2 DEF ViewsInv, ViewsTypeOK, ViewState
<1>6. DisputeRead(v)' => DisputeRead(v)
  BY <1>1, <1>3, <1>5, ReadsLeft DEF DisputeRead, Holds
<1>7. /\ view[v].op = "escrow" => view'[v].reads = <<"dispute">>
      /\ view[v].op = "timeline" => view'[v].reads = <<>>
  BY <1>1, <1>3, <1>5, ReadsLeft DEF Holds
<1>8. CopiesDispute(v, view[v].of) => CopiesDispute(v, view[v].of)'
  BY <1>1, <1>5 DEF CopiesDispute
<1>9. view'[v].before \subseteq Happened(view[v].of)'
  BY <1>1, <1>5 DEF Holds, Happened
<1>10. \A e \in OfEscrow : e \in view'[v].before => view'[v].escrow.time[e] # 0
  BY <1>1, <1>5, HappenedTo DEF Holds, Happened
<1>11. Holds(v)'
  <2>1. Caused(disputes', view'[v].escrow)
    BY <1>1, <1>5 DEF RowsHold
  <2>2. \A e \in OfEscrow : view'[v].escrow.time[e] \in {0, escrow'.time[e]}
    BY <1>1, <1>5
  <2>3. /\ view'[v].op = "timeline" =>
             view'[v].reads \in {<<>>, <<"escrow">>, <<"dispute", "escrow">>}
        /\ view'[v].op = "escrow" =>
             view'[v].reads \in {<<>>, <<"dispute">>, <<"escrow", "dispute">>}
    BY <1>5, <1>7
  <2>4. DisputeRead(v)' =>
           \/ CopiesDispute(v, view[v].of)'
           \/ view'[v].op = "escrow" /\ view'[v].of = 0 /\ view'[v].dispute = NoDispute
    BY <1>1, <1>5, <1>6, <1>8 DEF Holds
  <2>5. ~ (view'[v].op = "escrow" /\ view'[v].reads = <<>>)
    BY <1>5, <1>7, ReadsLeft
  <2>6. view'[v].op # "timeline" => view'[v].before = {}
    BY <1>1, <1>5 DEF Holds
  <2> QED
    BY <1>9, <1>10, <2>1, <2>2, <2>3, <2>4, <2>5, <2>6 DEF Holds
<1> QED
  BY <1>1, <1>2, <1>4, <1>11, ViewMoves

LEMMA ViewsNextInv == ASSUME ViewsInv, [ViewsNext]_viewVars PROVE ViewsInv'
<1>1. CASE Tick
  <2>1. now' \in 1 .. MaxTime /\ UNCHANGED <<escrow, disputes, view>>
    BY <1>1, DisputesType, NoViewType DEF Tick, ViewsInv
  <2>2. RowsHold' /\ Onward
    BY <2>1 DEF ViewsInv, RowsHold, Onward
  <2> QED
    BY <2>1, <2>2, RowsMove, DisputesType DEF ViewsInv
<1>2. CASE Fund \/ Finish \/ \E e \in OfEscrow, at \in 1 .. now : Happen(e, at)
  BY <1>2, EscrowWritten
<1>3. ASSUME NEW at \in 1 .. now, Raise(at) PROVE ViewsInv'
  BY <1>3, DisputeRaised
<1>4. ASSUME NEW k \in DOMAIN disputes, Withdraw(k) \/ \E at \in 1 .. now : Resolve(k, at)
      PROVE  ViewsInv'
  BY <1>4, DisputeEnds
<1>5. ASSUME NEW v \in Viewer, ViewEscrow(v) \/ \E k \in 1 .. MaxDisputes : ViewTimeline(v, k)
      PROVE  ViewsInv'
  BY <1>5, ViewAsked
<1>6. ASSUME NEW v \in Viewer, ReadDispute(v) \/ ReadEscrow(v) PROVE ViewsInv'
  BY <1>6, DisputeIsRead, EscrowIsRead
<1>7. ASSUME NEW v \in Viewer, ReadNoDispute(v) \/ AnswerView(v) PROVE ViewsInv'
  BY <1>7, ViewEnds DEF ReadNoDispute, AnswerView
<1>8. CASE UNCHANGED viewVars
  <2>1. now' \in 1 .. MaxTime /\ UNCHANGED <<escrow, disputes, view>>
    BY <1>8, DisputesType DEF viewVars, ViewsInv
  <2>2. RowsHold' /\ Onward
    BY <2>1 DEF ViewsInv, RowsHold, Onward
  <2> QED
    BY <2>1, <2>2, RowsMove, DisputesType DEF ViewsInv
<1> QED
  BY <1>1, <1>2, <1>3, <1>4, <1>5, <1>6, <1>7, <1>8 DEF ViewsNext

LEMMA ViewsInvImplies == ASSUME ViewsInv PROVE ViewsAgree
<1>1. TimelineTells
  <2> SUFFICES ASSUME NEW v \in Viewer, Answered(v), view[v].op = "timeline"
               PROVE  LET events == Timeline(Copied(v))
                          told   == {events[i] : i \in DOMAIN events}
                          dates  == Dates(disputes[view[v].of], escrow)
                      IN  /\ view[v].before \subseteq told /\ told \subseteq Happened(view[v].of)
                          /\ Cardinality(told) = Len(events)
                          /\ \A i, j \in DOMAIN events : i < j => dates[events[i]] <= dates[events[j]]
    BY DEF TimelineTells
  <2> DEFINE copy   == Copied(v)
             dates  == Dates(disputes[view[v].of], escrow)
             P      == Pushed(copy)
             n      == Cardinality(P)
             events == Timeline(copy)
             told   == {events[i] : i \in DOMAIN events}
  <2>1. /\ Holds(v) /\ view[v] \in ViewState /\ MaxTime \in Nat
        /\ CopiesDispute(v, view[v].of) /\ EscrowRead(v)
    BY DisputesType, NoViewType DEF ViewsInv, Answered, DisputeRead, EscrowRead, Holds
  <2>2. \A e \in Event : /\ copy[e] \in {0, dates[e]} /\ copy[e] \in Nat
                         /\ e \in view[v].before => copy[e] # 0
    <3>1. ASSUME NEW e \in OfEscrow
          PROVE  /\ copy[e] \in {0, dates[e]} /\ copy[e] \in Nat
                 /\ e \in view[v].before => copy[e] # 0
      BY <2>1, DatesAre DEF Copied, Holds, ViewState, EscrowRow
    <3>2. /\ copy["dispute_raised"] = dates["dispute_raised"]
          /\ copy["dispute_raised"] \in Nat /\ copy["dispute_raised"] # 0
      BY <2>1, DatesAre DEF Copied, CopiesDispute, DisputeRow
    <3>3. /\ copy["dispute_resolved"] \in {0, dates["dispute_resolved"]}
          /\ copy["dispute_resolved"] \in Nat
          /\ "dispute_resolved" \in view[v].before => copy["dispute_resolved"] # 0
      BY <2>1, DatesAre DEF Copied, CopiesDispute, DisputeRow
    <3> HIDE DEF copy, dates
    <3> QED
      BY <3>1, <3>2, <3>3 DEF Event
  <2>3. copy \in [Event -> Nat]
    BY <2>2 DEF Copied, Dates
  <2>4. view[v].of \in DOMAIN disputes /\ Happened(view[v].of) = {e \in Event : dates[e] # 0}
    BY <2>1 DEF CopiesDispute, Happened
  <2>5. view[v].before \subseteq Event
    BY <2>1 DEF ViewState
  <2> HIDE DEF copy, dates
  <2>6. view[v].before \subseteq P /\ P \subseteq Happened(view[v].of) /\ P \subseteq Event
        /\ \A e \in P : copy[e] = dates[e]
    BY <2>2, <2>4, <2>5 DEF Pushed
  <2>7. /\ n \in Nat /\ events \in [1 .. n -> P] /\ Len(events) = n
        /\ \A e \in P : \E i \in 1 .. n : events[i] = e
        /\ \A i, j \in 1 .. n : i < j => copy[events[i]] <= copy[events[j]]
    BY <2>3, TimelineSorts
  <2> HIDE DEF P, n, events
  <2>8. told = P
    BY <2>7
  <2>9. Cardinality(told) = Len(events)
    BY <2>7, <2>8 DEF n
  <2>10. \A i, j \in DOMAIN events : i < j => dates[events[i]] <= dates[events[j]]
    BY <2>6, <2>7
  <2> QED
    BY <2>6, <2>8, <2>9, <2>10 DEF events, copy, dates
<1>2. DisputeNotBehind
  <2> SUFFICES ASSUME NEW v \in Viewer, Answered(v), view[v].op = "escrow"
               PROVE  LET e == view[v].escrow
                          d == view[v].dispute
                      IN  /\ e.status = "disputed" => d.status # "none"
                          /\ e.cause # 0 => d.raised >= disputes[e.cause].raised
                          /\ e.cause # 0 /\ e.status = "over" /\ view[v].of = e.cause =>
                                d.status = "resolved"
                          /\ d.status = "resolved" /\ e.status # "over" => escrow.status = "over"
    BY DEF DisputeNotBehind
  <2>1. /\ Holds(v) /\ RowsHold /\ FoundAfter(v)
        /\ \/ CopiesDispute(v, view[v].of)
           \/ view[v].of = 0 /\ view[v].dispute = NoDispute
    BY DEF ViewsInv, Answered, DisputeRead, Holds
  <2>2. view[v].escrow.status = "disputed" => view[v].dispute.status # "none"
    BY <2>1 DEF Holds, Caused, FoundAfter, CopiesDispute, DisputeRow, ViewsInv
  <2>3. view[v].dispute.status = "resolved" => escrow.status = "over"
    BY <2>1 DEF CopiesDispute, RowsHold, NoDispute
  <2> QED
    BY <2>1, <2>2, <2>3 DEF FoundAfter
<1> QED
  BY <1>1, <1>2 DEF ViewsAgree

-----------------------------------------------------------------------------
ScriptState == [pool : {"open", "ended"}, count : 0 .. Newest, files : 0 .. Newest,
                up : TaskState, down : TaskState]

AtWork(p, task) == script[p][task].step \in {"sql", "row"}

\* As long as no rollback meets it, a run applies what comes next, or what another run
\* has applied meanwhile; a rollback rolls back the newest, or what is gone already.
Upward(todo, n) == todo[1] <= n + 1 /\ \A i \in DOMAIN todo : todo[i] = todo[1] + i - 1
Downward(todo, n) == todo[1] >= n /\ \A i \in DOMAIN todo : todo[i] = todo[1] - i + 1

RunsGoOn ==
    \A p \in Script : AtWork(p, "up") => Upward(Todo(p, "up"), Len(tracked))

RollbacksGoOn ==
    \A p \in Script : AtWork(p, "down") =>
        /\ Downward(Todo(p, "down"), Len(tracked))
        /\ TaskAt(p, "down", "row") /\ ~ script[p].down.dropping => Current(p, "down") \notin present

ScriptsInv ==
    /\ ScriptsTypeOK /\ TrackingTells
    /\ \A p \in Script, task \in {"up", "down"} : AtWork(p, task) => Todo(p, task) # <<>>
    /\ ~ raced => ~ (UnderWay("up") /\ UnderWay("down")) /\ RunsGoOn /\ RollbacksGoOn

LEMMA ScriptFields ==
    ASSUME NEW s \in ScriptState
    PROVE  s["up"] = s.up /\ s["down"] = s.down /\ s["up"] \in TaskState /\ s["down"] \in TaskState
BY DEF ScriptState

OnlyMoves(p, task, at) ==
    /\ script' \in [Script -> ScriptState] /\ script'[p][task] = at
    /\ \A q \in Script, other \in {"up", "down"} :
           q # p \/ other # task => script'[q][other] = script[q][other]

LEMMA TaskMoves ==
    ASSUME script \in [Script -> ScriptState], NEW p \in Script, NEW task \in {"up", "down"},
           NEW step \in {"off", "read", "sql", "row", "close"}, NEW todo \in Seq(Migration),
           NEW dropping \in BOOLEAN, TaskTo(p, task, step, todo, dropping)
    PROVE  OnlyMoves(p, task, [step |-> step, todo |-> todo, dropping |-> dropping])
<1> DEFINE at == [step |-> step, todo |-> todo, dropping |-> dropping]
           moved == [script[p] EXCEPT ![task] = at]
<1>1. at \in TaskState
  BY DEF TaskState
<1>2. script' = [script EXCEPT ![p] = moved]
  BY DEF TaskTo
<1> HIDE DEF at
<1>3. script[p] \in ScriptState
  OBVIOUS
<1>4. /\ moved \in ScriptState /\ moved[task] = at
      /\ \A other \in {"up", "down"} : other # task => moved[other] = script[p][other]
  <2>1. CASE task = "up"
    BY <1>1, <1>3, <2>1 DEF ScriptState
  <2>2. CASE task = "down"
    BY <1>1, <1>3, <2>2 DEF ScriptState
  <2> QED
    BY <2>1, <2>2
<1> HIDE DEF moved
<1>5. OnlyMoves(p, task, at)
  BY <1>2, <1>4 DEF OnlyMoves
<1> QED
  BY <1>5 DEF at

LEMMA ScriptsTypes ==
    ASSUME ScriptsInv
    PROVE  /\ tracked \in Seq(Migration) /\ Len(tracked) \in Nat /\ DOMAIN tracked = 1 .. Len(tracked)
           /\ \A i \in 1 .. Len(tracked) : tracked[i] \in Migration
           /\ script \in [Script -> ScriptState] /\ Tracked \subseteq Migration
           /\ \A p \in Script, task \in {"up", "down"} : script[p][task] \in TaskState
           /\ Newest \in Nat
<1>1. tracked \in Seq(Migration) /\ script \in [Script -> ScriptState] /\ Newest \in Nat
  BY MigrationsAssumption DEF ScriptsInv, ScriptsTypeOK, ScriptState
<1>2. /\ Len(tracked) \in Nat /\ DOMAIN tracked = 1 .. Len(tracked)
      /\ \A i \in 1 .. Len(tracked) : tracked[i] \in Migration
  BY <1>1, LenProperties, ElementOfSeq
<1>3. Tracked \subseteq Migration
  BY <1>2 DEF Tracked
<1>4. \A p \in Script, task \in {"up", "down"} : script[p][task] \in TaskState
  BY <1>1, ScriptFields
<1> QED
  BY <1>1, <1>2, <1>3, <1>4

LEMMA ScriptsInitInv == ScriptsInit => ScriptsInv
<1> SUFFICES ASSUME ScriptsInit PROVE ScriptsInv
  OBVIOUS
<1>1. Off \in TaskState /\ NoScript \in ScriptState /\ NoScript["up"] = Off /\ NoScript["down"] = Off
  BY EmptySeq, MigrationsAssumption DEF Off, NoScript, TaskState, ScriptState
<1>2. tracked \in Seq(Migration) /\ DOMAIN tracked = {} /\ Tracked = {}
  BY EmptySeq, LenProperties DEF ScriptsInit, Tracked
<1>3. ScriptsTypeOK
  BY <1>1, <1>2 DEF ScriptsInit, ScriptsTypeOK, ScriptState
<1>4. \A p \in Script, task \in {"up", "down"} : ~ AtWork(p, task)
  BY <1>1 DEF ScriptsInit, AtWork, Off
<1>5. TrackingTells
  BY <1>2 DEF ScriptsInit, TrackingTells
<1> QED
  BY <1>3, <1>4, <1>5 DEF ScriptsInv, RunsGoOn, RollbacksGoOn, UnderWay, AtWork

\* Steps after which no task is at work but those that were, where they were.
LEMMA NoneBegins ==
    ASSUME ScriptsInv, script' \in [Script -> ScriptState],
           \A q \in Script, task \in {"up", "down"} :
               AtWork(q, task)' => script'[q][task] = script[q][task],
           UNCHANGED <<tracked, present, abandoned>>, raced' \in BOOLEAN, raced => raced',
           holder' \in [Migration -> Task \cup {NoTask}]
    PROVE  ScriptsInv'
<1>1. ScriptsTypeOK'
  BY DEF ScriptsInv, ScriptsTypeOK, ScriptState
<1>2. TrackingTells'
  BY DEF ScriptsInv, TrackingTells, Tracked
<1>3. \A q \in Script, task \in {"up", "down"} :
          AtWork(q, task)' => AtWork(q, task) /\ script'[q][task] = script[q][task]
  BY DEF AtWork
<1>4. \A q \in Script, task \in {"up", "down"} : AtWork(q, task)' => Todo(q, task)' # <<>>
  BY <1>3 DEF ScriptsInv, Todo
<1>5. \A task \in {"up", "down"} : UnderWay(task)' => UnderWay(task)
  BY <1>3 DEF UnderWay, AtWork
<1>6. \A q \in Script : script[q].down = script[q]["down"] /\ script'[q].down = script'[q]["down"]
  BY ScriptsTypes, ScriptFields
<1>7. ASSUME ~ raced' PROVE (RunsGoOn /\ RollbacksGoOn)'
  <2>1. ~ raced /\ RunsGoOn /\ RollbacksGoOn
    BY <1>7 DEF ScriptsInv
  <2>2. RunsGoOn'
    BY <1>3, <2>1 DEF RunsGoOn, Todo
  <2>3. RollbacksGoOn'
    BY <1>3, <1>6, <2>1 DEF RollbacksGoOn, Todo, Current, TaskAt
  <2> QED
    BY <2>2, <2>3
<1> QED
  BY <1>1, <1>2, <1>4, <1>5, <1>7 DEF ScriptsInv

\* What a run that is at work does to its transaction or commits.
LEMMA RunStep ==
    ASSUME ScriptsInv, NEW p \in Script, AtWork(p, "up"),
           NEW step \in {"sql", "row", "close"}, NEW todo \in Seq(Migration),
           TaskTo(p, "up", step, todo, FALSE), step # "close" => todo # <<>>,
           tracked' \in Seq(Migration), Len(tracked) <= Len(tracked'),
           \A i, j \in DOMAIN tracked' : tracked'[i] = tracked'[j] => i = j,
           present' \subseteq Migration, abandoned' \subseteq Migration, UNCHANGED raced,
           holder' \in [Migration -> Task \cup {NoTask}],
           TrackingTells', ~ raced /\ step # "close" => Upward(todo, Len(tracked'))
    PROVE  ScriptsInv'
<1>1. /\ script' \in [Script -> ScriptState]
      /\ script'[p]["up"] = [step |-> step, todo |-> todo, dropping |-> FALSE]
      /\ \A q \in Script, other \in {"up", "down"} :
             q # p \/ other # "up" => script'[q][other] = script[q][other]
  <2>1. step \in {"off", "read", "sql", "row", "close"} /\ script \in [Script -> ScriptState]
    BY ScriptsTypes
  <2> QED
    BY <2>1, TaskMoves DEF OnlyMoves
<1>2. ScriptsTypeOK'
  BY <1>1 DEF ScriptsInv, ScriptsTypeOK, ScriptState
<1>3. \A q \in Script, task \in {"up", "down"} : AtWork(q, task)' => AtWork(q, task)
  BY <1>1 DEF AtWork
<1>4. ASSUME NEW q \in Script, NEW task \in {"up", "down"}, AtWork(q, task)'
      PROVE  Todo(q, task)' # <<>>
  <2>1. AtWork(q, task) => Todo(q, task) # <<>>
    BY DEF ScriptsInv
  <2> QED
    BY <1>1, <1>3, <1>4, <2>1 DEF Todo, AtWork
<1>5. \A task \in {"up", "down"} : UnderWay(task)' => UnderWay(task)
  BY <1>3 DEF UnderWay, AtWork
<1>6. ASSUME ~ raced' PROVE (RunsGoOn /\ RollbacksGoOn)'
  <2>1. ~ raced /\ RunsGoOn /\ UnderWay("up") /\ ~ UnderWay("down")
    BY <1>6 DEF ScriptsInv, UnderWay, AtWork
  <2>2. RollbacksGoOn'
    BY <1>5, <2>1 DEF RollbacksGoOn, UnderWay, AtWork
  <2>3. ASSUME NEW q \in Script, AtWork(q, "up")' PROVE Upward(Todo(q, "up"), Len(tracked))'
    <3>1. CASE q = p
      BY <1>1, <2>1, <2>3, <3>1 DEF Todo, AtWork
    <3>2. CASE q # p
      <4>1. Upward(Todo(q, "up"), Len(tracked)) /\ Todo(q, "up")' = Todo(q, "up")
        BY <1>1, <1>3, <2>1, <2>3, <3>2 DEF RunsGoOn, Todo
      <4>2. Todo(q, "up") \in Seq(Migration) /\ Todo(q, "up") # <<>>
        BY <1>3, <2>3, ScriptsTypes DEF ScriptsInv, Todo, TaskState
      <4>3. Todo(q, "up")[1] \in Int
        <5>1. 1 \in 1 .. Len(Todo(q, "up"))
          BY <4>2, EmptySeq
        <5>2. Todo(q, "up")[1] \in Migration
          BY <4>2, <5>1, ElementOfSeq
        <5> QED
          BY <5>2, ScriptsTypes DEF Migration
      <4>4. Len(tracked') \in Nat /\ Len(tracked) \in Nat
        BY ScriptsTypes, LenProperties
      <4> QED
        BY <4>1, <4>3, <4>4 DEF Upward
    <3> QED
      BY <3>1, <3>2
  <2> QED
    BY <2>2, <2>3 DEF RunsGoOn
<1> QED
  BY <1>2, <1>4, <1>5, <1>6 DEF ScriptsInv

\* ... and a rollback.
LEMMA RollbackStep ==
    ASSUME ScriptsInv, NEW p \in Script, AtWork(p, "down"),
           NEW step \in {"sql", "row", "close"}, NEW todo \in Seq(Migration), NEW dropping \in BOOLEAN,
           TaskTo(p, "down", step, todo, dropping), step # "close" => todo # <<>>,
           tracked' \in Seq(Migration), Len(tracked') <= Len(tracked),
           \A i, j \in DOMAIN tracked' : tracked'[i] = tracked'[j] => i = j,
           present' \subseteq present, abandoned' \subseteq Migration, UNCHANGED raced,
           holder' \in [Migration -> Task \cup {NoTask}], TrackingTells',
           ~ raced /\ step # "close" =>
               /\ Downward(todo, Len(tracked'))
               /\ step = "row" /\ ~ dropping => Head(todo) \notin present
    PROVE  ScriptsInv'
<1>1. /\ script' \in [Script -> ScriptState]
      /\ script'[p]["down"] = [step |-> step, todo |-> todo, dropping |-> dropping]
      /\ \A q \in Script, other \in {"up", "down"} :
             q # p \/ other # "down" => script'[q][other] = script[q][other]
  <2>1. step \in {"off", "read", "sql", "row", "close"} /\ script \in [Script -> ScriptState]
    BY ScriptsTypes
  <2> QED
    BY <2>1, TaskMoves DEF OnlyMoves
<1>2. ScriptsTypeOK'
  BY <1>1 DEF ScriptsInv, ScriptsTypeOK, ScriptState
<1>3. \A q \in Script, task \in {"up", "down"} : AtWork(q, task)' => AtWork(q, task)
  BY <1>1 DEF AtWork
<1>4. ASSUME NEW q \in Script, NEW task \in {"up", "down"}, AtWork(q, task)'
      PROVE  Todo(q, task)' # <<>>
  <2>1. AtWork(q, task) => Todo(q, task) # <<>>
    BY DEF ScriptsInv
  <2> QED
    BY <1>1, <1>3, <1>4, <2>1 DEF Todo, AtWork
<1>5. \A task \in {"up", "down"} : UnderWay(task)' => UnderWay(task)
  BY <1>3 DEF UnderWay, AtWork
<1>6. ASSUME ~ raced' PROVE (RunsGoOn /\ RollbacksGoOn)'
  <2>1. ~ raced /\ RollbacksGoOn /\ UnderWay("down") /\ ~ UnderWay("up")
    BY <1>6 DEF ScriptsInv, UnderWay, AtWork
  <2>2. RunsGoOn'
    BY <1>5, <2>1 DEF RunsGoOn, UnderWay, AtWork
  <2>3. ASSUME NEW q \in Script, AtWork(q, "down")'
        PROVE  /\ Downward(Todo(q, "down"), Len(tracked))'
               /\ (TaskAt(q, "down", "row") /\ ~ script[q].down.dropping =>
                       Current(q, "down") \notin present)'
    <3>0. script'[q].down = script'[q]["down"] /\ script[q].down = script[q]["down"]
      BY <1>1, ScriptsTypes, ScriptFields
    <3>1. CASE q = p
      BY <1>1, <2>1, <2>3, <3>0, <3>1 DEF Todo, AtWork, TaskAt, Current
    <3>2. CASE q # p
      <4>1. /\ Downward(Todo(q, "down"), Len(tracked)) /\ script'[q]["down"] = script[q]["down"]
            /\ TaskAt(q, "down", "row") /\ ~ script[q].down.dropping => Current(q, "down") \notin present
        BY <1>1, <1>3, <2>1, <2>3, <3>2 DEF RollbacksGoOn
      <4>2. Todo(q, "down") \in Seq(Migration) /\ Todo(q, "down") # <<>>
        BY <1>3, <2>3, ScriptsTypes DEF ScriptsInv, Todo, TaskState
      <4>3. Todo(q, "down")[1] \in Int
        <5>1. 1 \in 1 .. Len(Todo(q, "down"))
          BY <4>2, EmptySeq
        <5>2. Todo(q, "down")[1] \in Migration
          BY <4>2, <5>1, ElementOfSeq
        <5> QED
          BY <5>2, ScriptsTypes DEF Migration
      <4>4. Len(tracked') \in Nat /\ Len(tracked) \in Nat
        BY ScriptsTypes, LenProperties
      <4>5. Downward(Todo(q, "down"), Len(tracked))'
        BY <4>1, <4>3, <4>4 DEF Downward, Todo
      <4> QED
        BY <3>0, <4>1, <4>5 DEF TaskAt, Current, Todo
    <3> QED
      BY <3>1, <3>2
  <2> QED
    BY <2>2, <2>3 DEF RollbacksGoOn
<1> QED
  BY <1>2, <1>4, <1>5, <1>6 DEF ScriptsInv

Below(S, m) == {k \in S : k < m}

\* The migrations of a set stand in the order of their files.
LEMMA FileOrder ==
    ASSUME NEW S \in SUBSET Migration, Newest \in Nat
    PROVE  /\ InFileOrder(S) \in Seq(Migration)
           /\ \A i \in DOMAIN InFileOrder(S) :
                  InFileOrder(S)[i] \in S /\ Cardinality(Below(S, InFileOrder(S)[i])) = i - 1
<1> DEFINE n == Cardinality(S)
           before(m) == Cardinality(Below(S, m))
           place == [m \in S |-> before(m)]
           todo == InFileOrder(S)
<1>1. IsFiniteSet(S) /\ n \in Nat /\ S \subseteq Nat
  <2>1. IsFiniteSet(Migration) /\ Migration \subseteq Nat
    BY FS_Interval DEF Migration
  <2> QED
    BY <2>1, FS_Subset, FS_CardinalityType
<1>2. ASSUME NEW m \in S PROVE before(m) \in Nat /\ before(m) < n
  <2>1. Below(S, m) \in SUBSET S /\ m \notin Below(S, m)
    BY <1>1 DEF Below
  <2>2. before(m) \in Nat /\ before(m) <= n /\ before(m) # n
    BY <1>1, <2>1, FS_Subset, FS_CardinalityType
  <2> QED
    BY <1>1, <2>2
<1>3. ASSUME NEW m \in S, NEW k \in S, m < k PROVE before(m) # before(k)
  <2>1. Below(S, m) \subseteq Below(S, k) /\ m \in Below(S, k) /\ m \notin Below(S, m)
    <3>1. m \in Nat /\ k \in Nat /\ \A j \in S : j \in Nat
      BY <1>1
    <3>2. ASSUME NEW j \in Below(S, m) PROVE j \in Below(S, k)
      BY <1>3, <3>1 DEF Below
    <3>3. m \in Below(S, k) /\ m \notin Below(S, m)
      BY <1>3, <3>1 DEF Below
    <3> QED
      BY <3>2, <3>3
  <2>2. IsFiniteSet(Below(S, k))
    BY <1>1, FS_Subset DEF Below
  <2> QED
    BY <2>1, <2>2, FS_Subset
<1>4. ASSUME NEW m \in S, NEW k \in S, m # k PROVE before(m) # before(k)
  <2>1. m < k \/ k < m
    BY <1>1, <1>4
  <2> HIDE DEF before
  <2> QED
    BY <1>3, <2>1
<1>5. ASSUME NEW i \in 1 .. n PROVE \E m \in S : before(m) = i - 1
  <2>1. place \in Injection(S, 0 .. n - 1)
    <3>1. \A m \in S : place[m] = before(m) /\ before(m) \in 0 .. n - 1
      BY <1>1, <1>2
    <3> HIDE DEF before, n
    <3>2. \A m, k \in S : place[m] = place[k] => m = k
      BY <1>4, <3>1
    <3>3. place \in [S -> 0 .. n - 1]
      BY <3>1
    <3> HIDE DEF place
    <3> QED
      BY <3>2, <3>3 DEF Injection, IsInjective
  <2>2. IsFiniteSet(0 .. n - 1) /\ Cardinality(0 .. n - 1) = n
    <3>1. n - 1 \in Int /\ (n - 1) - 0 + 1 = n /\ (0 > n - 1 => n = 0)
      BY <1>1
    <3> HIDE DEF n
    <3> QED
      BY <3>1, FS_Interval
  <2>3. place \in Surjection(S, 0 .. n - 1)
    BY <1>1, <2>1, <2>2, FS_Injection
  <2>4. i - 1 \in 0 .. n - 1
    BY <1>1
  <2> QED
    BY <2>3, <2>4 DEF Surjection
<1> HIDE DEF before
<1>6. ASSUME NEW i \in 1 .. n PROVE todo[i] \in S /\ before(todo[i]) = i - 1
  <2>1. todo[i] = CHOOSE m \in S : before(m) = i - 1
    BY DEF InFileOrder, before, Below
  <2> QED
    BY <1>5, <2>1
<1>7. todo \in [1 .. n -> S]
  <2>1. todo = [i \in 1 .. n |-> todo[i]]
    BY DEF InFileOrder
  <2> QED
    BY <1>6, <2>1
<1>8. todo \in Seq(Migration)
  <2>1. todo \in Seq(S)
    BY <1>1, <1>7, SeqDef
  <2> QED
    BY <2>1, SeqMonotonic
<1> HIDE DEF n, todo
<1> QED
  BY <1>6, <1>7, <1>8 DEF before, todo

\* The first of them, then the next, and so on, if none between is missing.
LEMMA FileOrderAscends ==
    ASSUME Newest \in Nat, NEW a \in Nat \ {0}, NEW b \in Nat, b <= Newest,
           NEW i \in DOMAIN InFileOrder(a .. b)
    PROVE  InFileOrder(a .. b)[i] = a + i - 1
<1> DEFINE S == a .. b
           m == InFileOrder(S)[i]
<1>1. S \in SUBSET Migration
  BY DEF Migration
<1>2. i \in Nat /\ m \in S /\ Cardinality(Below(S, m)) = i - 1
  <2>1. /\ DOMAIN InFileOrder(S) = 1 .. Cardinality(S) /\ i \in DOMAIN InFileOrder(S)
        /\ Cardinality(S) \in Nat
    BY FS_Interval, FS_CardinalityType DEF InFileOrder
  <2> HIDE DEF S
  <2> QED
    BY <1>1, <2>1, FileOrder
<1>3. m \in Nat /\ Below(S, m) = a .. m - 1
  BY <1>2 DEF Below
<1>4. Cardinality(a .. m - 1) = m - a
  <2>1. m - 1 \in Int /\ (m - 1) - a + 1 = m - a /\ (a > m - 1 => m - a = 0)
    BY <1>2
  <2> HIDE DEF m
  <2> QED
    BY <1>3, <2>1, FS_Interval
<1> HIDE DEF S, m
<1>5. m - a = i - 1
  BY <1>2, <1>3, <1>4
<1> QED
  BY <1>2, <1>3, <1>5 DEF m, S

LEMMA NewestRows ==
    ASSUME ScriptsInv, NEW n \in 0 .. Len(tracked)
    PROVE  /\ NewestFirst(n) \in Seq(Migration) /\ DOMAIN NewestFirst(n) = 1 .. n
           /\ \A i \in 1 .. n : NewestFirst(n)[i] = tracked[Len(tracked) + 1 - i]
<1>1. \A i \in 1 .. n : tracked[Len(tracked) + 1 - i] \in Migration
  BY ScriptsTypes
<1>2. NewestFirst(n) \in [1 .. n -> Migration] /\ n \in Nat
  BY <1>1, ScriptsTypes DEF NewestFirst
<1> QED
  BY <1>2, SeqDef DEF NewestFirst

\* A row is deleted, and the others stay in their order.
LEMMA RowDeleted ==
    ASSUME ScriptsInv, NEW m \in Migration, tracked' = Without(m)
    PROVE  /\ tracked' \in Seq(Migration) /\ Len(tracked') <= Len(tracked) /\ Len(tracked') \in Nat
           /\ \A i, j \in DOMAIN tracked' : tracked'[i] = tracked'[j] => i = j
           /\ Tracked' = Tracked \ {m}
           /\ (\A i \in DOMAIN tracked : tracked[i] = i) /\ m >= Len(tracked) =>
                  (\A i \in DOMAIN tracked' : tracked'[i] = i) /\ m - 1 >= Len(tracked')
<1> DEFINE n == Len(tracked)
<1>1. /\ tracked \in Seq(Migration) /\ n \in Nat /\ DOMAIN tracked = 1 .. n /\ m \in Nat
      /\ \A i \in 1 .. n : tracked[i] \in Migration
      /\ \A i, j \in 1 .. n : tracked[i] = tracked[j] => i = j
  BY ScriptsTypes DEF ScriptsInv, ScriptsTypeOK, Migration
<1>0. Len(tracked) = n
  OBVIOUS
<1> HIDE DEF n
<1>2. CASE m \notin Tracked
  <2>1. tracked' = tracked
    BY <1>2 DEF Without
  <2>2. ASSUME \A i \in DOMAIN tracked : tracked[i] = i, m >= n PROVE m - 1 >= n
    <3>1. m # n
      <4>1. n # 0 => tracked[n] = n /\ n \in DOMAIN tracked
        BY <1>0, <1>1, <2>2
      <4>2. m # 0
        BY DEF Migration
      <4> QED
        BY <1>2, <4>1, <4>2 DEF Tracked
    <3> QED
      BY <1>1, <2>2, <3>1
  <2> QED
    BY <1>0, <1>1, <1>2, <2>1, <2>2 DEF Tracked
<1>3. CASE m \in Tracked
  <2> DEFINE at == CHOOSE i \in DOMAIN tracked : tracked[i] = m
  <2>1. at \in 1 .. n /\ tracked[at] = m
    BY <1>1, <1>3 DEF Tracked
  <2>2. tracked' = [i \in 1 .. n - 1 |-> IF i < at THEN tracked[i] ELSE tracked[i + 1]]
    BY <1>0, <1>3 DEF Without
  <2> HIDE DEF at
  <2>3. \A i \in 1 .. n - 1 : tracked'[i] = IF i < at THEN tracked[i] ELSE tracked[i + 1]
    BY <2>2
  <2>4. tracked' \in [1 .. n - 1 -> Migration] /\ n - 1 \in Nat
    BY <1>1, <2>1, <2>2
  <2>5. tracked' \in Seq(Migration) /\ Len(tracked') = n - 1 /\ DOMAIN tracked' = 1 .. n - 1
    <3>1. tracked' \in Seq(Migration)
      BY <2>4, SeqDef
    <3>2. DOMAIN tracked' = 1 .. n - 1 /\ DOMAIN tracked' = 1 .. Len(tracked') /\ Len(tracked') \in Nat
      BY <2>4, <3>1, LenProperties
    <3> QED
      BY <2>4, <3>1, <3>2
  <2>6. \A i, j \in 1 .. n - 1 : tracked'[i] = tracked'[j] => i = j
    BY <1>1, <2>1, <2>3
  <2>7. Tracked' = Tracked \ {m}
    <3>1. ASSUME NEW k \in Tracked' PROVE k \in Tracked \ {m}
      <4>1. PICK i \in 1 .. n - 1 : tracked'[i] = k
        BY <2>5 DEF Tracked
      <4>2. CASE i < at
        BY <1>1, <2>1, <2>3, <4>1, <4>2 DEF Tracked
      <4>3. CASE i >= at
        <5>1. i + 1 \in 1 .. n /\ k = tracked[i + 1] /\ i + 1 # at
          BY <1>1, <2>1, <2>3, <4>1, <4>3
        <5> QED
          BY <1>1, <2>1, <5>1 DEF Tracked
      <4> QED
        BY <1>1, <2>1, <4>2, <4>3
    <3>2. ASSUME NEW k \in Tracked \ {m} PROVE k \in Tracked'
      <4>1. PICK i \in 1 .. n : tracked[i] = k
        BY <1>1 DEF Tracked
      <4>2. CASE i < at
        <5>1. i \in 1 .. n - 1 /\ tracked'[i] = k
          BY <1>1, <2>1, <2>3, <4>1, <4>2
        <5> QED
          BY <2>5, <5>1 DEF Tracked
      <4>3. CASE i > at
        <5>1. i - 1 \in 1 .. n - 1 /\ ~ (i - 1 < at) /\ (i - 1) + 1 = i
          BY <1>1, <2>1, <4>1, <4>3
        <5>2. tracked'[i - 1] = k
          BY <2>3, <4>1, <5>1
        <5> QED
          BY <2>5, <5>1, <5>2 DEF Tracked
      <4> QED
        BY <1>1, <2>1, <4>1, <4>2, <4>3
    <3> QED
      BY <3>1, <3>2
  <2>8. ASSUME \A i \in DOMAIN tracked : tracked[i] = i, m >= n
        PROVE  (\A i \in 1 .. n - 1 : tracked'[i] = i) /\ m - 1 >= n - 1
    <3>1. at = n
      BY <1>1, <2>1, <2>8
    <3> QED
      BY <1>1, <2>3, <2>8, <3>1
  <2> QED
    BY <1>0, <1>1, <2>4, <2>5, <2>6, <2>7, <2>8
<1> QED
  BY <1>2, <1>3

-----------------------------------------------------------------------------
\* What is done when the first of todo is done.
LEMMA TodoLeft ==
    ASSUME ScriptsInv, NEW p \in Script, NEW task \in {"up", "down"}, AtWork(p, task)
    PROVE  /\ Current(p, task) \in Migration /\ Current(p, task) = Todo(p, task)[1]
           /\ Todo(p, task) \in Seq(Migration) /\ Todo(p, task) # <<>>
           /\ Tail(Todo(p, task)) \in Seq(Migration)
           /\ \A n \in Nat : Upward(Todo(p, task), n) /\ Todo(p, task)[1] <= n /\ Tail(Todo(p, task)) # <<>> =>
                  Upward(Tail(Todo(p, task)), n)
           /\ \A n \in Nat : Downward(Todo(p, task), n) /\ Todo(p, task)[1] - 1 >= n /\ Tail(Todo(p, task)) # <<>> =>
                  Downward(Tail(Todo(p, task)), n)
<1> DEFINE todo == Todo(p, task)
           rest == Tail(todo)
<1>1. todo \in Seq(Migration) /\ todo # <<>>
  BY ScriptsTypes DEF ScriptsInv, Todo, TaskState
<1>2. /\ Len(todo) \in Nat \ {0} /\ DOMAIN todo = 1 .. Len(todo) /\ Head(todo) \in Migration
      /\ rest \in Seq(Migration) /\ Len(rest) = Len(todo) - 1 /\ DOMAIN rest = 1 .. Len(rest)
      /\ \A i \in 1 .. Len(rest) : rest[i] = todo[i + 1]
  BY <1>1, EmptySeq, HeadTailProperties, LenProperties
<1>3. Head(todo) = todo[1]
  BY <1>1
<1>4. todo[1] \in Nat
  BY <1>2, <1>3 DEF Migration
<1> HIDE DEF todo, rest
<1>5. rest # <<>> => 1 \in 1 .. Len(rest) /\ rest[1] = todo[2] /\ 2 \in 1 .. Len(todo)
  BY <1>2, EmptySeq
<1>6. ASSUME NEW n \in Nat, Upward(todo, n), todo[1] <= n, rest # <<>> PROVE Upward(rest, n)
  <2>1. rest[1] = todo[1] + 1
    BY <1>2, <1>4, <1>5, <1>6 DEF Upward
  <2>2. ASSUME NEW i \in DOMAIN rest PROVE rest[i] = rest[1] + i - 1
    <3>1. i + 1 \in DOMAIN todo /\ rest[i] = todo[i + 1]
      BY <1>2
    <3> QED
      BY <1>2, <1>4, <1>6, <2>1, <3>1 DEF Upward
  <2> QED
    BY <1>4, <1>6, <2>1, <2>2 DEF Upward
<1>7. ASSUME NEW n \in Nat, Downward(todo, n), todo[1] - 1 >= n, rest # <<>> PROVE Downward(rest, n)
  <2>1. rest[1] = todo[1] - 1
    BY <1>2, <1>4, <1>5, <1>7 DEF Downward
  <2>2. ASSUME NEW i \in DOMAIN rest PROVE rest[i] = rest[1] - i + 1
    <3>1. i + 1 \in DOMAIN todo /\ rest[i] = todo[i + 1]
      BY <1>2
    <3> QED
      BY <1>2, <1>4, <1>7, <2>1, <3>1 DEF Downward
  <2> QED
    BY <1>4, <1>7, <2>1, <2>2 DEF Downward
<1> QED
  BY <1>1, <1>2, <1>3, <1>6, <1>7 DEF todo, rest, Current

LEMMA HolderFreed ==
    ASSUME ScriptsInv
    PROVE  /\ holder \in [Migration -> Task \cup {NoTask}]
           /\ \A p \in Script, task \in {"up", "down"} :
                  Released(p, task) \in [Migration -> Task \cup {NoTask}]
BY DEF ScriptsInv, ScriptsTypeOK, Released

LEMMA TaskAborted ==
    ASSUME ScriptsInv, NEW p \in Script, NEW task \in {"up", "down"}, AbortTask(p, task)
    PROVE  ScriptsInv'
<1>1. <<>> \in Seq(Migration) /\ "close" \in {"off", "read", "sql", "row", "close"} /\ FALSE \in BOOLEAN
  BY EmptySeq
<1>2. /\ script' \in [Script -> ScriptState]
      /\ script'[p][task] = [step |-> "close", todo |-> <<>>, dropping |-> FALSE]
      /\ \A q \in Script, other \in {"up", "down"} :
             q # p \/ other # task => script'[q][other] = script[q][other]
  BY <1>1, ScriptsTypes, TaskMoves DEF AbortTask, OnlyMoves
<1>3. \A q \in Script, other \in {"up", "down"} :
          AtWork(q, other)' => script'[q][other] = script[q][other]
  BY <1>2 DEF AtWork
<1>4. raced \in BOOLEAN /\ holder' \in [Migration -> Task \cup {NoTask}]
  BY HolderFreed DEF AbortTask, ScriptsInv, ScriptsTypeOK
<1> QED
  BY <1>2, <1>3, <1>4, NoneBegins DEF AbortTask

LEMMA TaskProceeds ==
    ASSUME script \in [Script -> ScriptState], NEW p \in Script, NEW task \in {"up", "down"},
           NEW todo \in Seq(Migration), Proceed(p, task, todo)
    PROVE  OnlyMoves(p, task, [step |-> IF todo = <<>> THEN "close" ELSE "sql",
                               todo |-> todo, dropping |-> FALSE])
<1> DEFINE step == IF todo = <<>> THEN "close" ELSE "sql"
<1>1. TaskTo(p, task, step, todo, FALSE)
  BY DEF Proceed
<1>2. step \in {"off", "read", "sql", "row", "close"} /\ FALSE \in BOOLEAN
  OBVIOUS
<1> QED
  BY <1>1, <1>2, TaskMoves

\* A task has read what it is to do.
LEMMA TaskReads ==
    ASSUME ScriptsInv, NEW p \in Script, NEW task \in {"up", "down"}, NEW against \in {"up", "down"},
           task # against, NEW todo \in Seq(Migration), Proceed(p, task, todo), Meet(task, against),
           ~ raced /\ todo # <<>> =>
               /\ task = "up" => Upward(todo, Len(tracked))
               /\ task = "down" => Downward(todo, Len(tracked))
    PROVE  ScriptsInv'
<1> DEFINE step == IF todo = <<>> THEN "close" ELSE "sql"
<1>2. /\ script' \in [Script -> ScriptState]
      /\ script'[p][task] = [step |-> step, todo |-> todo, dropping |-> FALSE]
      /\ \A q \in Script, t \in {"up", "down"} :
             q # p \/ t # task => script'[q][t] = script[q][t]
  BY ScriptsTypes, TaskProceeds DEF OnlyMoves
<1>3. /\ UNCHANGED <<tracked, present, holder, abandoned>>
      /\ raced' = (raced \/ (UnderWay(task)' /\ UnderWay(against)))
      /\ raced \in BOOLEAN /\ raced' \in BOOLEAN
  BY DEF Meet, ScriptsInv, ScriptsTypeOK
<1>4. CASE todo = <<>>
  <2>1. \A q \in Script, t \in {"up", "down"} : AtWork(q, t)' => script'[q][t] = script[q][t]
    BY <1>2, <1>4 DEF AtWork
  <2> QED
    BY <1>2, <1>3, <2>1, NoneBegins, HolderFreed
<1>5. CASE todo # <<>>
  <2>1. ScriptsTypeOK'
    BY <1>2, <1>3 DEF ScriptsInv, ScriptsTypeOK, ScriptState
  <2>2. TrackingTells'
    BY <1>3 DEF ScriptsInv, TrackingTells, Tracked
  <2>3. ASSUME NEW q \in Script, NEW t \in {"up", "down"}, AtWork(q, t)' PROVE Todo(q, t)' # <<>>
    <3>1. CASE q = p /\ t = task
      BY <1>2, <1>5, <3>1 DEF Todo
    <3>2. CASE q # p \/ t # task
      BY <1>2, <2>3, <3>2 DEF ScriptsInv, Todo, AtWork
    <3> QED
      BY <3>1, <3>2
  <2>4. UnderWay(task)' /\ (UnderWay(against)' <=> UnderWay(against))
    BY <1>2, <1>5 DEF UnderWay
  <2>5. ASSUME ~ raced'
        PROVE  ~ (UnderWay("up") /\ UnderWay("down"))' /\ RunsGoOn' /\ RollbacksGoOn'
    <3>1. ~ raced /\ ~ UnderWay(against)' /\ RunsGoOn /\ RollbacksGoOn
      BY <1>3, <2>4, <2>5 DEF ScriptsInv
    <3>2. CASE task = "up"
      <4>1. RollbacksGoOn'
        BY <3>1, <3>2 DEF RollbacksGoOn, UnderWay, AtWork
      <4>2. ASSUME NEW q \in Script, AtWork(q, "up")' PROVE Upward(Todo(q, "up"), Len(tracked))'
        <5>1. CASE q = p
          BY <1>2, <1>3, <1>5, <3>1, <3>2, <5>1 DEF Todo
        <5>2. CASE q # p
          BY <1>2, <1>3, <3>1, <3>2, <4>2, <5>2 DEF RunsGoOn, Todo, AtWork
        <5> QED
          BY <5>1, <5>2
      <4> QED
        BY <3>1, <3>2, <4>1, <4>2 DEF RunsGoOn
    <3>3. CASE task = "down"
      <4>1. RunsGoOn'
        BY <3>1, <3>3 DEF RunsGoOn, UnderWay, AtWork
      <4>2. ASSUME NEW q \in Script, AtWork(q, "down")'
            PROVE  /\ Downward(Todo(q, "down"), Len(tracked))'
                   /\ (TaskAt(q, "down", "row") /\ ~ script[q].down.dropping =>
                           Current(q, "down") \notin present)'
        <5>1. CASE q = p
          BY <1>2, <1>3, <1>5, <3>1, <3>3, <5>1 DEF Todo, TaskAt
        <5>2. CASE q # p
          <6>1. script'[q].down = script'[q]["down"] /\ script[q].down = script[q]["down"]
            BY <1>2, ScriptsTypes, ScriptFields
          <6> QED
            BY <1>2, <1>3, <3>1, <3>3, <4>2, <5>2, <6>1 DEF RollbacksGoOn, Todo, AtWork, TaskAt, Current
        <5> QED
          BY <5>1, <5>2
      <4> QED
        BY <3>1, <3>3, <4>1, <4>2 DEF RollbacksGoOn
    <3> QED
      BY <3>2, <3>3
  <2> QED
    BY <2>1, <2>2, <2>3, <2>5 DEF ScriptsInv
<1> QED
  BY <1>4, <1>5

LEMMA PendingRead == ASSUME ScriptsInv, NEW p \in Script, ReadPending(p) PROVE ScriptsInv'
<1> DEFINE pending == (1 .. script[p].files) \ Tracked
           todo == InFileOrder(pending)
<1>1. script[p].files \in 0 .. Newest /\ Newest \in Nat
  BY ScriptsTypes DEF ScriptState
<1>2. pending \in SUBSET Migration
  BY <1>1 DEF Migration
<1>3. todo \in Seq(Migration)
  BY <1>1, <1>2, FileOrder
<1>4. ASSUME ~ raced, todo # <<>> PROVE Upward(todo, Len(tracked))
  <2>1. Len(tracked) \in Nat /\ DOMAIN tracked = 1 .. Len(tracked)
    BY ScriptsTypes
  <2>2. Tracked = 1 .. Len(tracked)
    BY <1>4, <2>1 DEF ScriptsInv, TrackingTells, Tracked
  <2> DEFINE a == Len(tracked) + 1
             b == script[p].files
  <2>3. pending = a .. b /\ a \in Nat \ {0} /\ b \in Nat /\ b <= Newest
    BY <1>1, <2>1, <2>2
  <2>4. 1 \in DOMAIN todo
    BY <1>3, <1>4, EmptySeq, LenProperties
  <2> HIDE DEF pending
  <2>5. \A i \in DOMAIN todo : todo[i] = a + i - 1
    <3>1. todo = InFileOrder(a .. b)
      BY <2>3
    <3> HIDE DEF a, b
    <3> QED
      BY <1>1, <2>3, <3>1, FileOrderAscends
  <2>6. todo[1] = a
    BY <2>1, <2>4, <2>5
  <2> HIDE DEF todo
  <2> QED
    BY <2>1, <2>5, <2>6 DEF Upward
<1>5. Proceed(p, "up", todo) /\ Meet("up", "down")
  BY DEF ReadPending
<1> HIDE DEF todo
<1> QED
  BY <1>3, <1>4, <1>5, TaskReads

LEMMA AppliedRead == ASSUME ScriptsInv, NEW p \in Script, ReadApplied(p) PROVE ScriptsInv'
<1> DEFINE n == IF script[p].count < Len(tracked) THEN script[p].count ELSE Len(tracked)
           todo == NewestFirst(n)
<1>1. script[p].count \in Nat /\ Len(tracked) \in Nat
  BY ScriptsTypes DEF ScriptState
<1>2. n \in 0 .. Len(tracked)
  BY <1>1
<1> HIDE DEF n
<1>3. /\ todo \in Seq(Migration) /\ DOMAIN todo = 1 .. n
      /\ \A i \in 1 .. n : todo[i] = tracked[Len(tracked) + 1 - i]
  BY <1>2, NewestRows
<1>4. ASSUME ~ raced, todo # <<>> PROVE Downward(todo, Len(tracked))
  <2>1. \A i \in 1 .. Len(tracked) : tracked[i] = i
    BY <1>4, ScriptsTypes DEF ScriptsInv, TrackingTells
  <2>2. \A i \in 1 .. n : todo[i] = Len(tracked) + 1 - i
    <3>1. \A i \in 1 .. n : Len(tracked) + 1 - i \in 1 .. Len(tracked)
      BY <1>1, <1>2
    <3> QED
      BY <1>3, <2>1, <3>1
  <2> HIDE DEF todo
  <2>3. 1 \in 1 .. Len(todo) /\ DOMAIN todo = 1 .. Len(todo)
    BY <1>3, <1>4, EmptySeq, LenProperties
  <2> QED
    BY <1>1, <1>2, <1>3, <2>2, <2>3 DEF Downward
<1>5. Proceed(p, "down", todo) /\ Meet("down", "up")
  BY DEF ReadApplied, n
<1> HIDE DEF todo
<1> QED
  BY <1>3, <1>4, <1>5, TaskReads

LEMMA SqlApplied == ASSUME ScriptsInv, NEW p \in Script, ApplySql(p) PROVE ScriptsInv'
<1> DEFINE m == Current(p, "up")
<1>1. CASE AbortTask(p, "up")
  BY <1>1, TaskAborted
<1>2. CASE ~ AbortTask(p, "up")
  <2>1. /\ holder' = [holder EXCEPT ![m] = <<p, "up">>] /\ AtWork(p, "up")
        /\ TaskTo(p, "up", "row", Todo(p, "up"), FALSE)
        /\ UNCHANGED <<tracked, present, abandoned, raced>>
    BY <1>2 DEF ApplySql, TaskAt, AtWork
  <2>2. holder' \in [Migration -> Task \cup {NoTask}]
    BY <2>1, HolderFreed DEF Task
  <2>3. /\ Todo(p, "up") \in Seq(Migration) /\ Todo(p, "up") # <<>>
        /\ ~ raced => Upward(Todo(p, "up"), Len(tracked))
    BY <2>1, TodoLeft DEF ScriptsInv, RunsGoOn
  <2>4. TrackingTells'
    BY <2>1 DEF ScriptsInv, TrackingTells, Tracked
  <2>5. /\ Len(tracked) <= Len(tracked') /\ tracked' \in Seq(Migration)
        /\ present' \subseteq Migration /\ abandoned' \subseteq Migration
        /\ \A i, j \in DOMAIN tracked' : tracked'[i] = tracked'[j] => i = j
    BY <2>1, ScriptsTypes DEF ScriptsInv, ScriptsTypeOK
  <2> QED
    BY <2>1, <2>2, <2>3, <2>4, <2>5, RunStep
<1> QED
  BY <1>1, <1>2

LEMMA RowApplied == ASSUME ScriptsInv, NEW p \in Script, ApplyRow(p) PROVE ScriptsInv'
<1> DEFINE m == Current(p, "up")
           rest == Tail(Todo(p, "up"))
           step == IF rest = <<>> THEN "close" ELSE "sql"
           n == Len(tracked)
<1>1. CASE AbortTask(p, "up")
  BY <1>1, TaskAborted
<1>2. CASE ~ AbortTask(p, "up")
  <2>1. /\ m \notin Tracked /\ tracked' = Append(tracked, m) /\ present' = present \cup {m}
        /\ abandoned' = abandoned \ {m} /\ holder' = Released(p, "up") /\ AtWork(p, "up")
        /\ TaskTo(p, "up", step, rest, FALSE) /\ UNCHANGED raced
    BY <1>2 DEF ApplyRow, TaskAt, AtWork, Proceed
  <2>2. /\ m \in Migration /\ rest \in Seq(Migration) /\ m = Todo(p, "up")[1] /\ m \in Nat
        /\ n \in Nat /\ Newest \in Nat
    BY <2>1, TodoLeft, ScriptsTypes DEF Migration
  <2>3. /\ tracked \in Seq(Migration) /\ DOMAIN tracked = 1 .. n
        /\ \A i, j \in 1 .. n : tracked[i] = tracked[j] => i = j
    BY ScriptsTypes DEF ScriptsInv, ScriptsTypeOK
  <2>4. /\ tracked' \in Seq(Migration) /\ Len(tracked') = n + 1 /\ DOMAIN tracked' = 1 .. n + 1
        /\ tracked'[n + 1] = m /\ \A i \in 1 .. n : tracked'[i] = tracked[i]
    BY <2>1, <2>2, <2>3, AppendProperties, LenProperties
  <2>5. Tracked' = Tracked \cup {m}
    <3>1. \A k : k \in Tracked' <=> \E i \in 1 .. n + 1 : tracked'[i] = k
      BY <2>4 DEF Tracked
    <3>2. \A k : k \in Tracked <=> \E i \in 1 .. n : tracked[i] = k
      BY <2>3 DEF Tracked
    <3>3. \A i \in 1 .. n + 1 : i \in 1 .. n \/ i = n + 1
      BY <2>2
    <3>4. n + 1 \in 1 .. n + 1 /\ \A i \in 1 .. n : i \in 1 .. n + 1
      BY <2>2
    <3> QED
      BY <2>4, <3>1, <3>2, <3>3, <3>4
  <2>6. \A i, j \in DOMAIN tracked' : tracked'[i] = tracked'[j] => i = j
    <3>1. \A i \in 1 .. n : tracked[i] # m
      BY <2>1, <2>3 DEF Tracked
    <3> QED
      BY <2>2, <2>3, <2>4, <3>1
  <2>7. ASSUME ~ raced
        PROVE  /\ \A i \in DOMAIN tracked' : tracked'[i] = i
               /\ rest # <<>> => Upward(rest, n + 1)
    <3>1. Upward(Todo(p, "up"), n) /\ \A i \in 1 .. n : tracked[i] = i
      BY <2>1, <2>3, <2>7 DEF ScriptsInv, RunsGoOn, TrackingTells
    <3>2. m \notin 1 .. n
      BY <2>1, <2>3, <3>1 DEF Tracked
    <3>3. m # 0
      BY <2>2 DEF Migration
    <3>4. m = n + 1
      BY <2>2, <3>1, <3>2, <3>3 DEF Upward
    <3>5. Upward(Todo(p, "up"), n + 1) /\ n + 1 \in Nat
      BY <2>2, <3>1, <3>4 DEF Upward
    <3>6. rest # <<>> => Upward(rest, n + 1)
      BY <2>1, <2>2, <3>4, <3>5, TodoLeft
    <3> QED
      BY <2>2, <2>4, <3>1, <3>4, <3>6
  <2>8. TrackingTells'
    BY <2>1, <2>5, <2>7 DEF ScriptsInv, TrackingTells
  <2>9. /\ n <= n + 1 /\ present' \subseteq Migration /\ abandoned' \subseteq Migration
        /\ holder' \in [Migration -> Task \cup {NoTask}]
    BY <2>1, <2>2, HolderFreed DEF ScriptsInv, ScriptsTypeOK
  <2>10. step \in {"sql", "row", "close"} /\ (step # "close" => rest # <<>>)
    OBVIOUS
  <2> HIDE DEF step, rest, n, m
  <2>11. Len(tracked) <= Len(tracked') /\ (~ raced /\ step # "close" => Upward(rest, Len(tracked')))
    BY <2>4, <2>7, <2>9, <2>10 DEF n
  <2> QED
    BY <2>1, <2>2, <2>4, <2>6, <2>8, <2>9, <2>10, <2>11, RunStep
<1> QED
  BY <1>1, <1>2

LEMMA SqlRolledBack == ASSUME ScriptsInv, NEW p \in Script, RollbackSql(p) PROVE ScriptsInv'
<1> DEFINE m == Current(p, "down")
<1>1. PICK dropping \in BOOLEAN :
          /\ TaskTo(p, "down", "row", Todo(p, "down"), dropping)
          /\ ~ dropping => m \notin present
          /\ holder' = holder \/ holder' = [holder EXCEPT ![m] = <<p, "down">>]
  BY DEF RollbackSql
<1>2. AtWork(p, "down") /\ UNCHANGED <<tracked, present, abandoned, raced>>
  BY DEF RollbackSql, TaskAt, AtWork
<1>3. holder' \in [Migration -> Task \cup {NoTask}]
  BY <1>1, HolderFreed DEF Task
<1>4. /\ Todo(p, "down") \in Seq(Migration) /\ Todo(p, "down") # <<>>
      /\ ~ raced => Downward(Todo(p, "down"), Len(tracked))
  BY <1>2, TodoLeft DEF ScriptsInv, RollbacksGoOn
<1>5. TrackingTells'
  BY <1>2 DEF ScriptsInv, TrackingTells, Tracked
<1>6. /\ Len(tracked') <= Len(tracked) /\ tracked' \in Seq(Migration)
      /\ present' \subseteq present /\ abandoned' \subseteq Migration
      /\ \A i, j \in DOMAIN tracked' : tracked'[i] = tracked'[j] => i = j
  BY <1>2, ScriptsTypes DEF ScriptsInv, ScriptsTypeOK
<1> QED
  BY <1>1, <1>2, <1>3, <1>4, <1>5, <1>6, RollbackStep DEF Current

\* The row of the first of todo is deleted, by a DELETE on its own or with the DROPs.
LEMMA RowRolledBack ==
    ASSUME ScriptsInv, NEW p \in Script, AtWork(p, "down"),
           tracked' = Without(Current(p, "down")), Proceed(p, "down", Tail(Todo(p, "down"))),
           present' \subseteq present, abandoned' \subseteq Migration, UNCHANGED raced,
           holder' \in [Migration -> Task \cup {NoTask}],
           Tracked \ {Current(p, "down")} \subseteq present',
           ~ raced => present' \ (Tracked \ {Current(p, "down")}) \subseteq abandoned'
    PROVE  ScriptsInv'
<1> DEFINE m == Current(p, "down")
           rest == Tail(Todo(p, "down"))
           step == IF rest = <<>> THEN "close" ELSE "sql"
<1>1. /\ m \in Migration /\ rest \in Seq(Migration) /\ m = Todo(p, "down")[1] /\ m \in Nat
      /\ Len(tracked) \in Nat
  BY TodoLeft, ScriptsTypes DEF Migration
<1>2. /\ tracked' \in Seq(Migration) /\ Len(tracked') <= Len(tracked) /\ Len(tracked') \in Nat
      /\ \A i, j \in DOMAIN tracked' : tracked'[i] = tracked'[j] => i = j
      /\ Tracked' = Tracked \ {m}
      /\ (\A i \in DOMAIN tracked : tracked[i] = i) /\ m >= Len(tracked) =>
             (\A i \in DOMAIN tracked' : tracked'[i] = i) /\ m - 1 >= Len(tracked')
  BY <1>1, RowDeleted
<1>3. ASSUME ~ raced
      PROVE  /\ \A i \in DOMAIN tracked' : tracked'[i] = i
             /\ rest # <<>> => Downward(rest, Len(tracked'))
  <2>1. Downward(Todo(p, "down"), Len(tracked)) /\ \A i \in DOMAIN tracked : tracked[i] = i
    BY <1>3 DEF ScriptsInv, RollbacksGoOn, TrackingTells
  <2>2. m >= Len(tracked)
    BY <1>1, <2>1 DEF Downward
  <2>3. Downward(Todo(p, "down"), Len(tracked'))
    BY <1>1, <1>2, <2>1 DEF Downward
  <2> QED
    BY <1>1, <1>2, <2>1, <2>2, <2>3, TodoLeft
<1>4. TrackingTells'
  BY <1>2, <1>3 DEF TrackingTells
<1>5. step \in {"sql", "row", "close"} /\ (step # "close" => rest # <<>>) /\ step # "row"
  OBVIOUS
<1>6. TaskTo(p, "down", step, rest, FALSE)
  BY DEF Proceed
<1> HIDE DEF step, rest, m
<1> QED
  BY <1>1, <1>2, <1>3, <1>4, <1>5, <1>6, RollbackStep

\* Commands that are started, tasks that end and processes that die: nothing
\* that was not at work is.
LEMMA ProcessSet ==
    ASSUME ScriptsInv, NEW p \in Script, NEW s \in ScriptState, script' = [script EXCEPT ![p] = s],
           \A task \in {"up", "down"} : s[task].step \in {"sql", "row"} => s[task] = script[p][task],
           UNCHANGED <<tracked, present, abandoned, raced>>,
           holder' \in [Migration -> Task \cup {NoTask}]
    PROVE  ScriptsInv'
<1>1. script \in [Script -> ScriptState] /\ raced \in BOOLEAN
  BY ScriptsTypes DEF ScriptsInv, ScriptsTypeOK
<1>2. script' \in [Script -> ScriptState]
  BY <1>1
<1>3. ASSUME NEW q \in Script, NEW task \in {"up", "down"}, AtWork(q, task)'
      PROVE  script'[q][task] = script[q][task]
  <2>1. CASE q = p
    BY <1>1, <1>3, <2>1 DEF AtWork
  <2>2. CASE q # p
    BY <1>1, <2>2
  <2> QED
    BY <2>1, <2>2
<1> QED
  BY <1>1, <1>2, <1>3, NoneBegins

LEMMA ScriptsNextInv == ASSUME ScriptsInv, [ScriptsNext]_scriptVars PROVE ScriptsInv'
<1>0. /\ script \in [Script -> ScriptState] /\ Newest \in Nat /\ Tracked \subseteq present
      /\ ~ raced => present \ Tracked \subseteq abandoned
      /\ Off \in TaskState /\ NoScript \in ScriptState /\ abandoned \subseteq Migration
  BY ScriptsTypes, EmptySeq DEF ScriptsInv, ScriptsTypeOK, TrackingTells, Off, NoScript, TaskState,
     ScriptState
<1>1. ASSUME NEW p \in Script, NEW command \in Command[p], NEW count \in 1 .. Newest,
             NEW files \in {Newest - 1, Newest}, StartScript(p, command, count, files)
      PROVE  ScriptsInv'
  <2> DEFINE read == [Off EXCEPT !.step = "read"]
             s == [pool |-> "open", count |-> IF command = "migrate:down" THEN count ELSE 0,
                   files |-> files, up |-> read,
                   down |-> IF command = "migrate:down" THEN read ELSE Off]
  <2>1. script' = [script EXCEPT ![p] = s] /\ UNCHANGED database
    BY <1>1 DEF StartScript
  <2>2. read \in TaskState /\ read.step = "read" /\ Off.step = "off"
    BY <1>0 DEF Off, TaskState
  <2>3. files \in 0 .. Newest /\ count \in 0 .. Newest /\ 0 \in 0 .. Newest
    BY <1>0
  <2> HIDE DEF read
  <2>4. s \in ScriptState /\ s["up"].step = "read" /\ s["down"].step \in {"read", "off"}
    BY <1>0, <2>2, <2>3 DEF ScriptState
  <2> HIDE DEF s
  <2> QED
    BY <2>1, <2>4, ProcessSet, HolderFreed DEF database
<1>2. ASSUME NEW p \in Script, ReadPending(p) \/ ReadApplied(p) PROVE ScriptsInv'
  BY <1>2, PendingRead, AppliedRead
<1>3. ASSUME NEW p \in Script, ApplySql(p) \/ ApplyRow(p) PROVE ScriptsInv'
  BY <1>3, SqlApplied, RowApplied
<1>4. ASSUME NEW p \in Script, Untrack(p) PROVE ScriptsInv'
  <2> DEFINE m == Current(p, "down")
  <2>1. /\ AtWork(p, "down") /\ tracked' = Without(m) /\ Proceed(p, "down", Tail(Todo(p, "down")))
        /\ abandoned' = abandoned \cup ({m} \cap present) /\ UNCHANGED <<present, holder, raced>>
    BY <1>4 DEF Untrack, TaskAt, AtWork
  <2>2. m \in Migration
    BY <2>1, TodoLeft
  <2> QED
    BY <1>0, <2>1, <2>2, RowRolledBack, HolderFreed
<1>5. ASSUME NEW p \in Script, RollbackSql(p) PROVE ScriptsInv'
  BY <1>5, SqlRolledBack
<1>6. ASSUME NEW p \in Script, RollbackRow(p) PROVE ScriptsInv'
  <2> DEFINE m == Current(p, "down")
  <2>1. /\ AtWork(p, "down") /\ tracked' = Without(m) /\ Proceed(p, "down", Tail(Todo(p, "down")))
        /\ present' = IF script[p].down.dropping THEN present \ {m} ELSE present
        /\ holder' = Released(p, "down") /\ UNCHANGED <<raced, abandoned>>
    BY <1>6 DEF RollbackRow, TaskAt, AtWork
  <2>2. ~ raced /\ ~ script[p].down.dropping => m \notin present
    BY <1>6, <2>1 DEF RollbackRow, ScriptsInv, RollbacksGoOn
  <2> QED
    BY <1>0, <2>1, <2>2, RowRolledBack, HolderFreed
<1>7. ASSUME NEW p \in Script, NEW task \in {"up", "down"}, FailTask(p, task) PROVE ScriptsInv'
  BY <1>7, TaskAborted DEF FailTask
<1>8. ASSUME NEW p \in Script, NEW task \in {"up", "down"}, CloseTask(p, task) PROVE ScriptsInv'
  <2> DEFINE s == [script[p] EXCEPT ![task] = Off, !.pool = "ended"]
  <2>1. script' = [script EXCEPT ![p] = s] /\ UNCHANGED database
    BY <1>0, <1>8 DEF CloseTask
  <2>2. /\ s \in ScriptState /\ s[task] = Off
        /\ \A t \in {"up", "down"} : t # task => s[t] = script[p][t]
    <3>1. CASE task = "up"
      BY <1>0, <3>1 DEF ScriptState
    <3>2. CASE task = "down"
      BY <1>0, <3>2 DEF ScriptState
    <3> QED
      BY <3>1, <3>2
  <2>3. Off.step = "off"
    BY DEF Off
  <2> HIDE DEF s
  <2> QED
    BY <2>1, <2>2, <2>3, ProcessSet, HolderFreed DEF database
<1>9. ASSUME NEW p \in Script, CrashScript(p) PROVE ScriptsInv'
  <2>1. /\ script' = [script EXCEPT ![p] = NoScript] /\ UNCHANGED <<tracked, present, abandoned, raced>>
        /\ holder' \in [Migration -> Task \cup {NoTask}]
    BY <1>9, HolderFreed DEF CrashScript
  <2>2. NoScript["up"].step = "off" /\ NoScript["down"].step = "off"
    BY DEF NoScript, Off
  <2> QED
    BY <1>0, <2>1, <2>2, ProcessSet
<1>10. CASE UNCHANGED scriptVars
  BY <1>10 DEF scriptVars, database, ScriptsInv, ScriptsTypeOK, TrackingTells, Tracked, RunsGoOn,
     RollbacksGoOn, UnderWay, AtWork, Todo, Current, TaskAt
<1> QED
  BY <1>1, <1>2, <1>3, <1>4, <1>5, <1>6, <1>7, <1>8, <1>9, <1>10 DEF ScriptsNext

-----------------------------------------------------------------------------
(* The seed.  A step is reached once all before it is written; nothing that is
   written is taken away. *)
\* What is written when a seed has come to its step.
Written(s) ==
    /\ ~ SeedAt(s, "off") => seeder[s].lists \in Key /\ seeder[s].key \in 1 .. seeder[s].lists
    /\ SeedAt(s, "permissions") => 1 .. (seeder[s].key - 1) \subseteq permissions
    /\ seeder[s].step \in {"role", "insertRole", "grant", "account", "insertAccount"} =>
          1 .. seeder[s].lists \subseteq permissions
    /\ seeder[s].step \in {"grant", "account", "insertAccount"} => superAdmin.exists
    /\ seeder[s].step \in {"account", "insertAccount"} =>
          1 .. seeder[s].lists \subseteq superAdmin.grants

SeedInv == SeedTypeOK /\ SeedComplete /\ \A s \in Seeder : Written(s)

LEMMA SeedInitInv == SeedInit => SeedInv
BY SeedAssumption DEF SeedInit, SeedInv, SeedTypeOK, SeedComplete, Written, SeedAt, NoSeeder,
   SeederState, Key

\* What is written stays.
Grows ==
    /\ permissions \subseteq permissions' /\ superAdmin.grants \subseteq superAdmin'.grants
    /\ superAdmin.exists => superAdmin'.exists

\* The others are where they were.
LEMMA OthersWritten ==
    ASSUME NEW s \in Seeder, NEW step, SeedInv, Grows, seeder' = [seeder EXCEPT ![s] = step],
           NEW q \in Seeder, q # s
    PROVE  Written(q)'
<1>1. seeder'[q] = seeder[q]
  BY DEF SeedInv, SeedTypeOK
<1> QED
  BY <1>1 DEF SeedInv, Written, SeedAt, Grows

\* A step of one seed that leaves promised alone.
LEMMA SeederStep ==
    ASSUME NEW s \in Seeder, SeedInv,
           NEW step \in SeederState, seeder' = [seeder EXCEPT ![s] = step],
           permissions' \subseteq Key, superAdmin' \in [exists : BOOLEAN, grants : SUBSET Key],
           bootstrap' \in {"absent", "active", "deleted"},
           Grows, superAdmin'.grants \subseteq permissions',
           bootstrap # "absent" => bootstrap' # "absent",
           promised' = promised, Written(s)'
    PROVE  SeedInv'
<1>1. SeedTypeOK'
  BY DEF SeedInv, SeedTypeOK
<1>2. SeedComplete'
  BY DEF SeedInv, SeedComplete, Grows
<1>3. ASSUME NEW q \in Seeder PROVE Written(q)'
  BY OthersWritten
<1> QED
  BY <1>1, <1>2, <1>3 DEF SeedInv

\* A seed that fails leaves what it has written.
LEMMA SeederEnds ==
    ASSUME NEW s \in Seeder, SeedInv, SeedEnds(s),
           UNCHANGED <<permissions, superAdmin, bootstrap, promised>>
    PROVE  SeedInv'
<1>1. NoSeeder \in SeederState
  BY SeedAssumption DEF NoSeeder, SeederState
<1>2. Written(s)'
  BY DEF SeedEnds, NoSeeder, Written, SeedAt, SeedInv, SeedTypeOK
<1> QED
  BY <1>1, <1>2, SeederStep DEF SeedEnds, Grows, SeedInv, SeedTypeOK, SeedComplete

\* A seed ends well when it has granted what it lists, and the account is there.
LEMMA SeederEndsWell ==
    ASSUME NEW s \in Seeder, SeedInv, SeedEndsWell(s),
           seeder[s].step \in {"account", "insertAccount"},
           UNCHANGED <<permissions, superAdmin>>, bootstrap' \in {"active", "deleted"}
    PROVE  SeedInv'
<1>1. SeedTypeOK'
  <2>1. seeder[s].lists \in Key
    BY DEF SeedInv, Written, SeedAt
  <2>2. 1 .. seeder[s].lists \subseteq Key
    BY <2>1, SeedAssumption DEF Key
  <2>3. promised' \subseteq Key
    BY <2>2 DEF SeedEndsWell, SeedInv, SeedTypeOK
  <2>4. seeder' \in [Seeder -> SeederState]
    BY SeedAssumption DEF SeedEndsWell, SeedEnds, NoSeeder, SeedInv, SeedTypeOK, SeederState
  <2> QED
    BY <2>3, <2>4 DEF SeedInv, SeedTypeOK
<1>2. SeedComplete'
  BY DEF SeedEndsWell, SeedInv, SeedComplete, Written
<1>3. Grows /\ seeder' = [seeder EXCEPT ![s] = NoSeeder]
  BY DEF Grows, SeedEndsWell, SeedEnds
<1>4. Written(s)'
  BY <1>3 DEF NoSeeder, Written, SeedAt, SeedInv, SeedTypeOK
<1>5. ASSUME NEW q \in Seeder PROVE Written(q)'
  BY <1>3, <1>4, OthersWritten
<1> QED
  BY <1>1, <1>2, <1>5 DEF SeedInv

LEMMA SeedInvStep == ASSUME SeedInv, [SeedNext]_seedVars PROVE SeedInv'
<1> USE DEF SeedTo, SeedEnds, SeedAt
<1>1. ASSUME NEW s \in Seeder, NEW lists \in Key, StartSeed(s, lists) PROVE SeedInv'
  <2>1. [step |-> "permissions", lists |-> lists, key |-> 1] \in SeederState
    BY SeedAssumption DEF SeederState, Key
  <2>2. Written(s)'
    BY <1>1, SeedAssumption DEF StartSeed, Written, SeedInv, SeedTypeOK, Key
  <2> QED
    BY <1>1, <2>1, <2>2, SeederStep DEF StartSeed, Grows, SeedInv, SeedTypeOK, SeedComplete
<1>2. ASSUME NEW s \in Seeder, SeedPermission(s) PROVE SeedInv'
  <2> DEFINE next == IF seeder[s].key = seeder[s].lists THEN [seeder[s] EXCEPT !.step = "role"]
                     ELSE [seeder[s] EXCEPT !.key = @ + 1]
  <2>1. seeder' = [seeder EXCEPT ![s] = next]
    BY <1>2 DEF SeedPermission, SeedInv, SeedTypeOK
  <2>2. next \in SeederState /\ seeder[s].key \in Key
    BY <1>2, SeedAssumption DEF SeedPermission, SeedInv, SeedTypeOK, SeederState, Written, Key
  <2>3. seeder'[s] = next
    BY <2>1 DEF SeedInv, SeedTypeOK
  <2>4. Written(s)'
    BY <1>2, <2>2, <2>3, SeedAssumption
       DEF SeedPermission, Written, SeedInv, SeedTypeOK, SeederState, Key
  <2> QED
    BY <1>2, <2>1, <2>2, <2>4, SeederStep DEF SeedPermission, Grows, SeedInv, SeedTypeOK, SeedComplete
<1>3. ASSUME NEW s \in Seeder, FindRole(s) PROVE SeedInv'
  <2> DEFINE next == [seeder[s] EXCEPT !.step = IF superAdmin.exists THEN "grant" ELSE "insertRole"]
  <2>1. seeder' = [seeder EXCEPT ![s] = next]
    BY <1>3 DEF FindRole, SeedInv, SeedTypeOK
  <2>2. next \in SeederState /\ seeder'[s] = next
    BY <1>3, <2>1 DEF SeedInv, SeedTypeOK, SeederState
  <2>3. Written(s)'
    BY <1>3, <2>2 DEF FindRole, Written, SeedInv
  <2> QED
    BY <1>3, <2>1, <2>2, <2>3, SeederStep DEF FindRole, Grows, SeedInv, SeedTypeOK, SeedComplete
<1>4. ASSUME NEW s \in Seeder, InsertRole(s) PROVE SeedInv'
  <2>1. CASE superAdmin.exists
    BY <1>4, <2>1, SeederEnds DEF InsertRole, SeedInv
  <2>2. CASE ~ superAdmin.exists
    <3> DEFINE next == [seeder[s] EXCEPT !.step = "grant"]
    <3>1. seeder' = [seeder EXCEPT ![s] = next]
      BY <1>4, <2>2 DEF InsertRole, SeedInv, SeedTypeOK
    <3>2. next \in SeederState /\ seeder'[s] = next
      BY <3>1 DEF SeedInv, SeedTypeOK, SeederState
    <3>3. /\ superAdmin'.exists /\ superAdmin'.grants = superAdmin.grants
          /\ superAdmin' \in [exists : BOOLEAN, grants : SUBSET Key]
      BY <1>4, <2>2 DEF InsertRole, SeedInv, SeedTypeOK
    <3>4. Written(s)'
      BY <1>4, <3>2, <3>3 DEF InsertRole, Written, SeedInv
    <3> QED
      BY <1>4, <3>1, <3>2, <3>3, <3>4, SeederStep
         DEF InsertRole, Grows, SeedInv, SeedTypeOK, SeedComplete
  <2> QED
    BY <2>1, <2>2
<1>5. ASSUME NEW s \in Seeder, GrantAll(s) PROVE SeedInv'
  <2> DEFINE next == [seeder[s] EXCEPT !.step = "account"]
  <2>1. seeder' = [seeder EXCEPT ![s] = next]
    BY <1>5 DEF GrantAll, SeedInv, SeedTypeOK
  <2>2. next \in SeederState /\ seeder'[s] = next
    BY <2>1 DEF SeedInv, SeedTypeOK, SeederState
  <2>3. /\ superAdmin'.exists = superAdmin.exists
        /\ superAdmin'.grants = superAdmin.grants \cup permissions
        /\ superAdmin' \in [exists : BOOLEAN, grants : SUBSET Key]
    BY <1>5 DEF GrantAll, SeedInv, SeedTypeOK
  <2>4. Written(s)'
    BY <1>5, <2>2, <2>3 DEF GrantAll, Written, SeedInv
  <2> QED
    BY <1>5, <2>1, <2>2, <2>3, <2>4, SeederStep DEF GrantAll, Grows, SeedInv, SeedTypeOK, SeedComplete
<1>6. ASSUME NEW s \in Seeder, FindAccount(s) PROVE SeedInv'
  <2>1. CASE bootstrap = "absent"
    <3> DEFINE next == [seeder[s] EXCEPT !.step = "insertAccount"]
    <3>1. seeder' = [seeder EXCEPT ![s] = next]
      BY <1>6, <2>1 DEF FindAccount, SeedInv, SeedTypeOK
    <3>2. next \in SeederState /\ seeder'[s] = next
      BY <3>1 DEF SeedInv, SeedTypeOK, SeederState
    <3>3. Written(s)'
      BY <1>6, <3>2 DEF FindAccount, Written, SeedInv
    <3> QED
      BY <1>6, <2>1, <3>1, <3>2, <3>3, SeederStep
         DEF FindAccount, Grows, SeedInv, SeedTypeOK, SeedComplete
  <2>2. CASE bootstrap # "absent"
    BY <1>6, <2>2, SeederEndsWell DEF FindAccount, SeedInv, SeedTypeOK
  <2> QED
    BY <2>1, <2>2
<1>7. ASSUME NEW s \in Seeder, InsertAccount(s) PROVE SeedInv'
  <2>1. CASE bootstrap = "absent"
    BY <1>7, <2>1, SeederEndsWell DEF InsertAccount, SeedInv, SeedTypeOK
  <2>2. CASE bootstrap # "absent"
    BY <1>7, <2>2, SeederEnds DEF InsertAccount, SeedInv
  <2> QED
    BY <2>1, <2>2
<1>8. ASSUME NEW s \in Seeder, FailSeed(s) PROVE SeedInv'
  BY <1>8, SeederEnds DEF FailSeed
<1>9. ASSUME DeleteAccount PROVE SeedInv'
  BY <1>9 DEF DeleteAccount, SeedInv, SeedTypeOK, SeedComplete, Written
<1>10. ASSUME UNCHANGED seedVars PROVE SeedInv'
  BY <1>10 DEF seedVars, SeedInv, SeedTypeOK, SeedComplete, Written
<1> QED
  BY <1>1, <1>2, <1>3, <1>4, <1>5, <1>6, <1>7, <1>8, <1>9, <1>10 DEF SeedNext

-----------------------------------------------------------------------------
(* The console.  What the page that is open does keeps its part; the others
   rest, and a request of theirs that reads users.is_active is not under way. *)
PagesRest ==
    /\ page \in Pages
    /\ page # "flags" => figures = NoFigures
    /\ page # "messages" => sending = [s \in Sender |-> NoSending]

ConsoleInv ==
    /\ ListInv /\ RiskInv /\ NotifyInv /\ ViewsInv
    /\ AnalyticsInv /\ ForecastInv /\ ScriptsInv /\ SeedInv
    /\ PagesRest

\* Users switched while no figures are being read.
LEMMA FlagsRest ==
    ASSUME RiskInv, figures = NoFigures, active' \in [User -> BOOLEAN],
           UNCHANGED <<flags, desk, figures>>
    PROVE  RiskInv'
BY NoFiguresType DEF RiskInv, RiskTypeOK, UsersTypeOK, NamesWhoResolved, FiguresNow

\* Users switched while nothing is being sent.
LEMMA MessagesRest ==
    ASSUME NotifyInv, sending = [s \in Sender |-> NoSending], active' \in [User -> BOOLEAN],
           UNCHANGED <<inbox, updates, messages, confirmed, sending, budget>>
    PROVE  NotifyInv'
<1>1. ASSUME NEW s \in Sender PROVE ~ At(s, "select")
  BY DEF At, NoSending
<1>2. ASSUME NEW s \in Sender PROVE ~ At(s, "select")'
  BY DEF At, NoSending
<1> QED
  BY <1>2 DEF NotifyInv, NotifyTypeOK, UsersTypeOK, RowsAreThere, ToAnnounce, ToConfirm, Announcing,
     Confirming, At, BroadcastReaches, Sent, Meant

LEMMA ConsoleInitInv == Init => ConsoleInv
BY ListInitInv, RiskInitInv, NotifyInitInv, ViewsInitInv, AnalyticsInitInv, ForecastInitInv,
   ScriptsInitInv, SeedInitInv
   DEF Init, ConsoleInv, PagesRest, RiskInit, NotifyInit

\* Users are switched by the pages of flags, messages and figures, and are users
\* ever after.
LEMMA UsersStay ==
    ASSUME ConsoleInv, [Next]_vars
    PROVE  active' \in [User -> BOOLEAN]
<1>1. UsersTypeOK
  BY DEF ConsoleInv, RiskInv, RiskTypeOK
<1>2. CASE Rest("flags") /\ RiskNext
  <2>1. RiskInv'
    BY <1>2, RiskNextInv DEF ConsoleInv
  <2> QED
    BY <2>1 DEF RiskInv, RiskTypeOK, UsersTypeOK
<1>3. CASE Rest("messages") /\ NotifyNext
  <2>1. NotifyInv'
    BY <1>3, NotifyNextInv DEF ConsoleInv
  <2> QED
    BY <2>1 DEF NotifyInv, NotifyTypeOK, UsersTypeOK
<1>4. CASE Rest("figures") /\ AnalyticsNext
  <2>1. AnalyticsInv'
    BY <1>4, AnalyticsNextInv DEF ConsoleInv
  <2> QED
    BY <2>1 DEF AnalyticsInv, AnalyticsTypeOK, UsersTypeOK
<1>5. CASE UNCHANGED active
  BY <1>1, <1>5 DEF UsersTypeOK
<1> QED
  BY <1>2, <1>3, <1>4, <1>5 DEF Next, Rest, vars, riskVars

LEMMA ConsoleNextInv == ASSUME ConsoleInv, [Next]_vars PROVE ConsoleInv'
<1> USE DEF ConsoleInv
<1>0. active' \in [User -> BOOLEAN]
  BY UsersStay
<1>1. ListInv'
  <2>1. [ListNext]_listVars
    BY DEF Next, Rest, vars
  <2> QED
    BY <2>1, ListNextInv
<1>2. RiskInv'
  <2>1. CASE page = "flags"
    <3>1. [RiskNext]_riskVars
      BY <2>1 DEF Next, Rest, vars
    <3> QED
      BY <3>1, RiskNextInv
  <2>2. CASE page # "flags"
    <3>1. figures = NoFigures /\ UNCHANGED <<flags, desk, figures>>
      BY <2>2 DEF PagesRest, Next, Rest, vars, riskVars
    <3> QED
      BY <1>0, <3>1, FlagsRest
  <2> QED
    BY <2>1, <2>2
<1>3. NotifyInv'
  <2>1. CASE page = "messages"
    <3>1. [NotifyNext]_notifyVars
      BY <2>1 DEF Next, Rest, vars
    <3> QED
      BY <3>1, NotifyNextInv
  <2>2. CASE page # "messages"
    <3>1. /\ sending = [s \in Sender |-> NoSending]
          /\ UNCHANGED <<inbox, updates, messages, confirmed, sending, budget>>
      BY <2>2 DEF PagesRest, Next, Rest, vars, notifyVars
    <3> QED
      BY <1>0, <3>1, MessagesRest
  <2> QED
    BY <2>1, <2>2
<1>4. ViewsInv'
  <2>1. [ViewsNext]_viewVars
    BY DEF Next, Rest, vars
  <2> QED
    BY <2>1, ViewsNextInv
<1>5. AnalyticsInv'
  <2>1. AnalyticsNext \/ UNCHANGED dealVars
    BY DEF Next, Rest, vars
  <2> QED
    BY <1>0, <2>1, AnalyticsNextInv, UsersSwitched
<1>6. SeedInv'
  <2>1. [SeedNext]_seedVars
    BY DEF Next, Rest, vars
  <2> QED
    BY <2>1, SeedInvStep
<1>7. ForecastInv'
  <2>1. [ForecastNext]_chart
    BY DEF Next, Rest, vars
  <2> QED
    BY <2>1, ForecastNextInv
<1>8. ScriptsInv'
  <2>1. [ScriptsNext]_scriptVars
    BY DEF Next, Rest, vars
  <2> QED
    BY <2>1, ScriptsNextInv
<1>9. PagesRest'
  BY DEF PagesRest, Next, Rest, vars, riskVars, notifyVars
<1> QED
  BY <1>1, <1>2, <1>3, <1>4, <1>5, <1>6, <1>7, <1>8, <1>9

\* What the theorems below rest on.
THEOREM ConsoleInvariant == Spec => []ConsoleInv
BY ConsoleInitInv, ConsoleNextInv, PTL DEF Spec

\* A walk through the pages of any list, with any limit and over a table of any size:
\* but for rows that a page parts from others of their created_at, it shows every
\* row that was in the list all along, if none has left, and none twice, if no row
\* has come since it began.
THEOREM WalksComplete == Spec => []WalkComplete
<1>1. ConsoleInv => WalkComplete
  BY DEF ConsoleInv, ListInv, WalkComplete
<1> QED
  BY ConsoleInvariant, <1>1, PTL

\* Of any number of admins who resolve one flag, one is told that it was they, and
\* the row names them for good.
THEOREM FlagsResolvedOnce == Spec => []ResolvedOnce
<1>1. ConsoleInv => ResolvedOnce
  BY RiskInvImplies DEF ConsoleInv
<1> QED
  BY ConsoleInvariant, <1>1, PTL

\* What the figures are of, if their queries saw the same flags: flagged_users is a
\* number of users exactly when nobody has open flags of two severities, and
\* accounts_banned that of the banned exactly when no banned user has flags that the
\* order of their names puts wrong.
THEOREM FlagsAgreed == Spec => []FlagsAgree
<1>1. ConsoleInv => FlagsAgree
  BY RiskInvImplies DEF ConsoleInv
<1> QED
  BY ConsoleInvariant, <1>1, PTL

\* Whatever is announced or confirmed to a user has been written, and a broadcast
\* goes to everyone who was active all along and to no one who never was.
THEOREM MessagesArrive == Spec => []SentArrives
<1>1. ConsoleInv => SentArrives
  BY NotifyInvImplies DEF ConsoleInv
<1> QED
  BY ConsoleInvariant, <1>1, PTL

\* The timeline of a dispute is in order and whole, and the dispute that is shown with
\* an escrow is not behind it, however many disputes are raised, withdrawn and
\* resolved between the two reads.
THEOREM ViewsHold == Spec => []ViewsAgree
<1>1. ConsoleInv => ViewsAgree
  BY ViewsInvImplies DEF ConsoleInv
<1> QED
  BY ConsoleInvariant, <1>1, PTL

\* The figures of an answered report count the money of an escrow that has not moved
\* meanwhile once, for any number of escrows and transfers; one whose dispute was
\* withdrawn is held, and in no figure of the activity.
THEOREM MoneyCounted == Spec => []MoneyCountedOnce
<1>1. ConsoleInv => MoneyCountedOnce
  BY AnalyticsInvImplies DEF ConsoleInv
<1> QED
  BY ConsoleInvariant, <1>1, PTL

\* The forecast of any revenues of any number of months is the line of least squares
\* through them, to the rounding of the amounts that are shown.
THEOREM ForecastIsFitted == Spec => []ForecastFits
<1>1. ConsoleInv => ForecastFits
  BY ForecastFitsInv DEF ConsoleInv
<1> QED
  BY ConsoleInvariant, <1>1, PTL

\* The table of migrations tells what the schema holds, for any files and any number
\* of scripts at once, unless a run and a rollback have been under way together.
THEOREM TrackingKept == Spec => []TrackingTells
<1>1. ConsoleInv => TrackingTells
  BY DEF ConsoleInv, ScriptsInv
<1> QED
  BY ConsoleInvariant, <1>1, PTL

\* Every seed that ends well leaves the Super Admin role with all that it lists,
\* and the bootstrap account, whatever seeds run beside it or have failed.
THEOREM SeedsComplete == Spec => []SeedComplete
<1>1. ConsoleInv => SeedComplete
  BY DEF ConsoleInv, SeedInv
<1> QED
  BY ConsoleInvariant, <1>1, PTL

\* The state of every page and command has its type.
THEOREM ConsoleTypeCorrect == Spec => []TypeOK
<1>1. ConsoleInv => TypeOK
  BY ForecastTyped
     DEF ConsoleInv, PagesRest, TypeOK, ListInv, RiskInv, NotifyInv, ViewsInv, AnalyticsInv, ScriptsInv,
         SeedInv
<1> QED
  BY ConsoleInvariant, <1>1, PTL

=============================================================================
