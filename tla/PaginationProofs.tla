-------------------------- MODULE PaginationProofs --------------------------
(***************************************************************************)
(* Proofs about Pagination for any set of records, any number of tokens,   *)
(* any page budget and limit, and every service: a loop reads the pages    *)
(* along the chain of tokens, and what it has read is compared with what   *)
(* the service holds, the least set of tokens closed under `next'.         *)
(***************************************************************************)
EXTENDS Pagination, TLAPS, FiniteSetTheorems

Summaries == {"anomalies", "coverage"}
Totals == {"reservations", "reservationCoverage"}

Services == [items : [Tokens -> SUBSET Items], next : [Tokens -> Tokens]]

Types ==
    /\ reader \in Readers /\ service \in Services /\ allowlist \subseteq Items
    /\ page \in Nat /\ token \in Tokens /\ seen \subseteq Tokens \ {0}
    /\ requests \in Nat /\ faulted \in BOOLEAN
    /\ result \in {"none", "ok", "error"}

\* The tokens followed so far, and the ones whose page has been read as long as
\* none has been met twice.
Visited == {0} \cup seen
Read == Visited \ {token}

CountIn(S, i) == Cardinality({t \in S : i \in service.items[t]})
Bag(S) == [i \in Items |-> IF Wanted(i) THEN CountIn(S, i) ELSE 0]

\* The loop is on a chain of tokens it has not met before: the records
\* accumulated are those of the pages read, each page once.
Straight ==
    /\ \A t \in Read : service.next[t] \in Visited \ {0}
    /\ page = Cardinality(Visited)
    /\ reader \notin Totals => values = Bag(Read)
    /\ reader = "accounts" =>
          /\ \A i \in Items : i \in seenItems <=> \E t \in Read : i \in service.items[t]
          /\ \A i \in Items : \A s, t \in Read :
                i \in service.items[s] /\ i \in service.items[t] => s = t
    /\ reader = "budgets" => \A i \in allowlist : values[i] <= 1

\* The loop goes round in a circle, which only the loops without seenTokens do:
\* no token it has met is the last one.
Circular ==
    /\ reader \in Summaries \cup Totals
    /\ \A t \in Visited : service.next[t] \in Visited \ {0}

Reading ==
    /\ 1 <= page /\ page <= MaxPages + 1 /\ requests = page - 1 /\ ~faulted
    /\ token \in Visited /\ Visited \subseteq Reach
    /\ Straight \/ Circular
    /\ reader \in Totals => IF page = 1 THEN token = 0 /\ values = [i \in Items |-> 0]
                            ELSE values = Expected

Answered ==
    /\ requests <= MaxPages
    /\ result = "ok" => WithinBounds /\ values = Expected
    /\ result = "error" /\ ~faulted => ~WithinBounds

IInv == Types /\ (IF result = "none" THEN Reading ELSE Answered)

-----------------------------------------------------------------------------
(* What the service holds. *)

\* There are LastToken + 1 tokens.
LEMMA TokensFinite == /\ 0 \in Tokens /\ Tokens \subseteq Nat
                      /\ IsFiniteSet(Tokens) /\ Cardinality(Tokens) = LastToken + 1
BY PaginationAssumption, FS_Interval DEF Tokens

\* Reach is closed under `next' and the least such set.
LEMMA ReachClosed ==
  ASSUME service \in Services
  PROVE  Closed(Reach) /\ Reach \subseteq Tokens /\ IsFiniteSet(Reach)
<1>1. Reach \subseteq Tokens
  BY DEF Reach
<1>2. 0 \in Reach
  BY TokensFinite DEF Reach, Closed
<1>3. ASSUME NEW t \in Reach PROVE service.next[t] \in Reach
  <2>1. service.next[t] \in Tokens
    BY <1>1 DEF Services
  <2>2. ASSUME NEW S \in SUBSET Tokens, Closed(S) PROVE service.next[t] \in S
    <3>1. t \in S
      BY <2>2 DEF Reach
    <3>2. QED
      BY <3>1, <2>2 DEF Closed
  <2>3. QED
    BY <2>1, <2>2 DEF Reach
<1>4. QED
  BY <1>1, <1>2, <1>3, TokensFinite, FS_Subset DEF Closed

\* A closed set of tokens contains every reachable one.
LEMMA ReachLeast ==
  ASSUME NEW S \in SUBSET Tokens, Closed(S)
  PROVE  Reach \subseteq S
BY DEF Reach

\* A closed set of tokens none of which is the last one: the chain is endless.
LEMMA Endless ==
  ASSUME NEW S \in SUBSET Tokens, 0 \in S, \A t \in S : service.next[t] \in S \ {0}
  PROVE  ~Finite
<1>1. Reach \subseteq S
  BY ReachLeast DEF Closed
<1>2. QED
  BY <1>1 DEF Finite

-----------------------------------------------------------------------------
(* Counting records. *)

\* A set of tokens holds finitely many copies of a record, at most one a page.
LEMMA CountType ==
  ASSUME NEW S \in SUBSET Tokens, NEW i
  PROVE  /\ IsFiniteSet({t \in S : i \in service.items[t]})
         /\ CountIn(S, i) \in Nat /\ CountIn(S, i) <= LastToken + 1
<1>1. {t \in S : i \in service.items[t]} \in SUBSET Tokens
  OBVIOUS
<1>2. IsFiniteSet({t \in S : i \in service.items[t]}) /\ CountIn(S, i) <= LastToken + 1
  BY <1>1, TokensFinite, FS_Subset DEF CountIn
<1>3. QED
  BY <1>2, FS_CardinalityType DEF CountIn

\* One more page counts each of its records once more.
LEMMA CountAdd ==
  ASSUME NEW S \in SUBSET Tokens, NEW t \in Tokens, t \notin S, NEW i
  PROVE  CountIn(S \cup {t}, i) = IF i \in service.items[t] THEN CountIn(S, i) + 1 ELSE CountIn(S, i)
<1> DEFINE A == {u \in S : i \in service.items[u]}
<1>1. CASE i \in service.items[t]
  <2>1. {u \in S \cup {t} : i \in service.items[u]} = A \cup {t} /\ t \notin A
    BY <1>1
  <2>2. IsFiniteSet(A)
    BY CountType
  <2>3. Cardinality(A \cup {t}) = Cardinality(A) + 1
    BY <2>1, <2>2, FS_AddElement
  <2>4. QED
    BY <1>1, <2>1, <2>3 DEF CountIn
<1>2. CASE i \notin service.items[t]
  <2>1. {u \in S \cup {t} : i \in service.items[u]} = A
    BY <1>2
  <2>2. QED
    BY <1>2, <2>1 DEF CountIn
<1>3. QED
  BY <1>1, <1>2

\* More pages hold no fewer copies of a record.
LEMMA CountMonotone ==
  ASSUME NEW T \in SUBSET Tokens, NEW S \in SUBSET T, NEW i
  PROVE  CountIn(S, i) <= CountIn(T, i)
<1>1. {t \in S : i \in service.items[t]} \in SUBSET {t \in T : i \in service.items[t]}
  OBVIOUS
<1>2. IsFiniteSet({t \in T : i \in service.items[t]})
  BY CountType
<1>3. QED
  BY <1>1, <1>2, FS_Subset DEF CountIn

\* A record that two of the pages hold counts more than once; one that no two
\* pages share, at most once.
LEMMA AtMostOne ==
  ASSUME NEW S \in SUBSET Tokens, NEW i,
         \A s, t \in S : i \in service.items[s] /\ i \in service.items[t] => s = t
  PROVE  CountIn(S, i) <= 1
<1> DEFINE A == {t \in S : i \in service.items[t]}
<1>1. A = {} \/ \E t : A = {t}
  OBVIOUS
<1>2. IsFiniteSet(A)
  BY CountType
<1>3. Cardinality(A) = 0 \/ Cardinality(A) = 1
  BY <1>1, <1>2, FS_EmptySet, FS_Singleton
<1>4. QED
  BY <1>3 DEF CountIn

\* A page that holds a record is counted.
LEMMA AtLeastOne ==
  ASSUME NEW S \in SUBSET Tokens, NEW t \in S, NEW i, i \in service.items[t]
  PROVE  CountIn(S, i) >= 1
<1> DEFINE A == {u \in S : i \in service.items[u]}
<1>1. IsFiniteSet(A) /\ A # {}
  BY CountType
<1>2. Cardinality(A) # 0
  BY <1>1, FS_EmptySet
<1>3. CountIn(S, i) # 0
  BY <1>2 DEF CountIn
<1>4. CountIn(S, i) \in Nat
  BY CountType
<1>5. QED
  BY <1>3, <1>4

\* What a bag of pages holds of a record.
LEMMA BagValue ==
  ASSUME NEW S \in SUBSET Tokens, NEW i \in Items
  PROVE  /\ Bag(S)[i] = IF Wanted(i) THEN CountIn(S, i) ELSE 0
         /\ Bag(S)[i] \in Nat /\ Bag(S)[i] <= LastToken + 1
<1>1. Bag(S)[i] = IF Wanted(i) THEN CountIn(S, i) ELSE 0
  BY DEF Bag
<1>2. CountIn(S, i) \in Nat /\ CountIn(S, i) <= LastToken + 1
  BY CountType
<1>3. 0 <= LastToken + 1
  BY PaginationAssumption
<1>4. QED
  BY <1>1, <1>2, <1>3

\* Size is monotone on the bags of pages.
LEMMA SizeMonotone ==
  ASSUME NEW T \in SUBSET Tokens, NEW S \in SUBSET T
  PROVE  Size(Bag(S)) \in Nat /\ Size(Bag(T)) \in Nat /\ Size(Bag(S)) <= Size(Bag(T))
<1> DEFINE Copies(b) == UNION {{i} \X (1..b[i]) : i \in Items}
<1>1. ASSUME NEW U \in SUBSET Tokens PROVE IsFiniteSet(Copies(Bag(U)))
  <2>1. \A i \in Items : Bag(U)[i] \in Nat /\ Bag(U)[i] <= LastToken + 1
    BY BagValue
  <2>2. Copies(Bag(U)) \in SUBSET (Items \X (1..(LastToken + 1)))
    <3>1. ASSUME NEW i \in Items PROVE {i} \X (1..Bag(U)[i]) \subseteq Items \X (1..(LastToken + 1))
      BY <2>1, PaginationAssumption
    <3>2. QED
      BY <3>1
  <2>3. IsFiniteSet(Items \X (1..(LastToken + 1)))
    <3>1. IsFiniteSet(1..(LastToken + 1))
      BY PaginationAssumption, FS_Interval
    <3>2. QED
      BY <3>1, PaginationAssumption, FS_Product
  <2>4. QED
    BY <2>2, <2>3, FS_Subset
<1>2. Copies(Bag(S)) \in SUBSET Copies(Bag(T))
  <2>1. ASSUME NEW i \in Items PROVE {i} \X (1..Bag(S)[i]) \subseteq {i} \X (1..Bag(T)[i])
    <3>1. /\ Bag(S)[i] \in Nat /\ Bag(T)[i] \in Nat /\ Bag(S)[i] <= Bag(T)[i]
      <4>1. S \in SUBSET Tokens
        OBVIOUS
      <4>2. CountIn(S, i) <= CountIn(T, i)
        BY CountMonotone
      <4>3. QED
        BY <4>1, <4>2, BagValue
    <3>2. QED
      BY <3>1
  <2>2. QED
    BY <2>1
<1>3. S \in SUBSET Tokens
  OBVIOUS
<1>4. QED
  BY <1>1, <1>2, <1>3, FS_Subset, FS_CardinalityType DEF Size

-----------------------------------------------------------------------------
(* What a loop knows while it reads. *)

\* Outside the totals, the expected result is the bag of all reachable pages.
LEMMA ExpectedIsBag == reader \notin Totals => Expected = Bag(Reach)
BY DEF Expected, Bag, Count, CountIn, Totals

\* While a loop reads, the pages it has read and the one it asks for are tokens,
\* and what follows is reachable.
LEMMA VisitedFacts ==
  ASSUME Types, Reading
  PROVE  /\ Visited \in SUBSET Tokens /\ IsFiniteSet(Visited) /\ 0 \in Visited
         /\ Read \in SUBSET Tokens /\ token \notin Read /\ Visited = Read \cup {token}
         /\ NextToken \in Tokens /\ NextToken \in Reach
<1>1. Visited \in SUBSET Tokens /\ 0 \in Visited
  BY TokensFinite DEF Types, Visited
<1>2. IsFiniteSet(Visited)
  BY <1>1, TokensFinite, FS_Subset
<1>3. Read \in SUBSET Tokens /\ token \notin Read /\ Visited = Read \cup {token}
  BY <1>1 DEF Read, Reading
<1>4. token \in Reach
  BY DEF Reading
<1>5. NextToken \in Tokens /\ NextToken \in Reach
  BY <1>4, ReachClosed DEF NextToken, Closed, Types, Services
<1>6. QED
  BY <1>1, <1>2, <1>3, <1>5

\* The records wanted of the page asked for complete the bag of the pages met.
LEMMA PageCounted ==
  ASSUME Types, Reading, Straight, reader \notin Totals
  PROVE  Plus({i \in Answer : Wanted(i)}) = Bag(Visited)
<1>1. /\ Read \in SUBSET Tokens /\ token \notin Read /\ Visited = Read \cup {token}
      /\ token \in Tokens /\ Visited \in SUBSET Tokens
  BY VisitedFacts DEF Types
<1>2. values = Bag(Read)
  BY DEF Straight
<1>3. ASSUME NEW i \in Items
      PROVE  Bag(Visited)[i] = IF i \in {k \in Answer : Wanted(k)} THEN values[i] + 1 ELSE values[i]
  <2>1. CountIn(Visited, i) = IF i \in service.items[token] THEN CountIn(Read, i) + 1
                              ELSE CountIn(Read, i)
    BY <1>1, CountAdd
  <2>2. values[i] = IF Wanted(i) THEN CountIn(Read, i) ELSE 0
    BY <1>1, <1>2, BagValue
  <2>3. Bag(Visited)[i] = IF Wanted(i) THEN CountIn(Visited, i) ELSE 0
    BY <1>1, BagValue
  <2>4. QED
    BY <2>1, <2>2, <2>3 DEF Answer
<1>4. Bag(Visited) = [i \in Items |-> Bag(Visited)[i]]
  BY DEF Bag
<1>5. QED
  BY <1>3, <1>4 DEF Plus

\* The page without a next token is the last one of the service's result.
LEMMA LastPage ==
  ASSUME Types, Reading, NextToken = 0
  PROVE  Straight /\ Reach = Visited /\ Finite /\ Cardinality(Reach) = page
<1>1. Straight
  BY DEF Reading, Circular, NextToken
<1>2. Closed(Visited)
  BY <1>1, VisitedFacts DEF Closed, Straight, NextToken
<1>3. Reach = Visited
  BY <1>2, VisitedFacts, ReachLeast DEF Reading
<1>4. Finite
  BY <1>3 DEF Finite, Reading, NextToken
<1>5. QED
  BY <1>1, <1>3, <1>4 DEF Straight

\* A token met before proves that the chain never ends.
LEMMA Repeated ==
  ASSUME Types, Reading, NextToken # 0, NextToken \in Visited
  PROVE  ~Finite /\ \A t \in Visited : service.next[t] \in Visited \ {0}
<1>1. \A t \in Visited : service.next[t] \in Visited \ {0}
  BY VisitedFacts DEF Reading, Straight, Circular, NextToken
<1>2. QED
  BY <1>1, VisitedFacts, Endless

\* A token not met before is one more page of the result.
LEMMA OneMore ==
  ASSUME Types, Reading, NextToken \notin Visited
  PROVE  /\ Straight
         /\ Cardinality(Visited \cup {NextToken}) = page + 1
         /\ page + 1 <= Cardinality(Reach)
<1>1. Straight
  BY DEF Reading, Circular, NextToken
<1>2. Cardinality(Visited \cup {NextToken}) = page + 1
  BY <1>1, VisitedFacts, FS_AddElement DEF Straight
<1>3. Visited \cup {NextToken} \in SUBSET Reach /\ IsFiniteSet(Reach)
  BY VisitedFacts, ReachClosed DEF Reading, Types
<1>4. Cardinality(Visited \cup {NextToken}) <= Cardinality(Reach)
  BY <1>3, FS_Subset
<1>5. QED
  BY <1>1, <1>2, <1>4

\* The number of reachable pages is a number.
LEMMA ReachSize == ASSUME Types PROVE Cardinality(Reach) \in Nat
BY ReachClosed, FS_CardinalityType DEF Types

\* A page beyond the budget: the result does not fit it, or never ends.
LEMMA OverBudget ==
  ASSUME Types, Reading, page > MaxPages
  PROVE  ~WithinBounds
<1>1. CASE Straight
  <2>1. Visited \in SUBSET Reach /\ IsFiniteSet(Reach)
    BY ReachClosed DEF Reading, Types
  <2>2. page <= Cardinality(Reach)
    BY <1>1, <2>1, FS_Subset DEF Straight
  <2>3. QED
    BY <2>2, ReachSize, PaginationAssumption DEF WithinBounds, Types
<1>2. CASE Circular
  BY <1>2, VisitedFacts, Endless DEF Circular, WithinBounds
<1>3. QED
  BY <1>1, <1>2 DEF Reading

\* The last page of the budget with a next token: likewise.
LEMMA LastOfBudget ==
  ASSUME Types, Reading, NextToken # 0, page = MaxPages
  PROVE  ~WithinBounds
<1>1. CASE NextToken \in Visited
  BY <1>1, Repeated DEF WithinBounds
<1>2. CASE NextToken \notin Visited
  <2>1. page + 1 <= Cardinality(Reach)
    BY <1>2, OneMore
  <2>2. QED
    BY <2>1, ReachSize, PaginationAssumption DEF WithinBounds, Types
<1>3. QED
  BY <1>1, <1>2

\* A wanted record counted so far is counted at least as often in the result.
LEMMA ResultCounts ==
  ASSUME Types, Reading, NEW i
  PROVE  /\ CountIn(Visited, i) \in Nat /\ Count(i) \in Nat
         /\ CountIn(Visited, i) <= Count(i) /\ Count(i) = CountIn(Reach, i)
<1>1. Visited \in SUBSET Reach /\ Reach \in SUBSET Tokens /\ Visited \in SUBSET Tokens
  BY ReachClosed, VisitedFacts DEF Reading, Types
<1>2. Count(i) = CountIn(Reach, i)
  BY DEF Count, CountIn
<1>3. CountIn(Visited, i) <= CountIn(Reach, i)
  BY <1>1, CountMonotone
<1>4. CountIn(Visited, i) \in Nat /\ CountIn(Reach, i) \in Nat
  BY <1>1, CountType
<1>5. QED
  BY <1>2, <1>3, <1>4

\* The records read so far are no more than the result holds.
LEMMA ResultSize ==
  ASSUME Types, Reading, reader \notin Totals
  PROVE  /\ Size(Bag(Visited)) \in Nat /\ Size(Expected) \in Nat
         /\ Size(Bag(Visited)) <= Size(Expected)
<1>1. Visited \in SUBSET Reach /\ Reach \in SUBSET Tokens
  BY ReachClosed DEF Reading, Types
<1>2. QED
  BY <1>1, SizeMonotone, ExpectedIsBag

-----------------------------------------------------------------------------
(* The steps. *)

\* The reference depends on the inputs alone, which no step changes.
LEMMA InputsFrame ==
  ASSUME UNCHANGED inputs
  PROVE  /\ Reach' = Reach /\ Expected' = Expected /\ (WithinBounds' <=> WithinBounds)
         /\ \A S : Bag(S)' = Bag(S)
<1> USE DEF inputs
<1>1. Reach' = Reach
  BY DEF Reach, Closed
<1>2. /\ \A i : (Wanted(i)' <=> Wanted(i)) /\ Count(i)' = Count(i)
      /\ Expected' = Expected /\ (Finite' <=> Finite)
  BY <1>1 DEF Wanted, Count, Expected, Finite
<1>3. \A S : Bag(S)' = Bag(S)
  BY <1>2 DEF Bag, CountIn
<1>4. WithinBounds' <=> WithinBounds
  BY <1>1, <1>2 DEF WithinBounds
<1>5. QED
  BY <1>1, <1>2, <1>3, <1>4

\* The loop ends with an answer that the result justifies.
LEMMA Ended ==
  ASSUME Types, Reading, page <= MaxPages, UNCHANGED inputs,
         NEW answer \in {"ok", "error"}, Ends(answer),
         requests' = requests + 1, faulted' \in BOOLEAN,
         answer = "ok" => WithinBounds /\ values' = Expected,
         answer = "error" /\ ~faulted' => ~WithinBounds
  PROVE  IInv'
<1>1. Types'
  BY DEF Types, Ends, inputs
<1>2. requests' <= MaxPages
  BY PaginationAssumption DEF Types, Reading
<1>3. Answered' /\ result' # "none"
  BY <1>2, InputsFrame DEF Answered, Ends
<1>4. QED
  BY <1>1, <1>3 DEF IInv

\* The loop follows the next token.
LEMMA Followed ==
  ASSUME Types, Reading, result = "none", page <= MaxPages, UNCHANGED inputs,
         Follow, NextToken # 0, requests' = requests + 1, faulted' = faulted,
         reader \notin Summaries \cup Totals => NextToken \notin seen,
         Straight /\ reader \notin Totals => values' = Bag(Visited),
         reader \in Totals => values' = Expected,
         reader = "accounts" => Answer \cap seenItems = {} /\ seenItems' = seenItems \cup Answer,
         reader = "budgets" => \A i \in allowlist : values'[i] <= 1
  PROVE  IInv'
<1>1. Types'
  <2>1. NextToken \in Tokens
    BY VisitedFacts
  <2>2. page' \in Nat /\ token' \in Tokens /\ seen' \subseteq Tokens \ {0} /\ result' = result
    BY <2>1 DEF Types, Follow
  <2>3. QED
    BY <2>2 DEF Types, inputs
<1>2. Visited' = Visited \cup {NextToken} /\ token' = NextToken /\ page' = page + 1
  BY DEF Follow, Visited
<1>3. token' \in Visited' /\ Visited' \subseteq Reach'
  BY <1>2, VisitedFacts, InputsFrame DEF Reading
<1>4. /\ 1 <= page' /\ page' <= MaxPages + 1 /\ requests' = page' - 1 /\ ~faulted' /\ page' # 1
  BY <1>2, PaginationAssumption DEF Reading, Types
<1>5. service' = service /\ reader' = reader /\ allowlist' = allowlist
  BY DEF inputs
<1>6. CASE NextToken \in Visited
  <2>1. Visited' = Visited
    BY <1>2, <1>6
  <2>2. reader \in Summaries \cup Totals
    BY <1>6 DEF Visited
  <2>3. Circular'
    BY <1>5, <1>6, <2>1, <2>2, Repeated DEF Circular
  <2>4. Reading'
    BY <1>3, <1>4, <1>5, <2>3, InputsFrame DEF Reading
  <2>5. QED
    BY <1>1, <2>4 DEF IInv, Follow
<1>7. CASE NextToken \notin Visited
  <2>1. Straight /\ Cardinality(Visited') = page'
    BY <1>2, <1>7, OneMore
  <2>2. Read' = Visited
    BY <1>2, <1>7 DEF Read
  <2>3. \A t \in Visited : service.next[t] \in Visited' \ {0}
    <3>1. service.next[token] \in Visited' \ {0}
      BY <1>2 DEF NextToken
    <3>2. \A t \in Read : service.next[t] \in Visited' \ {0}
      BY <1>2, <2>1 DEF Straight
    <3>3. QED
      BY <3>1, <3>2 DEF Read
  <2>4. reader \notin Totals => values' = Bag(Read)'
    BY <2>1, <2>2, InputsFrame
  <2>5. ASSUME reader = "accounts"
        PROVE  /\ \A i \in Items : i \in seenItems' <=> \E t \in Visited : i \in service.items[t]
               /\ \A i \in Items : \A u, t \in Visited :
                     i \in service.items[u] /\ i \in service.items[t] => u = t
    <3>1. /\ \A i \in Items : i \in seenItems <=> \E t \in Read : i \in service.items[t]
          /\ \A i \in Items : \A u, t \in Read :
                i \in service.items[u] /\ i \in service.items[t] => u = t
      BY <2>1, <2>5 DEF Straight
    <3>2. Visited = Read \cup {token} /\ Answer = service.items[token]
      BY VisitedFacts DEF Answer
    <3>3. Answer \cap seenItems = {} /\ seenItems' = seenItems \cup Answer
      BY <2>5
    <3>4. \A i \in Items : i \in seenItems' <=> \E t \in Visited : i \in service.items[t]
      BY <3>1, <3>2, <3>3
    <3>5. ASSUME NEW i \in Items, NEW u \in Visited, NEW t \in Visited,
                 i \in service.items[u], i \in service.items[t]
          PROVE  u = t
      BY <3>1, <3>2, <3>3, <3>5
    <3>6. QED
      BY <3>4, <3>5
  <2>6. Straight'
    BY <1>2, <1>5, <2>1, <2>2, <2>3, <2>4, <2>5 DEF Straight
  <2>7. Reading'
    BY <1>3, <1>4, <1>5, <2>6, InputsFrame DEF Reading
  <2>8. QED
    BY <1>1, <2>7 DEF IInv, Follow
<1>8. QED
  BY <1>6, <1>7

\* A repeated token refused: the result has no end.
LEMMA RepeatRefused ==
  ASSUME Types, Reading, NextToken # 0, NextToken \in seen
  PROVE  ~WithinBounds
BY Repeated DEF Visited, WithinBounds

\* Readers that take every record of a page.
LEMMA AllWanted ==
  ASSUME reader \notin {"accounts", "budgets"}
  PROVE  {i \in Answer : Wanted(i)} = Answer
BY DEF Wanted

\* UsagePaginator.Read: what it accumulates, accepts and refuses is justified.
LEMMA UsageStep == Types /\ Reading /\ UsagePage => IInv'
<1> SUFFICES ASSUME Types, Reading, UsagePage PROVE IInv'
  OBVIOUS
<1>1. /\ reader = "usage" /\ result = "none" /\ page <= MaxPages /\ requests' = requests + 1
      /\ values' = Plus(Answer) /\ UNCHANGED inputs /\ faulted' = faulted
  BY DEF UsagePage, Request
<1>2. reader \notin Totals /\ reader \notin Summaries /\ reader \notin {"accounts", "budgets"}
  BY <1>1 DEF Totals, Summaries
<1>3. Straight => values' = Bag(Visited)
  BY <1>1, <1>2, PageCounted, AllWanted
<1>4. CASE NextToken = 0
  <2>1. Ends("ok")
    BY <1>4 DEF UsagePage
  <2>2. values' = Expected /\ WithinBounds
    BY <1>1, <1>2, <1>3, <1>4, LastPage, ExpectedIsBag DEF WithinBounds
  <2>3. QED
    BY <1>1, <2>1, <2>2, Ended DEF Types
<1>5. CASE NextToken # 0 /\ NextToken \in seen
  <2>1. Ends("error")
    BY <1>5 DEF UsagePage, FollowNew
  <2>2. QED
    BY <1>1, <1>5, <2>1, RepeatRefused, Ended DEF Types
<1>6. CASE NextToken # 0 /\ NextToken \notin seen
  <2>1. Follow
    BY <1>6 DEF UsagePage, FollowNew
  <2>2. QED
    BY <1>1, <1>2, <1>3, <1>6, <2>1, Followed
<1>7. QED
  BY <1>4, <1>5, <1>6

\* ReadAnomalySummary and readSavingsCoverage.
LEMMA SummaryStep ==
  ASSUME NEW r \in Summaries, Types, Reading, SummaryPage(r)
  PROVE  IInv'
<1>1. /\ reader = r /\ result = "none" /\ page <= MaxPages /\ requests' = requests + 1
      /\ values' = Plus(Answer) /\ UNCHANGED inputs /\ faulted' = faulted
  BY DEF SummaryPage, Request
<1>2. /\ reader \notin Totals /\ reader \in Summaries
      /\ reader \notin {"accounts", "budgets", "results"}
  BY <1>1 DEF Totals, Summaries
<1>3. Straight => values' = Bag(Visited)
  BY <1>1, <1>2, PageCounted, AllWanted
<1>4. CASE LastPageRefused
  <2>1. Ends("error") /\ ~WithinBounds
    BY <1>4, LastOfBudget DEF SummaryPage, LastPageRefused
  <2>2. QED
    BY <1>1, <2>1, Ended DEF Types
<1>5. CASE ~LastPageRefused /\ NextToken = 0
  <2>1. Ends("ok")
    BY <1>5 DEF SummaryPage
  <2>2. values' = Expected /\ WithinBounds
    BY <1>1, <1>2, <1>3, <1>5, LastPage, ExpectedIsBag DEF WithinBounds
  <2>3. QED
    BY <1>1, <2>1, <2>2, Ended DEF Types
<1>6. CASE ~LastPageRefused /\ NextToken # 0
  <2>1. Follow
    BY <1>6 DEF SummaryPage
  <2>2. QED
    BY <1>1, <1>2, <1>3, <1>6, <2>1, Followed
<1>7. QED
  BY <1>4, <1>5, <1>6

\* readReservations and readReservationCoverage: the total of the first page.
LEMMA TotalStep ==
  ASSUME NEW r \in Totals, Types, Reading, TotalPage(r)
  PROVE  IInv'
<1>1. /\ reader = r /\ result = "none" /\ page <= MaxPages /\ requests' = requests + 1
      /\ values' = IF page = 1 THEN Plus(Answer) ELSE values
      /\ UNCHANGED inputs /\ faulted' = faulted
  BY DEF TotalPage, Request
<1>2. /\ reader \in Totals /\ reader \in Summaries \cup Totals
      /\ reader \notin {"accounts", "budgets", "results"}
  BY <1>1 DEF Totals, Summaries
<1>3. values' = Expected
  <2>1. CASE page = 1
    <3>1. token = 0 /\ values = [i \in Items |-> 0]
      BY <1>2, <2>1 DEF Reading
    <3>2. Plus(Answer) = [i \in Items |-> IF i \in service.items[0] THEN 1 ELSE 0]
      BY <3>1 DEF Plus, Answer
    <3>3. QED
      BY <1>1, <1>2, <2>1, <3>2 DEF Expected, Totals
  <2>2. CASE page # 1
    BY <1>1, <1>2, <2>2 DEF Reading
  <2>3. QED
    BY <2>1, <2>2
<1>4. CASE NextToken = 0
  <2>1. Ends("ok")
    BY <1>4 DEF TotalPage
  <2>2. WithinBounds
    BY <1>1, <1>2, <1>4, LastPage DEF WithinBounds
  <2>3. QED
    BY <1>1, <1>3, <2>1, <2>2, Ended DEF Types
<1>5. CASE NextToken # 0
  <2>1. Follow
    BY <1>5 DEF TotalPage
  <2>2. QED
    BY <1>1, <1>2, <1>3, <1>5, <2>1, Followed
<1>6. QED
  BY <1>4, <1>5

\* results of the Athena reader: the row limit is exact.
LEMMA ResultsStep == Types /\ Reading /\ ResultsPage => IInv'
<1> SUFFICES ASSUME Types, Reading, ResultsPage PROVE IInv'
  OBVIOUS
<1>1. /\ reader = "results" /\ result = "none" /\ page <= MaxPages /\ requests' = requests + 1
      /\ values' = Plus(Answer) /\ UNCHANGED inputs /\ faulted' = faulted
  BY DEF ResultsPage, Request
<1>2. reader \notin Totals /\ reader \notin Summaries /\ reader \notin {"accounts", "budgets"}
  BY <1>1 DEF Totals, Summaries
<1>3. values' = Bag(Visited)
  BY <1>1, <1>2, PageCounted, AllWanted DEF Reading, Circular
<1>4. CASE Size(values') > Limit
  <2>1. Ends("error")
    BY <1>4 DEF ResultsPage
  <2>2. Size(values') <= Size(Expected) /\ Size(Expected) \in Nat /\ Size(values') \in Nat
    BY <1>2, <1>3, ResultSize
  <2>3. ~WithinBounds
    BY <1>1, <1>4, <2>2, PaginationAssumption DEF WithinBounds
  <2>4. QED
    BY <1>1, <2>1, <2>3, Ended DEF Types
<1>5. CASE ~(Size(values') > Limit) /\ NextToken = 0
  <2>1. Ends("ok")
    BY <1>5 DEF ResultsPage
  <2>2. values' = Expected
    BY <1>2, <1>3, <1>5, LastPage, ExpectedIsBag
  <2>3. Size(Expected) <= Limit
    BY <1>2, <1>5, <2>2, ResultSize, PaginationAssumption
  <2>4. WithinBounds
    BY <1>1, <1>5, <2>3, LastPage DEF WithinBounds
  <2>5. QED
    BY <1>1, <2>1, <2>2, <2>4, Ended DEF Types
<1>6. CASE ~(Size(values') > Limit) /\ NextToken # 0 /\ NextToken \in seen
  <2>1. Ends("error")
    BY <1>6 DEF ResultsPage, FollowNew
  <2>2. QED
    BY <1>1, <1>6, <2>1, RepeatRefused, Ended DEF Types
<1>7. CASE ~(Size(values') > Limit) /\ NextToken # 0 /\ NextToken \notin seen
  <2>1. Follow
    BY <1>7 DEF ResultsPage, FollowNew
  <2>2. QED
    BY <1>1, <1>2, <1>3, <1>7, <2>1, Followed
<1>8. QED
  BY <1>4, <1>5, <1>6, <1>7

\* ReadAccounts of Organizations: a repeated account or one selected account
\* too many is refused, and nothing else.
LEMMA AccountsStep == Types /\ Reading /\ AccountsPage => IInv'
<1> SUFFICES ASSUME Types, Reading, AccountsPage PROVE IInv'
  OBVIOUS
<1>1. /\ reader = "accounts" /\ result = "none" /\ page <= MaxPages /\ requests' = requests + 1
      /\ UNCHANGED inputs /\ faulted' = faulted
  BY DEF AccountsPage, Request
<1>2. reader \notin Totals /\ reader \notin Summaries
  BY <1>1 DEF Totals, Summaries
<1>3. Straight
  BY <1>2 DEF Reading, Circular
<1>4. Plus(Selected) = Bag(Visited)
  <2>1. Selected = {i \in Answer : Wanted(i)}
    BY <1>1 DEF Selected, Wanted
  <2>2. QED
    BY <1>2, <1>3, <2>1, PageCounted
<1>5. /\ Visited = Read \cup {token} /\ token \notin Read /\ Read \in SUBSET Tokens
      /\ token \in Tokens /\ Answer = service.items[token] /\ Answer \subseteq Items
  BY VisitedFacts DEF Types, Services, Answer
<1>6. CASE AccountsRefused
  <2>1. Ends("error")
    BY <1>6 DEF AccountsPage
  <2>2. CASE Answer \cap seenItems # {}
    <3>1. PICK i \in Items : i \in Answer /\ i \in seenItems
      BY <1>5, <2>2
    <3>2. PICK t \in Read : i \in service.items[t]
      BY <1>1, <1>3, <3>1 DEF Straight
    <3>3. CountIn(Read, i) >= 1 /\ CountIn(Read, i) \in Nat
      BY <1>5, <3>2, AtLeastOne, CountType
    <3>4. CountIn(Visited, i) = CountIn(Read, i) + 1
      BY <1>5, <3>1, CountAdd
    <3>5. ~(Count(i) <= 1)
      BY <3>3, <3>4, ResultCounts
    <3>6. ~WithinBounds
      BY <1>1, <3>5 DEF WithinBounds
    <3>7. QED
      BY <1>1, <2>1, <3>6, Ended DEF Types
  <2>3. CASE Size(Plus(Selected)) > Limit
    <3>1. ~(Size(Expected) <= Limit)
      BY <1>2, <1>4, <2>3, ResultSize, PaginationAssumption
    <3>2. ~WithinBounds
      BY <1>1, <3>1 DEF WithinBounds
    <3>3. QED
      BY <1>1, <2>1, <3>2, Ended DEF Types
  <2>4. QED
    BY <1>6, <2>2, <2>3 DEF AccountsRefused
<1>7. CASE ~AccountsRefused
  <2>1. /\ values' = Bag(Visited) /\ seenItems' = seenItems \cup Answer
        /\ Answer \cap seenItems = {} /\ ~(Size(Bag(Visited)) > Limit)
    BY <1>4, <1>7 DEF AccountsPage, AccountsRefused
  <2>2. CASE NextToken = 0
    <3>1. Ends("ok")
      BY <1>7, <2>2 DEF AccountsPage
    <3>2. Reach = Visited /\ Finite /\ Cardinality(Reach) = page
      BY <2>2, LastPage
    <3>3. values' = Expected
      BY <1>2, <2>1, <3>2, ExpectedIsBag
    <3>4. Size(Expected) <= Limit
      BY <1>2, <2>1, <3>3, ResultSize, PaginationAssumption
    <3>5. ASSUME NEW i \in Items PROVE Count(i) <= 1
      <4>1. /\ i \in seenItems <=> \E t \in Read : i \in service.items[t]
            /\ \A u, t \in Read : i \in service.items[u] /\ i \in service.items[t] => u = t
        BY <1>1, <1>3 DEF Straight
      <4>2. \A u, t \in Visited : i \in service.items[u] /\ i \in service.items[t] => u = t
        BY <1>5, <2>1, <4>1
      <4>3. CountIn(Visited, i) <= 1
        BY <4>2, VisitedFacts, AtMostOne
      <4>4. QED
        BY <3>2, <4>3, ResultCounts
    <3>6. WithinBounds
      BY <1>1, <3>2, <3>4, <3>5 DEF WithinBounds
    <3>7. QED
      BY <1>1, <3>1, <3>3, <3>6, Ended DEF Types
  <2>3. CASE NextToken # 0 /\ NextToken \in seen
    <3>1. Ends("error")
      BY <1>7, <2>3 DEF AccountsPage, FollowNew
    <3>2. QED
      BY <1>1, <2>3, <3>1, RepeatRefused, Ended DEF Types
  <2>4. CASE NextToken # 0 /\ NextToken \notin seen
    <3>1. Follow
      BY <1>7, <2>4 DEF AccountsPage, FollowNew
    <3>2. QED
      BY <1>1, <1>2, <2>1, <2>4, <3>1, Followed
  <2>5. QED
    BY <2>2, <2>3, <2>4
<1>8. QED
  BY <1>6, <1>7

\* ReadBudgets: a budget wanted is returned once, neither missing nor repeated.
LEMMA BudgetsStep == Types /\ Reading /\ BudgetsPage => IInv'
<1> SUFFICES ASSUME Types, Reading, BudgetsPage PROVE IInv'
  OBVIOUS
<1>1. /\ reader = "budgets" /\ result = "none" /\ page <= MaxPages /\ requests' = requests + 1
      /\ UNCHANGED inputs /\ faulted' = faulted
  BY DEF BudgetsPage, Request
<1>2. reader \notin Totals /\ reader \notin Summaries
  BY <1>1 DEF Totals, Summaries
<1>3. Straight
  BY <1>2 DEF Reading, Circular
<1>4. Plus(Answer \cap allowlist) = Bag(Visited)
  <2>1. Answer \cap allowlist = {i \in Answer : Wanted(i)}
    BY <1>1 DEF Wanted
  <2>2. QED
    BY <1>2, <1>3, <2>1, PageCounted
<1>5. /\ Visited = Read \cup {token} /\ token \notin Read /\ Read \in SUBSET Tokens
      /\ Visited \in SUBSET Tokens
      /\ token \in Tokens /\ Answer = service.items[token] /\ allowlist \subseteq Items
  BY VisitedFacts DEF Types, Answer
<1>6. ASSUME NEW i \in allowlist
      PROVE  /\ values[i] = CountIn(Read, i) /\ Bag(Visited)[i] = CountIn(Visited, i)
             /\ CountIn(Read, i) \in Nat /\ CountIn(Visited, i) \in Nat /\ values[i] <= 1
             /\ CountIn(Visited, i) = IF i \in Answer THEN values[i] + 1 ELSE values[i]
  <2>1. Wanted(i) /\ i \in Items
    BY <1>1, <1>5, <1>6 DEF Wanted
  <2>2. values[i] = CountIn(Read, i) /\ values[i] <= 1
    BY <1>1, <1>2, <1>3, <1>5, <2>1, BagValue DEF Straight
  <2>3. Bag(Visited)[i] = CountIn(Visited, i)
    BY <1>5, <2>1, BagValue
  <2>4. CountIn(Visited, i) = IF i \in Answer THEN CountIn(Read, i) + 1 ELSE CountIn(Read, i)
    BY <1>5, CountAdd
  <2>5. CountIn(Read, i) \in Nat /\ CountIn(Visited, i) \in Nat
    BY <1>5, CountType
  <2>6. QED
    BY <2>2, <2>3, <2>4, <2>5
<1>7. CASE \E i \in Answer \cap allowlist : values[i] > 0
  <2>1. Ends("error")
    <3>1. ~(\A i \in Answer \cap allowlist : values[i] = 0)
      BY <1>7
    <3>2. QED
      BY <3>1 DEF BudgetsPage
  <2>2. PICK i \in Answer \cap allowlist : values[i] > 0
    BY <1>7
  <2>3. CountIn(Visited, i) > 1
    BY <1>6, <2>2
  <2>4. Count(i) # 1
    BY <2>3, ResultCounts
  <2>5. ~WithinBounds
    BY <1>1, <2>2, <2>4 DEF WithinBounds
  <2>6. QED
    BY <1>1, <2>1, <2>5, Ended DEF Types
<1>8. CASE ~\E i \in Answer \cap allowlist : values[i] > 0
  <2>1. values' = Bag(Visited)
    BY <1>4, <1>8 DEF BudgetsPage
  <2>2. ASSUME NEW i \in allowlist
        PROVE  values'[i] = CountIn(Visited, i) /\ values'[i] \in Nat /\ values'[i] <= 1
    <3>1. i \in Answer => ~(values[i] > 0)
      BY <1>8
    <3>2. QED
      BY <1>6, <2>1, <3>1
  <2>3. CASE NextToken = 0
    <3>1. Reach = Visited /\ Finite /\ Cardinality(Reach) = page
      BY <2>3, LastPage
    <3>2. values' = Expected
      BY <1>2, <2>1, <3>1, ExpectedIsBag
    <3>3. \A i \in allowlist : Count(i) = values'[i]
      BY <2>2, <3>1, ResultCounts
    <3>4. CASE \A i \in allowlist : values'[i] > 0
      <4>1. Ends("ok")
        BY <1>8, <2>3, <3>4 DEF BudgetsPage
      <4>2. \A i \in allowlist : Count(i) = 1
        BY <2>2, <3>3, <3>4
      <4>3. WithinBounds
        BY <1>1, <3>1, <4>2 DEF WithinBounds
      <4>4. QED
        BY <1>1, <3>2, <4>1, <4>3, Ended DEF Types
    <3>5. CASE ~\A i \in allowlist : values'[i] > 0
      <4>1. Ends("error")
        BY <1>8, <2>3, <3>5 DEF BudgetsPage
      <4>2. ~WithinBounds
        BY <1>1, <3>3, <3>5 DEF WithinBounds
      <4>3. QED
        BY <1>1, <4>1, <4>2, Ended DEF Types
    <3>6. QED
      BY <3>4, <3>5
  <2>4. CASE NextToken # 0 /\ NextToken \in seen
    <3>1. Ends("error")
      BY <1>8, <2>4 DEF BudgetsPage, FollowNew
    <3>2. QED
      BY <1>1, <2>4, <3>1, RepeatRefused, Ended DEF Types
  <2>5. CASE NextToken # 0 /\ NextToken \notin seen
    <3>1. Follow
      BY <1>8, <2>5 DEF BudgetsPage, FollowNew
    <3>2. QED
      BY <1>1, <1>2, <2>1, <2>2, <2>5, <3>1, Followed
  <2>6. QED
    BY <2>3, <2>4, <2>5
<1>9. QED
  BY <1>7, <1>8

-----------------------------------------------------------------------------
\* The initial state satisfies the inductive invariant.
LEMMA InitIInv == Init => IInv
<1> SUFFICES ASSUME Init PROVE IInv
  OBVIOUS
<1>1. Types
  BY TokensFinite DEF Init, Types, Services
<1>2. Visited = {0} /\ Read = {} /\ token = 0 /\ seen = {}
  BY DEF Init, Visited, Read
<1>3. Visited \subseteq Reach
  BY <1>1, <1>2, ReachClosed DEF Closed, Types
<1>4. Straight
  <2>1. page = Cardinality(Visited)
    BY <1>2, FS_Singleton DEF Init
  <2>2. values = Bag(Read)
    <3>1. \A i : CountIn(Read, i) = 0
      BY <1>2, FS_EmptySet DEF CountIn
    <3>2. QED
      BY <3>1 DEF Init, Bag
  <2>3. \A i \in allowlist : values[i] = 0
    BY DEF Init
  <2>4. QED
    BY <1>2, <2>1, <2>2, <2>3 DEF Straight, Init
<1>5. Reading
  BY <1>2, <1>3, <1>4, PaginationAssumption DEF Init, Reading
<1>6. QED
  BY <1>1, <1>5 DEF Init, IInv

\* Every step preserves it.
LEMMA Step == IInv /\ [Next]_vars => IInv'
<1> SUFFICES ASSUME IInv, [Next]_vars PROVE IInv'
  OBVIOUS
<1>1. CASE result = "none" /\ Next
  <2>1. Types /\ Reading
    BY <1>1 DEF IInv
  <2>2. CASE \/ UsagePage \/ AccountsPage \/ BudgetsPage \/ ResultsPage
    BY <2>1, <2>2, UsageStep, AccountsStep, BudgetsStep, ResultsStep
  <2>3. CASE AnomaliesPage \/ CoveragePage
    BY <2>1, <2>3, SummaryStep DEF AnomaliesPage, CoveragePage, Summaries
  <2>4. CASE ReservationsPage \/ ReservationCoveragePage
    BY <2>1, <2>4, TotalStep DEF ReservationsPage, ReservationCoveragePage, Totals
  <2>5. CASE Fail
    <3>1. /\ page <= MaxPages /\ UNCHANGED inputs /\ Ends("error") /\ faulted' = TRUE
          /\ requests' = requests + 1
      BY <2>5 DEF Fail
    <3>2. QED
      BY <2>1, <3>1, Ended
  <2>6. CASE PageLimit
    <3>1. ~WithinBounds
      BY <2>1, <2>6, OverBudget DEF PageLimit
    <3>2. Types' /\ result' = "error" /\ requests' <= MaxPages
      BY <2>1, <2>6, PaginationAssumption DEF PageLimit, Ends, Types, inputs, Reading
    <3>3. UNCHANGED inputs
      BY <2>6 DEF PageLimit
    <3>4. Answered'
      BY <3>1, <3>2, <3>3, InputsFrame DEF Answered
    <3>5. QED
      BY <3>2, <3>4 DEF IInv
  <2>7. QED
    BY <1>1, <2>2, <2>3, <2>4, <2>5, <2>6 DEF Next, Done
<1>2. CASE result # "none" \/ UNCHANGED vars
  <2>1. UNCHANGED vars
    BY <1>2 DEF Next, UsagePage, AccountsPage, BudgetsPage, AnomaliesPage, CoveragePage,
        ReservationsPage, ReservationCoveragePage, ResultsPage, SummaryPage, TotalPage, Request,
        Fail, PageLimit, Done
  <2>2. /\ UNCHANGED inputs
        /\ UNCHANGED <<page, token, seen, seenItems, values, requests, faulted, result>>
    BY <2>1 DEF vars, inputs
  <2>3. Types'
    BY <2>2 DEF IInv, Types, inputs
  <2>4. Visited' = Visited /\ Read' = Read
    BY <2>2 DEF Visited, Read
  <2>5. Reading => Reading'
    BY <2>2, <2>4, InputsFrame DEF Reading, Straight, Circular, inputs
  <2>6. Answered => Answered'
    BY <2>2, InputsFrame DEF Answered
  <2>7. QED
    BY <2>2, <2>3, <2>5, <2>6 DEF IInv
<1>3. QED
  BY <1>1, <1>2

\* The inductive invariant holds in every reachable state of every loop: what
\* was read so far is what the pages visited hold, each counted once, and an
\* answer given is the one the service and the limits justify.
THEOREM Inductive == Spec => []IInv
BY InitIInv, Step, PTL DEF Spec

\* A read that succeeds returns exactly what the service holds.
THEOREM WholeResult == Spec => []AllOrNothing
<1>1. IInv => AllOrNothing
  BY DEF IInv, Answered, AllOrNothing, WithinBounds
<1>2. QED
  BY <1>1, Inductive, PTL

\* A read costs at most MaxPages requests, whatever tokens the service hands out.
THEOREM BoundedRequests == Spec => []PageBudget
<1>1. IInv => PageBudget
  BY PaginationAssumption DEF IInv, Reading, Answered, PageBudget, Types
<1>2. QED
  BY <1>1, Inductive, PTL

\* Unless a request fails, a read is refused only for a result out of bounds.
THEOREM ExactLimits == Spec => []AcceptedIffWithinBounds
<1>1. IInv => AcceptedIffWithinBounds
  BY DEF IInv, Answered, AcceptedIffWithinBounds, Types
<1>2. QED
  BY <1>1, Inductive, PTL
=============================================================================
