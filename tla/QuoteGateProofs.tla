--------------------------- MODULE QuoteGateProofs ---------------------------
(***************************************************************************)
(* The gate lets no quote through that leaves out something of its         *)
(* sentence, whatever the characters and the words are, and a segment is   *)
(* trimmed until it frees what was asked for.                              *)
(***************************************************************************)
EXTENDS QuoteGate, FiniteSetTheorems, WellFoundedInduction, TLAPS

-----------------------------------------------------------------------------
(* Sets of numbers. *)

(* A set of numbers below a bound has a least element: strict inclusion is well founded
   on the sets of smaller elements. *)
LEMMA LeastOf ==
  ASSUME NEW b \in Int, NEW c \in Int, NEW U, U \subseteq b..c, U # {}
  PROVE  \E m \in U : \A k \in U : m <= k
<1> DEFINE S == b..c
           below(x) == {q \in S : q < x}
           R == StrictSubsetOrdering(S)
           F == FiniteSubsetsOf(S)
           W == {below(x) : x \in U}
<1>1. \A x \in U : below(x) \in SUBSET S
  OBVIOUS
<1>2. W \subseteq SUBSET S /\ W # {}
  BY <1>1
<1>3. IsFiniteSet(S)
  BY FS_Interval
<1>4. IsWellFoundedOn(R, F) /\ F = SUBSET S
  BY <1>3, FS_StrictSubsetOrderingWellFounded, FS_FiniteSubsetsOfFinite
<1>5. \E w \in W : \A y \in W : ~ (<<y, w>> \in R)
  <2> HIDE DEF W, R, F
  <2>1. W \subseteq F /\ W # {}
    BY <1>2, <1>4
  <2> QED
    BY <1>4, <2>1, WFMin
<1>6. PICK m \in U : \A y \in W : ~ (<<y, below(m)>> \in R)
  BY <1>5
<1>7. ASSUME NEW k \in U, k < m
      PROVE  FALSE
  <2>1. k \in Int /\ m \in Int /\ k \in S
    OBVIOUS
  <2>2. k \in below(m) /\ k \notin below(k)
    BY <1>7, <2>1
  <2>3. \A q \in S : q < k => q < m
    BY <1>7, <2>1
  <2>4. below(k) \subseteq below(m)
    BY <2>3
  <2>5. <<below(k), below(m)>> \in R
    BY <1>1, <2>2, <2>4 DEF StrictSubsetOrdering
  <2> QED
    BY <1>6, <2>5
<1> QED
  BY <1>7

(* Min is the least element: there is one, and only one. *)
LEMMA MinIs ==
  ASSUME NEW b \in Int, NEW c \in Int, NEW U, U \subseteq b..c, U # {}
  PROVE  Min(U) \in U /\ \A k \in U : Min(U) <= k
BY LeastOf DEF Min

LEMMA MinIsAt ==
  ASSUME NEW U, U \subseteq Int, NEW m \in U, \A k \in U : m <= k
  PROVE  Min(U) = m
<1>1. Min(U) \in U /\ \A k \in U : Min(U) <= k
  BY DEF Min
<1>2. m <= Min(U) /\ Min(U) <= m /\ m \in Int /\ Min(U) \in Int
  BY <1>1
<1> QED
  BY <1>2

-----------------------------------------------------------------------------
(* Reading a row. *)

(* What NextBeyond skips is nothing but the characters it is to skip, and all of them. *)
LEMMA NextBeyondSkips ==
  ASSUME NEW Char, NEW row \in Seq(Char), NEW i \in 0..Len(row), NEW chars
  PROVE  LET j == NextBeyond(row, i, chars)
         IN  /\ j \in (i + 1)..(Len(row) + 1)
             /\ \A k \in (i + 1)..(j - 1) : row[k] \in chars
             /\ j <= Len(row) => row[j] \notin chars
<1> DEFINE n == Len(row)
           U == {j \in (i + 1)..n : row[j] \notin chars} \cup {n + 1}
<1>1. n \in Nat /\ i \in Int /\ i <= n
  OBVIOUS
<1>2. NextBeyond(row, i, chars) = Min(U)
  BY DEF NextBeyond
<1>3. U \subseteq (i + 1)..(n + 1) /\ U # {}
  BY <1>1
<1>4. Min(U) \in U /\ \A k \in U : Min(U) <= k
  <2> HIDE DEF U
  <2>1. i + 1 \in Int /\ n + 1 \in Int
    BY <1>1
  <2> QED
    BY <1>3, <2>1, MinIs
<1>5. \A k \in (i + 1)..(Min(U) - 1) : row[k] \in chars
  <2> SUFFICES ASSUME NEW k \in (i + 1)..(Min(U) - 1), row[k] \notin chars
               PROVE  FALSE
    OBVIOUS
  <2>1. Min(U) \in Int /\ Min(U) <= n + 1
    BY <1>1, <1>3, <1>4
  <2>2. k \in (i + 1)..n /\ k < Min(U)
    BY <1>1, <2>1
  <2>3. k \in U
    BY <2>2
  <2> HIDE DEF U
  <2> QED
    BY <1>4, <2>1, <2>2, <2>3
<1>6. Min(U) <= n => row[Min(U)] \notin chars
  BY <1>1, <1>4
<1> QED
  <2> HIDE DEF U
  <2>1. Min(U) \in (i + 1)..(n + 1)
    BY <1>3, <1>4
  <2> QED
    BY <1>2, <1>5, <1>6, <2>1

(* The word TokenBefore finds is the one that introduces what follows, if any does. *)
LEMMA TokenIsTheWord ==
  ASSUME NEW Char, NEW row \in Seq(Char), NEW i \in DOMAIN row, NEW words, Introduces(row, i, words),
         \A word \in words : /\ word # <<>> /\ word[1] \notin Edge \cup Guillemets
                             /\ \A n \in DOMAIN word : word[n] \notin Spaces
  PROVE  TokenBefore(row, i) \in words
<1>1. i \in Nat /\ i >= 1 /\ i <= Len(row) /\ Len(row) \in Nat
  OBVIOUS
<1>2. PICK k \in 1..i : /\ SubSeq(row, k, i - 1) \in words
                        /\ \E m \in 1..k : /\ m > 1 => row[m - 1] \in Spaces
                                           /\ \A n \in m..(k - 1) : row[n] \in Edge \cup Guillemets
  BY Zenon DEF Introduces
<1>3. PICK m \in 1..k : /\ m > 1 => row[m - 1] \in Spaces
                        /\ \A n \in m..(k - 1) : row[n] \in Edge \cup Guillemets
  BY Zenon, <1>2
<1> DEFINE word == SubSeq(row, k, i - 1)
           U == {x \in 1..i : /\ \A n \in x..(i - 1) : row[n] \notin Spaces
                              /\ x = i \/ row[x] \notin Edge \cup Guillemets}
<1>4. k \in Int /\ m \in Int /\ 1 <= m /\ m <= k /\ k <= i
  BY <1>1
<1>5. word # <<>> /\ word[1] \notin Edge \cup Guillemets /\ \A n \in DOMAIN word : word[n] \notin Spaces
  <2> HIDE DEF word
  <2> QED
    BY <1>2 DEF word
<1>6. k < i
  <2> SUFFICES ASSUME k = i
               PROVE  FALSE
    BY <1>1, <1>4
  <2>1. word = <<>>
    BY <1>1
  <2> QED
    BY <1>5, <2>1
<1>7. \A n \in k..(i - 1) : n - k + 1 \in DOMAIN word /\ word[n - k + 1] = row[n]
  BY <1>1, <1>4
<1>8. k \in U
  <2>1. \A n \in k..(i - 1) : row[n] \notin Spaces
    <3> HIDE DEF word
    <3> QED
      BY <1>5, <1>7
  <2>2. row[k] \notin Edge \cup Guillemets
    <3> HIDE DEF word
    <3>1. k \in k..(i - 1) /\ k - k + 1 = 1
      BY <1>1, <1>4, <1>6
    <3> QED
      BY <1>5, <1>7, <3>1
  <2> QED
    BY <2>1, <2>2
<1>9. ASSUME NEW x \in U, x < k
      PROVE  FALSE
  <2>1. x \in Int /\ 1 <= x /\ x # i
    BY <1>1, <1>4, <1>6, <1>9
  <2>2. CASE x < m
    <3>1. m - 1 \in x..(i - 1) /\ m > 1
      BY <1>1, <1>4, <1>6, <2>1, <2>2
    <3> QED
      BY <1>3, <3>1
  <2>3. CASE m <= x
    <3>1. x \in m..(k - 1)
      BY <1>4, <1>9, <2>1, <2>3
    <3> QED
      BY <1>3, <2>1, <3>1
  <2> QED
    BY <1>4, <2>1, <2>2, <2>3
<1>10. Min(U) = k
  <2>1. U \subseteq Int
    BY <1>1
  <2>2. \A x \in U : k <= x
    BY <1>4, <1>9, <2>1
  <2> HIDE DEF U
  <2> QED
    BY <1>8, <2>1, <2>2, MinIsAt
<1>11. TokenBefore(row, i) = SubSeq(row, Min(U), i - 1)
  BY DEF TokenBefore
<1> QED
  BY <1>2, <1>10, <1>11

-----------------------------------------------------------------------------
(* Sentences. *)

(* What the code takes for the end of a sentence closes it. *)
LEMMA EndsClose ==
  ASSUME Vocabulary, NEW Char, NEW row \in Seq(Char), NEW i \in SentenceEnds(row)
  PROVE  i \in DOMAIN row /\ IsClosed(row, i)
<1> DEFINE j == NextVisible(row, i)
           token == TokenBefore(row, i)
           skipped == Spaces \cup Edge
<1>1. i \in DOMAIN row /\ row[i] \in Terminators
  BY DEF SentenceEnds
<1>2. i \in 1..Len(row) /\ Len(row) \in Nat
  BY <1>1
<1> SUFFICES ASSUME i < Len(row)
             PROVE  IsClosed(row, i)
  BY <1>1 DEF IsClosed
<1>3. /\ row[i + 1] \in Spaces
      /\ j <= Len(row) => row[j] \in Upper \cup Digits
      /\ token \notin NonTerminal
      /\ ~ (j <= Len(row) /\ row[j] \in Digits /\ token \in NonTerminalBeforeNumber)
  <2>1. i # Len(row)
    BY <1>2
  <2> QED
    BY <2>1 DEF SentenceEnds
<1>4. /\ j \in (i + 1)..(Len(row) + 1)
      /\ \A k \in (i + 1)..(j - 1) : row[k] \in skipped
      /\ j <= Len(row) => row[j] \notin skipped
  <2>1. i \in 0..Len(row)
    BY <1>2
  <2> QED
    BY <2>1, NextBeyondSkips DEF NextVisible
<1>5. \A word \in NonTerminal \cup NonTerminalBeforeNumber :
        /\ word # <<>> /\ word[1] \notin Edge \cup Guillemets
        /\ \A n \in DOMAIN word : word[n] \notin Spaces
  BY DEF Vocabulary
<1>6. ~ Introduces(row, i, NonTerminal)
  <2>1. \A word \in NonTerminal : /\ word # <<>> /\ word[1] \notin Edge \cup Guillemets
                                  /\ \A n \in DOMAIN word : word[n] \notin Spaces
    BY <1>5
  <2> HIDE DEF token
  <2>2. Introduces(row, i, NonTerminal) => token \in NonTerminal
    BY <1>1, <2>1, TokenIsTheWord DEF token
  <2> QED
    BY <1>3, <2>2
<1>7. Introduces(row, i, NonTerminalBeforeNumber) => token \in NonTerminalBeforeNumber
  <2>1. \A word \in NonTerminalBeforeNumber : /\ word # <<>> /\ word[1] \notin Edge \cup Guillemets
                                              /\ \A n \in DOMAIN word : word[n] \notin Spaces
    BY <1>5
  <2> HIDE DEF token
  <2> QED
    BY <1>1, <2>1, TokenIsTheWord DEF token
<1>8. ASSUME NEW x \in (i + 1)..Len(row), \A k \in (i + 1)..(x - 1) : row[k] \in skipped
      PROVE  /\ row[x] \in skipped \cup Upper \cup Digits
             /\ row[x] \in Digits => ~ Introduces(row, i, NonTerminalBeforeNumber)
  <2> HIDE DEF j, token
  <2>1. x <= j
    <3> SUFFICES ASSUME x > j
                 PROVE  FALSE
      BY <1>2, <1>4
    <3>1. j \in (i + 1)..(x - 1) /\ j <= Len(row)
      BY <1>2, <1>4
    <3> QED
      BY <1>4, <1>8, <3>1
  <2>2. CASE x < j
    <3>1. x \in (i + 1)..(j - 1)
      BY <1>2, <1>4, <2>2
    <3>2. row[x] \in skipped
      BY <1>4, <3>1
    <3>3. row[x] \notin Digits
      BY <3>2 DEF Vocabulary
    <3> QED
      BY <3>2, <3>3
  <2>3. CASE x = j
    <3>1. j <= Len(row)
      BY <1>2, <2>3
    <3> QED
      BY <1>3, <1>7, <2>3, <3>1
  <2> QED
    BY <1>2, <1>4, <2>1, <2>2, <2>3
<1> QED
  BY <1>1, <1>3, <1>6, <1>8 DEF IsClosed

(* What the code takes for the beginning of a sentence is one. *)
LEMMA StartsBegin ==
  ASSUME Vocabulary, NEW Char, NEW row \in Seq(Char), NEW p \in SentenceStarts(row)
  PROVE  BeginsASentence(row, p)
<1>1. CASE p = 1
  BY <1>1 DEF BeginsASentence
<1>2. ASSUME NEW i \in DOMAIN row, row[i] = Newline \/ IsClosed(row, i), p <= Len(row),
             NEW chars \in SUBSET (Spaces \cup Edge), p = NextBeyond(row, i, chars)
      PROVE  BeginsASentence(row, p)
  <2>1. i \in 0..Len(row) /\ i \in Nat /\ i >= 1
    OBVIOUS
  <2>2. p \in (i + 1)..(Len(row) + 1) /\ \A k \in (i + 1)..(p - 1) : row[k] \in chars
    BY <1>2, <2>1, NextBeyondSkips
  <2>3. i \in 1..(p - 1) /\ \A k \in (i + 1)..(p - 1) : row[k] \in Spaces \cup Edge
    BY <2>1, <2>2
  <2> QED
    BY <1>2, <2>3 DEF BeginsASentence
<1>3. ASSUME p # 1, p \in {NextVisible(row, i) : i \in SentenceEnds(row)}, p <= Len(row)
      PROVE  BeginsASentence(row, p)
  <2>1. PICK i \in SentenceEnds(row) : p = NextVisible(row, i)
    BY <1>3
  <2>2. i \in DOMAIN row /\ IsClosed(row, i)
    BY EndsClose
  <2>3. p = NextBeyond(row, i, Spaces \cup Edge)
    BY <2>1 DEF NextVisible
  <2> QED
    BY <1>2, <1>3, <2>2, <2>3
<1>4. ASSUME p # 1, p <= Len(row),
             p \in {NextBeyond(row, i, Blanks \cup Edge) : i \in {k \in DOMAIN row : row[k] = Newline}}
      PROVE  BeginsASentence(row, p)
  <2>1. PICK i \in DOMAIN row : row[i] = Newline /\ p = NextBeyond(row, i, Blanks \cup Edge)
    BY <1>4
  <2>2. Blanks \cup Edge \in SUBSET (Spaces \cup Edge)
    BY DEF Spaces
  <2> QED
    BY <1>2, <1>4, <2>1, <2>2
<1> QED
  BY <1>1, <1>3, <1>4 DEF SentenceStarts

(* The gate is safe (compaction.py, _quotes_a_whole_sentence): whatever the row, a quote it
   accepts stands there as whole sentences.  A negation or a condition is inside the quote
   or in another sentence. *)
THEOREM NothingIsLeftOut ==
  ASSUME Vocabulary, NEW Char, NEW row \in Seq(Char), NEW quote \in Seq(Char),
         QuotesAWholeSentence(row, quote)
  PROVE  NothingIsCutOff(row, quote)
<1>1. PICK p \in Occurrences(row, quote) : IsWhole(row, quote, p)
  BY DEF QuotesAWholeSentence
<1> DEFINE e == p + Len(quote)
<1>2. /\ p \in SentenceStarts(row)
      /\ \/ e = Len(row) + 1
         \/ e \in SentenceEnds(row) /\ row[e] = FullStop
         \/ e - 1 \in SentenceEnds(row)
  BY <1>1 DEF IsWhole
<1>3. p \in Nat /\ Len(quote) \in Nat /\ Len(row) \in Nat
  BY DEF Occurrences
<1>4. BeginsASentence(row, p)
  BY <1>2, StartsBegin
<1>5. EndsASentence(row, e - 1)
  <2>1. CASE e = Len(row) + 1
    BY <1>3, <2>1 DEF EndsASentence
  <2>2. CASE e \in SentenceEnds(row) /\ row[e] = FullStop
    <3>1. e \in DOMAIN row /\ IsClosed(row, e)
      BY <2>2, EndsClose
    <3>2. e - 1 + 1 = e
      BY <1>3
    <3> HIDE DEF e
    <3> QED
      BY <2>2, <3>1, <3>2 DEF EndsASentence
  <2>3. CASE e - 1 \in SentenceEnds(row)
    <3>1. e - 1 \in DOMAIN row /\ IsClosed(row, e - 1)
      BY <2>3, EndsClose
    <3> QED
      BY <3>1 DEF EndsASentence
  <2> QED
    BY <1>2, <2>1, <2>2, <2>3
<1>6. p + Len(quote) - 1 = e - 1
  BY <1>3
<1> HIDE DEF e
<1> QED
  BY <1>1, <1>4, <1>5, <1>6 DEF NothingIsCutOff

-----------------------------------------------------------------------------
(* Sizes. *)

LEMMA LengthsAreKept ==
  ASSUME NEW Q, NEW quotes \in Seq(Q)
  PROVE  Len(Chronological(quotes)) = Len(quotes) /\ DOMAIN Chronological(quotes) = DOMAIN quotes
<1> DEFINE n == Len(quotes)
           order == [k \in 1..Cardinality(DOMAIN quotes) |->
                       CHOOSE i \in DOMAIN quotes :
                         Cardinality({j \in DOMAIN quotes :
                           \/ quotes[j].row < quotes[i].row
                           \/ quotes[j].row = quotes[i].row /\ j < i}) = k - 1]
<1>1. Cardinality(1..n) = n
  <2>1. n \in Nat /\ n \in Int /\ 1 \in Int
    OBVIOUS
  <2> HIDE DEF n
  <2> QED
    BY <2>1, FS_Interval
<1>2. Chronological(quotes) = [k \in DOMAIN order |-> quotes[order[k]]]
  BY DEF Chronological, InOrder
<1>3. DOMAIN order = 1..n /\ DOMAIN quotes = 1..n /\ n \in Nat
  BY <1>1
<1> HIDE DEF order
<1> QED
  BY <1>2, <1>3

(* The trim stops at the first segment that frees enough (compact_conversation): it gives
   up the oldest quotes, as many as it must and no more, and never goes below the fewest. *)
THEOREM TrimMeetsTheTarget ==
  ASSUME NEW quotes, Len(quotes) \in Nat, NEW raw, NEW reclaim, CompactionMinQuotes \in Nat
  PROVE  \E n \in 0..Len(quotes) :
           /\ Trimmed(quotes, raw, reclaim) = WithoutOldest(quotes, n)
           /\ \/ reclaim = 0 \/ Len(quotes) - n <= CompactionMinQuotes
              \/ raw - Content(WithoutOldest(quotes, n)) >= reclaim
           /\ \A m \in 0..(n - 1) :
                /\ reclaim # 0 /\ Len(quotes) - m > CompactionMinQuotes
                /\ ~ (raw - Content(WithoutOldest(quotes, m)) >= reclaim)
<1> DEFINE Enough(n) == \/ reclaim = 0 \/ Len(quotes) - n <= CompactionMinQuotes
                        \/ raw - Content(WithoutOldest(quotes, n)) >= reclaim
           U == {n \in 0..Len(quotes) : Enough(n)}
<1>1. Trimmed(quotes, raw, reclaim) = WithoutOldest(quotes, Min(U))
  BY DEF Trimmed
<1>2. Len(quotes) \in U
  <2>1. Len(quotes) - Len(quotes) <= CompactionMinQuotes
    OBVIOUS
  <2> QED
    BY <2>1
<1>3. Min(U) \in U /\ \A k \in U : Min(U) <= k
  <2>1. U \subseteq 0..Len(quotes) /\ U # {}
    BY <1>2
  <2>2. 0 \in Int /\ Len(quotes) \in Int
    OBVIOUS
  <2> HIDE DEF U
  <2> QED
    BY <2>1, <2>2, MinIs
<1>4. Min(U) \in 0..Len(quotes) /\ Enough(Min(U))
  BY <1>3
<1>5. ASSUME NEW m \in 0..(Min(U) - 1)
      PROVE  ~ Enough(m)
  <2>1. m \in 0..Len(quotes) /\ m < Min(U) /\ m \in Int /\ Min(U) \in Int
    BY <1>4
  <2>2. m \notin U
    <3> HIDE DEF U
    <3> QED
      BY <1>3, <2>1
  <2> QED
    BY <2>1, <2>2
<1> HIDE DEF U
<1>6. \A m \in 0..(Min(U) - 1) :
        /\ reclaim # 0 /\ Len(quotes) - m > CompactionMinQuotes
        /\ ~ (raw - Content(WithoutOldest(quotes, m)) >= reclaim)
  <2> SUFFICES ASSUME NEW m \in 0..(Min(U) - 1)
               PROVE  /\ reclaim # 0 /\ Len(quotes) - m > CompactionMinQuotes
                      /\ ~ (raw - Content(WithoutOldest(quotes, m)) >= reclaim)
    OBVIOUS
  <2>1. ~ Enough(m)
    BY <1>5
  <2>2. m \in Int /\ Len(quotes) - m \in Int
    BY <1>4
  <2> QED
    BY <2>1, <2>2
<1> QED
  BY <1>1, <1>4, <1>6

(* A segment has no more quotes than were asked of the model, whose number is between the
   fewest and the most, and frees what was asked for unless it is down to the fewest. *)
THEOREM SegmentsFit ==
  ASSUME NEW Q, NEW kept \in Seq(Q), NEW raw \in Nat, NEW reclaim \in Nat,
         CompactionMinQuotes \in Nat, CompactionMaxQuotes \in Nat, Overhead \in Nat,
         CompactionMinQuotes <= CompactionMaxQuotes, CharsPerQuoteLine \in Nat \ {0}
  PROVE  LET most == MaxQuotes(raw, reclaim)
             segment == Segment(kept, raw, reclaim)
         IN  /\ most \in CompactionMinQuotes..CompactionMaxQuotes
             /\ Len(segment) <= most
             /\ reclaim > 0 => \/ Len(segment) <= CompactionMinQuotes
                               \/ raw - Content(segment) >= reclaim
<1> DEFINE most == MaxQuotes(raw, reclaim)
           first == FirstOf(kept, most)
           sorted == Chronological(first)
<1>1. most \in CompactionMinQuotes..CompactionMaxQuotes
  <2>1. CASE reclaim = 0
    BY <2>1 DEF MaxQuotes
  <2>2. CASE reclaim # 0
    <3> DEFINE fits == (raw - reclaim - Overhead) \div CharsPerQuoteLine
               less == {CompactionMaxQuotes, fits}
               more == {CompactionMinQuotes, Min(less)}
    <3>1. fits \in Int
      OBVIOUS
    <3> HIDE DEF fits
    <3>2. Min(less) \in Int /\ Min(less) <= CompactionMaxQuotes
      <4>1. CASE fits <= CompactionMaxQuotes
        <5>1. less \subseteq Int /\ fits \in less /\ \A k \in less : fits <= k
          BY <3>1, <4>1
        <5> HIDE DEF less
        <5>2. Min(less) = fits
          BY <5>1, MinIsAt
        <5> QED
          BY <3>1, <4>1, <5>2
      <4>2. CASE CompactionMaxQuotes <= fits
        <5>1. less \subseteq Int /\ CompactionMaxQuotes \in less
              /\ \A k \in less : CompactionMaxQuotes <= k
          BY <3>1, <4>2
        <5> HIDE DEF less
        <5>2. Min(less) = CompactionMaxQuotes
          BY <5>1, MinIsAt
        <5> QED
          BY <5>2
      <4> QED
        BY <3>1, <4>1, <4>2
    <3> HIDE DEF less
    <3>3. Max(more) \in more /\ \A k \in more : Max(more) >= k
      <4>1. \E x \in more : \A k \in more : x >= k
        BY <3>2
      <4> QED
        BY <4>1, Zenon DEF Max
    <3>4. Max(more) \in CompactionMinQuotes..CompactionMaxQuotes
      BY <3>2, <3>3
    <3>5. most = Max(more)
      BY <2>2 DEF MaxQuotes, fits, less
    <3> QED
      BY <3>4, <3>5
  <2> QED
    BY <2>1, <2>2
<1> HIDE DEF most
<1>2. most \in Nat
  BY <1>1
<1>3. first \in Seq(Q) /\ Len(first) <= most /\ Len(first) \in Nat
  <2>1. Min({most, Len(kept)}) \in 0..Len(kept) /\ Min({most, Len(kept)}) <= most
    <3>1. CASE most <= Len(kept)
      <4>1. Min({most, Len(kept)}) = most
        BY <1>2, <3>1, MinIsAt
      <4> QED
        BY <1>2, <3>1, <4>1
    <3>2. CASE Len(kept) <= most
      <4>1. Min({most, Len(kept)}) = Len(kept)
        BY <1>2, <3>2, MinIsAt
      <4> QED
        BY <1>2, <3>2, <4>1
    <3> QED
      BY <1>2, <3>1, <3>2
  <2> DEFINE k == Min({most, Len(kept)})
  <2> HIDE DEF k
  <2>2. k \in 0..Len(kept) /\ k <= most
    BY <2>1 DEF k
  <2>3. first = SubSeq(kept, 1, k)
    BY DEF FirstOf, k
  <2> HIDE DEF first
  <2> QED
    BY <1>2, <2>2, <2>3
<1>4. Len(sorted) = Len(first)
  <2> HIDE DEF first
  <2> QED
    BY <1>3, LengthsAreKept
<1> HIDE DEF sorted, first
<1>5. Segment(kept, raw, reclaim) = Trimmed(sorted, raw, reclaim)
  BY DEF Segment, most, first, sorted
<1>6. PICK n \in 0..Len(sorted) :
        /\ Trimmed(sorted, raw, reclaim) = WithoutOldest(sorted, n)
        /\ \/ reclaim = 0 \/ Len(sorted) - n <= CompactionMinQuotes
           \/ raw - Content(WithoutOldest(sorted, n)) >= reclaim
  BY <1>3, <1>4, TrimMeetsTheTarget
<1>7. Len(WithoutOldest(sorted, n)) = Len(sorted) - n
  BY <1>3, <1>4 DEF WithoutOldest
<1> QED
  BY <1>1, <1>2, <1>3, <1>4, <1>5, <1>6, <1>7 DEF most

=============================================================================
