------------------------ MODULE DocumentMemoryProofs ------------------------
(***************************************************************************)
(* What holds of DocumentMemory for every number of panes, attorneys,      *)
(* requests, edits and failures: the chat history is whole, a prompt       *)
(* replays the attorney's own prose and a review that agrees with the text *)
(* that was sent, and no loss goes without a word.                         *)
(***************************************************************************)
EXTENDS DocumentMemory, FiniteSetTheorems, SequenceTheorems, WellFoundedInduction, TLAPS

-----------------------------------------------------------------------------
(* The parts of the invariant, each about values: a history, a row, a request. *)

Wordings == DOMAIN Questions \cup DOMAIN Replies \cup ReviewNames \cup {"Review this contract."}
Messages ==
  [role : {"user", "assistant"}, text : Wordings, prose : BOOLEAN,
   machinery : {"none", "blocks", "cut"}, turn : Nat, by : Attorneys]
ReviewRows == [name : ReviewNames, turn : Nat]

(* The messages of attorney a from requests up to n; the attorney writes no blocks. *)
OwnTurns(h, a, n) ==
  \A i \in DOMAIN h : /\ h[i].turn \in 1..n /\ h[i].by = a
                      /\ h[i].role = "user" => h[i].machinery = "none"

(* Question and answer in turn, each request once, and in the order of the requests. *)
Paired(h) ==
  /\ Len(h) % 2 = 0
  /\ \A i \in DOMAIN h : /\ h[i].role = (IF i % 2 = 1 THEN "user" ELSE "assistant")
                         /\ i % 2 = 0 => h[i].turn = h[i - 1].turn
EachOnce(h) == \A i \in DOMAIN h : \A j \in 1..(i - 2) : h[j].turn # h[i].turn
InOrder(h) == \A i \in DOMAIN h : \A j \in 1..i : h[j].turn <= h[i].turn
Whole(h) == Paired(h) /\ EachOnce(h) /\ InOrder(h)

(* What a pane's thread may hold once n requests were made. *)
HistoryOf(h, s, n) ==
  /\ h \in Seq(Messages) /\ Len(h) <= 2 * NTurns
  /\ OwnTurns(h, Owner[s], n) /\ Whole(h)

(* What the conversation table may hold of attorney a: answers as they were. *)
NoneCut(h) == \A i \in DOMAIN h : h[i].machinery # "cut"
RowsOf(h, a, n) ==
  /\ h \in Seq(Messages)
  /\ OwnTurns(h, a, n) /\ Paired(h) /\ EachOnce(h) /\ NoneCut(h)

RequestFields ==
  {"phase", "turn", "question", "blanks", "stateless", "history", "known", "rows", "review",
   "recalled", "conversation", "degraded", "unsaved", "codes", "faulty", "answer", "proposed",
   "offered"}

IsRequest(r) ==
  /\ r = [f \in RequestFields |-> r[f]]
  /\ r.phase \in Phases /\ r.turn \in Nat /\ r.known \in Nat /\ r.rows \in Nat /\ r.review \in Nat
  /\ r.degraded \in BOOLEAN /\ r.stateless \in BOOLEAN /\ r.unsaved \in BOOLEAN

IsPending(r) == r.phase \in {"asked", "answered"}
IsPrompted(r) == r.phase \in {"answered", "appended", "done"}

(* The recalled review is what reconciliation makes of the row and the text sent. *)
RecallFits(r, revs) ==
  /\ r.review <= Len(revs)
  /\ r.review > 0 =>
       r.recalled = ReconcileReviewWithDoc(StripRedlines(TextOf(revs[r.review].name).lines),
                                           TextOf(revs[r.review].name).table,
                                           TextWith(r.blanks))

(* The conversation in a prompt is the attorney's own, without a whole block and
   nothing twice; it holds a piece of one only where chat_history stands in. *)
OwnWithoutBlocks(c, a) ==
  /\ \A i \in DOMAIN c : c[i].by = a /\ c[i].machinery # "blocks"
  /\ \A i, j \in DOMAIN c : i # j => <<c[i].role, c[i].turn>> # <<c[j].role, c[j].turn>>
OwnProse(r, a) ==
  OwnWithoutBlocks(r.conversation, a) /\ (NoneCut(r.conversation) \/ r.degraded \/ r.rows = 0)

(* What there was when the pane asked is in the prompt, or its lack was flagged. *)
ReviewTold(r) == r.known > 0 /\ r.review = 0 => r.degraded
ConversationTold(r, rows) ==
  r.rows > 0 => \/ r.degraded
                \/ \E i \in DOMAIN r.conversation, j \in DOMAIN rows :
                     r.conversation[i].turn = rows[j].turn

(* A chat request of pane s, over the tables as they are after n requests. *)
ChatFits(r, s, revs, st) ==
  /\ r.phase # "idle" => r.question \in DOMAIN Questions
  /\ r.stateless => r.degraded
  /\ r.known <= Len(revs) /\ r.rows <= Len(st[Owner[s]])
  /\ r.phase \in {"asked", "answered", "appended"} =>
       \A a \in Attorneys : \A j \in DOMAIN st[a] : st[a][j].turn # r.turn
  /\ OwnProse(r, Owner[s])
  /\ IsPrompted(r) =>
       /\ r.answer \in DOMAIN Replies \cup {Error}
       /\ r.answer = Error => "failed" \in r.codes
       /\ r.faulty = {"edit retry"} => r.answer # Error
       /\ ContextOnly(r.question) => ~ r.offered
       /\ RecallFits(r, revs)
       /\ ReviewTold(r)
       /\ MaxMessages > 1 => ConversationTold(r, st[Owner[s]])

ReviewFits(r, revs) ==
  /\ r.phase # "idle" => r.question = "Review this contract."
  /\ IsPrompted(r) => /\ r.answer \in ReviewNames
                      /\ r.answer = Error => "failed" \in r.codes
  /\ r.phase = "done" => r.unsaved \/ \E i \in DOMAIN revs : revs[i].turn = r.turn

RequestFits(r, s, b, revs, st, n) ==
  /\ IsRequest(r)
  /\ r.turn <= n /\ (r.phase # "idle" => r.turn > 0)
  /\ IsPending(r) => HistoryOf(r.history, s, r.turn - 1)
  /\ b = "chat" => ChatFits(r, s, revs, st)
  /\ b = "findings" => ReviewFits(r, revs)

IsBoard(f) == f = [s \in Sessions |-> [b \in Tabs |-> f[s][b]]]

(* Every request has a turn of its own. *)
TurnsTellApart(f) ==
  \A s, u \in Sessions, b, c \in Tabs :
    f[s][b].phase # "idle" /\ f[s][b].turn = f[u][c].turn => s = u /\ b = c

StoresFit ==
  /\ turns \in Nat
  /\ reviews \in Seq(ReviewRows)
  /\ stored = [a \in Attorneys |-> stored[a]]
  /\ \A a \in Attorneys : RowsOf(stored[a], a, turns)
  /\ history = [s \in Sessions |-> history[s]]
  /\ \A s \in Sessions : HistoryOf(history[s], s, turns)

BoardFits ==
  /\ IsBoard(request) /\ TurnsTellApart(request)
  /\ \A s \in Sessions, b \in Tabs : RequestFits(request[s][b], s, b, reviews, stored, turns)

IInv == StoresFit /\ blanks \subseteq Fields /\ BoardFits

-----------------------------------------------------------------------------
(* Sequences of messages. *)

Cut(n, h) == IF Len(h) > n THEN Len(h) - n ELSE 0

(* The last n of a sequence (the reducer's slice, load_recent's LIMIT). *)
LEMMA NewestIs ==
  ASSUME NEW T, NEW h \in Seq(T), NEW n \in Nat
  PROVE  /\ Cut(n, h) \in Nat /\ Cut(n, h) <= Len(h)
         /\ Newest(n, h) \in Seq(T) /\ Len(Newest(n, h)) = Len(h) - Cut(n, h)
         /\ Len(Newest(n, h)) <= n
         /\ \A i \in DOMAIN Newest(n, h) : Newest(n, h)[i] = h[i + Cut(n, h)]
                                           /\ i + Cut(n, h) \in DOMAIN h
<1>1. Cut(n, h) \in Nat /\ Cut(n, h) <= Len(h) /\ Len(h) - Cut(n, h) <= n
  BY DEF Cut
<1>2. Newest(n, h) = SubSeq(h, 1 + Cut(n, h), Len(h))
  BY DEF Newest, Cut
<1> QED
  BY <1>1, <1>2

(* A sequence with an exchange behind it. *)
LEMMA TwoMore ==
  ASSUME NEW T, NEW h \in Seq(T), NEW x \in Seq(T), Len(x) = 2
  PROVE  /\ h \o x \in Seq(T) /\ Len(h \o x) = Len(h) + 2
         /\ DOMAIN (h \o x) = 1..(Len(h) + 2)
         /\ \A i \in 1..Len(h) : (h \o x)[i] = h[i]
         /\ (h \o x)[Len(h) + 1] = x[1] /\ (h \o x)[Len(h) + 2] = x[2]
<1> DEFINE g == h \o x
           k == Len(h)
<1>1. /\ g \in Seq(T) /\ Len(g) = k + Len(x)
      /\ \A i \in 1..(k + Len(x)) : g[i] = IF i <= k THEN h[i] ELSE x[i - k]
  BY ConcatProperties
<1>2. k \in Nat
  OBVIOUS
<1> HIDE DEF g, k
<1>3. /\ k + 1 \in 1..(k + 2) /\ k + 2 \in 1..(k + 2) /\ ~ (k + 1 <= k) /\ ~ (k + 2 <= k)
      /\ (k + 1) - k = 1 /\ (k + 2) - k = 2 /\ \A i \in 1..k : i \in 1..(k + 2) /\ i <= k
  BY <1>2
<1>4. /\ Len(g) = k + 2 /\ DOMAIN g = 1..(k + 2)
      /\ \A i \in 1..k : g[i] = h[i]
      /\ g[k + 1] = x[1] /\ g[k + 2] = x[2]
  BY <1>1, <1>3
<1> QED
  BY <1>1, <1>4 DEF g, k

(* Even and odd. *)
LEMMA TwoOnIsEven ==
  ASSUME NEW k \in Nat, k % 2 = 0
  PROVE  (k + 2) % 2 = 0 /\ (k + 1) % 2 = 1
OBVIOUS

(* Dropping or adding an even number of messages keeps the parity of a position. *)
LEMMA EvenShift ==
  ASSUME NEW k \in Nat, NEW d \in Nat, d % 2 = 0
  PROVE  (k + d) % 2 = k % 2 /\ (d <= k => (k - d) % 2 = k % 2)
OBVIOUS

(* The message before an even position exists: the question of an answer. *)
LEMMA BeforeEven ==
  ASSUME NEW i \in Nat, i > 0, i % 2 = 0
  PROVE  i - 1 \in Nat /\ i - 1 > 0
OBVIOUS

(* A number of whole turns is an even number of messages. *)
LEMMA DoubleIsEven ==
  ASSUME NEW k \in Nat
  PROVE  2 * k \in Nat /\ (2 * k) % 2 = 0
OBVIOUS

(* The exchange of a request goes behind the messages of other requests. *)
LEMMA AppendedFits ==
  ASSUME NEW h \in Seq(Messages), NEW a, NEW n \in Nat, NEW t \in Nat, NEW m \in Nat,
         n <= m, t <= m, OwnTurns(h, a, n), Paired(h), EachOnce(h),
         \A j \in DOMAIN h : h[j].turn # t,
         NEW x \in Seq(Messages), OwnTurns(x, a, t), Paired(x), Len(x) = 2,
         x[1].turn = t
  PROVE  /\ h \o x \in Seq(Messages)
         /\ OwnTurns(h \o x, a, m) /\ Paired(h \o x) /\ EachOnce(h \o x)
         /\ InOrder(h) /\ n < t => InOrder(h \o x)
<1> DEFINE g == h \o x
           k == Len(h)
<1>0. k % 2 = 0
  BY DEF Paired
<1>1. /\ g \in Seq(Messages) /\ Len(g) = k + 2 /\ k \in Nat
      /\ DOMAIN g = 1..(k + 2) /\ DOMAIN h = 1..k /\ DOMAIN x = 1..2
      /\ \A i \in 1..k : g[i] = h[i]
      /\ g[k + 1] = x[1] /\ g[k + 2] = x[2]
  BY TwoMore
<1>2. /\ t \in 1..t /\ x[1].turn = t /\ x[2].turn = t /\ x[1].by = a /\ x[2].by = a
      /\ x[1].role = "user" /\ x[2].role = "assistant" /\ x[1].machinery = "none"
  BY <1>1 DEF Paired, OwnTurns
<1>3. \A i \in 1..k : /\ h[i].turn \in 1..n /\ h[i].by = a
                      /\ h[i].role = "user" => h[i].machinery = "none"
  BY <1>1 DEF OwnTurns
<1> HIDE DEF g, k
<1>4. \A i \in 1..(k + 2) : i \in 1..k \/ i = k + 1 \/ i = k + 2
  BY <1>1
<1>5. OwnTurns(g, a, m)
  <2>1. \A i \in 1..n : i \in 1..m
    OBVIOUS
  <2>2. t \in 1..m
    BY <1>2
  <2> DEFINE Fits(i) == /\ g[i].turn \in 1..m /\ g[i].by = a
                        /\ g[i].role = "user" => g[i].machinery = "none"
  <2>3. \A i \in 1..k : Fits(i)
    BY <1>1, <1>3, <2>1
  <2>4. Fits(k + 1) /\ Fits(k + 2)
    BY <1>1, <1>2, <2>2
  <2> HIDE DEF Fits
  <2>5. \A i \in 1..(k + 2) : Fits(i)
    BY <1>4, <2>3, <2>4
  <2> QED
    BY <1>1, <2>5 DEF OwnTurns, Fits
<1>6. Paired(g)
  <2>1. (k + 2) % 2 = 0 /\ (k + 1) % 2 = 1
    BY <1>0, <1>1, TwoOnIsEven
  <2>2. ASSUME NEW i \in 1..k
        PROVE  /\ g[i].role = (IF i % 2 = 1 THEN "user" ELSE "assistant")
               /\ i % 2 = 0 => g[i].turn = g[i - 1].turn
    <3>1. i \in Nat /\ i > 0 /\ i <= k /\ k \in Nat
      BY <1>1
    <3>2. i % 2 = 0 => i - 1 \in Nat /\ i - 1 > 0
      BY <3>1, BeforeEven
    <3>3. i % 2 = 0 => i - 1 \in 1..k
      BY <3>1, <3>2
    <3>4. g[i] = h[i] /\ i \in DOMAIN h /\ (i % 2 = 0 => g[i - 1] = h[i - 1])
      BY <1>1, <3>3
    <3> QED
      BY <3>4 DEF Paired
  <2>3. (k + 2) - 1 = k + 1
    BY <1>1
  <2> QED
    <3>1. Len(g) % 2 = 0 /\ DOMAIN g = 1..(k + 2)
      BY <1>1, <2>1
    <3>2. /\ g[k + 1].role = "user" /\ g[k + 2].role = "assistant"
          /\ g[k + 2].turn = g[(k + 2) - 1].turn
      BY <1>1, <1>2, <2>3
    <3> DEFINE Fits(i) == /\ g[i].role = (IF i % 2 = 1 THEN "user" ELSE "assistant")
                          /\ i % 2 = 0 => g[i].turn = g[i - 1].turn
    <3>3. Fits(k + 1)
      BY <2>1, <3>2
    <3>4. Fits(k + 2)
      BY <2>1, <3>2
    <3>5. \A i \in 1..k : Fits(i)
      BY <2>2
    <3> HIDE DEF Fits
    <3>6. \A i \in 1..(k + 2) : Fits(i)
      BY <1>4, <3>3, <3>4, <3>5
    <3> QED
      BY <3>1, <3>6 DEF Paired, Fits
<1>7. EachOnce(g)
  <2>1. ASSUME NEW i \in 1..k, NEW j \in 1..(i - 2)
        PROVE  g[j].turn # g[i].turn
    <3>1. i \in DOMAIN h /\ j \in 1..k
      BY <1>1
    <3>2. h[j].turn # h[i].turn
      BY <3>1 DEF EachOnce
    <3> QED
      BY <1>1, <3>1, <3>2
  <2>2. ASSUME NEW i \in {k + 1, k + 2}, NEW j \in 1..(i - 2)
        PROVE  g[j].turn # g[i].turn
    <3>1. j \in 1..k
      BY <1>1
    <3>2. g[i].turn = t /\ g[j].turn # t
      BY <1>1, <1>2, <3>1
    <3> QED
      BY <3>2
  <2> QED
    BY <1>1, <1>4, <2>1, <2>2 DEF EachOnce
<1>8. ASSUME InOrder(h), n < t
      PROVE  InOrder(g)
  <2>1. ASSUME NEW i \in 1..k, NEW j \in 1..i
        PROVE  g[j].turn <= g[i].turn
    <3>1. i \in DOMAIN h /\ j \in 1..k
      BY <1>1
    <3>2. h[j].turn <= h[i].turn
      BY <1>8, <3>1 DEF InOrder
    <3> QED
      BY <1>1, <3>1, <3>2
  <2>2. ASSUME NEW i \in {k + 1, k + 2}, NEW j \in 1..i
        PROVE  g[j].turn <= g[i].turn
    <3>1. g[i].turn = t
      BY <1>1, <1>2
    <3>2. j \in 1..k \/ j = k + 1 \/ j = k + 2
      BY <1>1
    <3>3. CASE j \in 1..k
      <4>1. g[j].turn \in 1..n
        BY <1>1, <1>3, <3>3
      <4> QED
        BY <1>8, <3>1, <4>1
    <3>4. CASE j = k + 1 \/ j = k + 2
      <4>1. g[j].turn = t
        BY <1>1, <1>2, <3>4
      <4> QED
        BY <3>1, <4>1
    <3> QED
      BY <3>2, <3>3, <3>4
  <2> QED
    BY <1>1, <1>4, <2>1, <2>2 DEF InOrder
<1> QED
  BY <1>1, <1>5, <1>6, <1>7, <1>8 DEF g

(* Whole turns are dropped from the front of a history. *)
LEMMA CutFits ==
  ASSUME NEW h \in Seq(Messages), NEW a, NEW n \in Nat, OwnTurns(h, a, n), Whole(h)
  PROVE  /\ OwnTurns(Newest(2 * NTurns, h), a, n) /\ Whole(Newest(2 * NTurns, h))
         /\ Newest(2 * NTurns, h) \in Seq(Messages) /\ Len(Newest(2 * NTurns, h)) <= 2 * NTurns
<1> DEFINE g == Newest(2 * NTurns, h)
           d == Cut(2 * NTurns, h)
<1>1. NTurns \in Nat /\ 2 * NTurns \in Nat
  BY MemoryAssumption
<1>2. /\ d \in Nat /\ d <= Len(h) /\ g \in Seq(Messages) /\ Len(g) = Len(h) - d
      /\ Len(g) <= 2 * NTurns /\ DOMAIN g = 1..Len(g) /\ Len(g) \in Nat
      /\ \A i \in DOMAIN g : g[i] = h[i + d] /\ i + d \in DOMAIN h
  BY <1>1, NewestIs
<1>3. Len(h) \in Nat /\ Len(h) % 2 = 0 /\ d % 2 = 0
  <2>1. Len(h) \in Nat /\ Len(h) % 2 = 0 /\ (2 * NTurns) % 2 = 0
    BY <1>1, DoubleIsEven DEF Whole, Paired
  <2>2. 2 * NTurns <= Len(h) => (Len(h) - 2 * NTurns) % 2 = 0
    BY <1>1, <2>1, EvenShift
  <2>3. Len(h) > 2 * NTurns => 2 * NTurns <= Len(h)
    BY <1>1, <2>1
  <2>4. (d = Len(h) - 2 * NTurns /\ Len(h) > 2 * NTurns) \/ d = 0
    BY DEF Cut
  <2> QED
    BY <2>1, <2>2, <2>3, <2>4
<1> HIDE DEF g, d
<1>4. \A i \in Nat : (i + d) % 2 = i % 2
  BY <1>2, <1>3, EvenShift
<1>5. OwnTurns(g, a, n)
  BY <1>2 DEF OwnTurns
<1>6. Paired(g)
  <2>1. Len(g) % 2 = 0
    BY <1>2, <1>3, EvenShift
  <2>2. ASSUME NEW i \in DOMAIN g
        PROVE  /\ g[i].role = (IF i % 2 = 1 THEN "user" ELSE "assistant")
               /\ i % 2 = 0 => g[i].turn = g[i - 1].turn
    <3>1. i \in Nat /\ i > 0 /\ i <= Len(g) /\ Len(g) \in Nat /\ d \in Nat
      BY <1>2
    <3>2. i + d \in DOMAIN h /\ g[i] = h[i + d]
      BY <1>2
    <3>3. (i + d) % 2 = i % 2
      BY <1>4, <3>1
    <3>4. i % 2 = 0 => i - 1 \in Nat /\ i - 1 > 0
      BY <3>1, BeforeEven
    <3>5. i % 2 = 0 => i - 1 \in 1..Len(g) /\ (i - 1) + d = (i + d) - 1
      BY <3>1, <3>4
    <3>6. i % 2 = 0 => g[i - 1] = h[(i + d) - 1]
      BY <1>2, <3>5
    <3>7. /\ h[i + d].role = (IF (i + d) % 2 = 1 THEN "user" ELSE "assistant")
          /\ (i + d) % 2 = 0 => h[i + d].turn = h[(i + d) - 1].turn
      BY <3>2 DEF Whole, Paired
    <3> QED
      BY <3>2, <3>3, <3>6, <3>7
  <2> QED
    BY <2>1, <2>2 DEF Paired
<1>7. ASSUME NEW i \in DOMAIN g, NEW j \in 1..i
      PROVE  /\ j <= i - 2 => g[j].turn # g[i].turn
             /\ g[j].turn <= g[i].turn
  <2>1. j \in DOMAIN g /\ j + d \in 1..(i + d) /\ (j <= i - 2 => j + d \in 1..((i + d) - 2))
    BY <1>2
  <2> QED
    BY <1>2, <2>1 DEF Whole, EachOnce, InOrder
<1>8. \A i \in DOMAIN g : \A j \in 1..(i - 2) : j \in 1..i /\ j <= i - 2
  BY <1>2
<1>9. Whole(g)
  BY <1>6, <1>7, <1>8 DEF Whole, EachOnce, InOrder
<1> QED
  BY <1>2, <1>5, <1>9 DEF g


(* The reducer returns the history for a forwarded state, and puts a later exchange
   behind it otherwise. *)
LEMMA HistoryStays ==
  ASSUME NEW s \in Sessions, NEW h, NEW n \in Nat, HistoryOf(h, s, n)
  PROVE  /\ HistoryReducer(h, h) = h
         /\ HistoryOf(HistoryReducer(h, <<>>), s, n)
         /\ \A t \in Nat : n <= t => HistoryOf(h, s, t)
<1>1. HistoryReducer(h, h) = h
  BY DEF HistoryReducer
<1>2. HistoryOf(HistoryReducer(h, <<>>), s, n)
  <2>1. h \o <<>> = h
    BY DEF HistoryOf
  <2>2. HistoryReducer(h, <<>>) = h \/ HistoryReducer(h, <<>>) = Newest(2 * NTurns, h)
    BY <2>1 DEF HistoryReducer
  <2>3. HistoryOf(Newest(2 * NTurns, h), s, n)
    BY CutFits DEF HistoryOf
  <2> QED
    BY <2>2, <2>3
<1>3. ASSUME NEW t \in Nat, n <= t
      PROVE  HistoryOf(h, s, t)
  <2>1. \A i \in 1..n : i \in 1..t
    BY <1>3
  <2>2. OwnTurns(h, Owner[s], t)
    BY <2>1 DEF HistoryOf, OwnTurns
  <2> QED
    BY <2>2 DEF HistoryOf
<1> QED
  BY <1>1, <1>2, <1>3

(* A newer exchange sent through the reducer leaves a history of whole turns. *)
LEMMA HistoryGrows ==
  ASSUME NEW s \in Sessions, NEW h, NEW n \in Nat, HistoryOf(h, s, n), NEW t \in Nat, n < t,
         NEW x \in Seq(Messages), OwnTurns(x, Owner[s], t), Paired(x), Len(x) = 2, x[1].turn = t
  PROVE  HistoryOf(HistoryReducer(h, x), s, t)
<1>1. h \in Seq(Messages) /\ OwnTurns(h, Owner[s], n) /\ Whole(h)
  BY DEF HistoryOf
<1>2. h \o x \in Seq(Messages) /\ OwnTurns(h \o x, Owner[s], t) /\ Whole(h \o x)
  <2>1. \A j \in DOMAIN h : h[j].turn # t
    <3>1. \A j \in DOMAIN h : h[j].turn \in 1..n
      BY <1>1 DEF OwnTurns
    <3>2. \A k \in 1..n : k # t
      OBVIOUS
    <3> QED
      BY <3>1, <3>2
  <2>2. n <= t /\ t <= t
    OBVIOUS
  <2> QED
    BY <1>1, <2>1, <2>2, AppendedFits DEF Whole
<1>3. HistoryOf(Newest(2 * NTurns, h \o x), s, t)
  BY <1>2, CutFits DEF HistoryOf
<1>4. HistoryOf(h, s, t)
  <2>1. n <= t
    OBVIOUS
  <2> QED
    BY <2>1, HistoryStays
<1> QED
  BY <1>3, <1>4 DEF HistoryReducer

(* The two messages a request leaves (history_appender, append_turn). *)
LEMMA ExchangeIs ==
  ASSUME NEW s \in Sessions, NEW r, r.turn \in Nat, r.turn > 0,
         r.question \in Wordings, r.answer \in Wordings,
         NEW x, x \in {Exchange(s, r), TrimmedExchange(s, r)}
  PROVE  /\ x \in Seq(Messages) /\ Len(x) = 2
         /\ OwnTurns(x, Owner[s], r.turn) /\ Paired(x)
         /\ x[1].turn = r.turn
         /\ x = Exchange(s, r) => NoneCut(x)
<1> DEFINE u == Question(s, r)
           Answer(prose, machinery) ==
             Message("assistant", r.answer, prose, machinery, r.turn, Owner[s])
<1>1. /\ HasProse(r.answer) \in BOOLEAN /\ MachineryOf(r.answer) \in {"none", "blocks"}
      /\ HeadOf(r.answer) # "whole" => HeadOf(r.answer) \in {"none", "blocks", "cut"}
  BY AnswersAssumption DEF HasProse, MachineryOf, HeadOf, Heads
<1>2. Owner[s] \in Attorneys
  BY DEF Attorneys
<1>3. /\ u \in Messages /\ u.role = "user" /\ u.turn = r.turn /\ u.by = Owner[s]
      /\ u.machinery = "none"
  BY <1>2 DEF Question, Message, Messages
<1>4. ASSUME NEW prose \in BOOLEAN, NEW machinery \in {"none", "blocks", "cut"}
      PROVE  /\ Answer(prose, machinery) \in Messages /\ Answer(prose, machinery).role = "assistant"
             /\ Answer(prose, machinery).turn = r.turn /\ Answer(prose, machinery).by = Owner[s]
             /\ Answer(prose, machinery).machinery = machinery
  BY <1>2 DEF Message, Messages
<1>5. PICK prose \in BOOLEAN, machinery \in {"none", "blocks", "cut"} :
        /\ x = <<u, Answer(prose, machinery)>>
        /\ x = Exchange(s, r) => machinery # "cut"
  <2>1. Exchange(s, r) = <<u, Answer(HasProse(r.answer), MachineryOf(r.answer))>>
    BY DEF Exchange
  <2>2. CASE x = Exchange(s, r)
    BY <1>1, <2>1, <2>2
  <2>3. CASE x # Exchange(s, r)
    <3>1. HeadOf(r.answer) # "whole" /\ x = <<u, Answer(TRUE, HeadOf(r.answer))>>
      BY <2>3 DEF TrimmedExchange
    <3> QED
      BY <1>1, <2>3, <3>1
  <2> QED
    BY <2>2, <2>3
<1> DEFINE v == Answer(prose, machinery)
<1>6. /\ v \in Messages /\ v.role = "assistant" /\ v.turn = r.turn /\ v.by = Owner[s]
      /\ v.machinery = machinery
  BY <1>4
<1>7. x = <<u, v>>
  BY <1>5
<1> HIDE DEF u, v, Answer
<1>8. r.turn \in 1..r.turn
  OBVIOUS
<1>9. OwnTurns(x, Owner[s], r.turn)
  BY <1>3, <1>6, <1>7, <1>8 DEF OwnTurns
<1>10. Paired(x)
  <2>1. 2 % 2 = 0 /\ 1 % 2 = 1 /\ 2 - 1 = 1
    OBVIOUS
  <2> QED
    BY <1>3, <1>6, <1>7, <2>1 DEF Paired
<1>11. x = Exchange(s, r) => NoneCut(x)
  BY <1>3, <1>5, <1>6, <1>7 DEF NoneCut
<1> QED
  BY <1>3, <1>6, <1>7, <1>9, <1>10, <1>11

(* Uncut messages stay so in their newest part, and after more of them. *)
LEMMA NoneCutStays ==
  ASSUME NEW h \in Seq(Messages), NoneCut(h)
  PROVE  /\ \A m \in Nat : NoneCut(Newest(m, h))
         /\ \A x \in Seq(Messages) : NoneCut(x) => NoneCut(h \o x)
<1>1. ASSUME NEW m \in Nat
      PROVE  NoneCut(Newest(m, h))
  <2>1. \A i \in DOMAIN Newest(m, h) :
          Newest(m, h)[i] = h[i + Cut(m, h)] /\ i + Cut(m, h) \in DOMAIN h
    BY NewestIs
  <2> QED
    BY <2>1 DEF NoneCut
<1>2. ASSUME NEW x \in Seq(Messages), NoneCut(x)
      PROVE  NoneCut(h \o x)
  <2>1. ASSUME NEW i \in DOMAIN (h \o x)
        PROVE  \/ i \in DOMAIN h /\ (h \o x)[i] = h[i]
               \/ i - Len(h) \in DOMAIN x /\ (h \o x)[i] = x[i - Len(h)]
    OBVIOUS
  <2> QED
    BY <1>2, <2>1 DEF NoneCut
<1> QED
  BY <1>1, <1>2

Distinct(c) == \A i, j \in DOMAIN c : i # j => <<c[i].role, c[i].turn>> # <<c[j].role, c[j].turn>>

(* No role speaks twice in one request, in the table or in its newest part. *)
LEMMA PairedIsDistinct ==
  ASSUME NEW h \in Seq(Messages), Paired(h), EachOnce(h)
  PROVE  Distinct(h)
<1>1. ASSUME NEW i \in DOMAIN h, NEW j \in DOMAIN h, j < i
      PROVE  <<h[i].role, h[i].turn>> # <<h[j].role, h[j].turn>>
  <2>1. i \in Nat /\ j \in Nat /\ j > 0 /\ i > 0
    OBVIOUS
  <2>2. CASE j = i - 1
    <3>1. i % 2 = 0 => (i - 1) % 2 = 1
      BY <2>1
    <3>2. i % 2 # 0 => i % 2 = 1 /\ (i - 1) % 2 = 0
      BY <2>1
    <3>3. h[i].role # h[j].role
      <4>1. CASE i % 2 = 0
        BY <2>2, <3>1, <4>1 DEF Paired
      <4>2. CASE i % 2 # 0
        BY <2>2, <3>2, <4>2 DEF Paired
      <4> QED
        BY <4>1, <4>2
    <3> QED
      BY <3>3
  <2>3. CASE j # i - 1
    <3>1. j \in 1..(i - 2)
      BY <1>1, <2>1, <2>3
    <3> QED
      BY <3>1 DEF EachOnce
  <2> QED
    BY <2>2, <2>3
<1>2. \A i, j \in DOMAIN h : i # j => i < j \/ j < i
  OBVIOUS
<1> QED
  BY <1>1, <1>2 DEF Distinct

(* The newest m of distinct messages are distinct. *)
LEMMA NewestIsDistinct ==
  ASSUME NEW h \in Seq(Messages), NEW a, NEW n \in Nat, OwnTurns(h, a, n), Distinct(h),
         NEW m \in Nat
  PROVE  /\ Newest(m, h) \in Seq(Messages)
         /\ OwnTurns(Newest(m, h), a, n) /\ Distinct(Newest(m, h))
<1> DEFINE g == Newest(m, h)
           d == Cut(m, h)
<1>1. /\ d \in Nat /\ g \in Seq(Messages)
      /\ \A i \in DOMAIN g : g[i] = h[i + d] /\ i + d \in DOMAIN h
  BY NewestIs
<1>2. DOMAIN g \subseteq Nat
  BY <1>1
<1> HIDE DEF g, d
<1>3. OwnTurns(g, a, n)
  BY <1>1 DEF OwnTurns
<1>4. \A i, j \in DOMAIN g : i # j => i + d # j + d
  BY <1>1, <1>2
<1>5. Distinct(g)
  BY <1>1, <1>4 DEF Distinct
<1> QED
  BY <1>1, <1>3, <1>5 DEF g

(* _sanitize_history: no whole block is left, the attorney's own words are. *)
LEMMA SanitizedIsProse ==
  ASSUME NEW c \in Seq(Messages), NEW a, NEW n \in Nat, OwnTurns(c, a, n), Distinct(c)
  PROVE  /\ OwnWithoutBlocks(SanitizeHistory(c), a)
         /\ NoneCut(c) => NoneCut(SanitizeHistory(c))
         /\ \A i \in DOMAIN c : c[i].role = "user" =>
              i \in DOMAIN SanitizeHistory(c) /\ SanitizeHistory(c)[i].turn = c[i].turn
<1> DEFINE p == SanitizeHistory(c)
<1>1. /\ DOMAIN p \subseteq DOMAIN c
      /\ \A i \in DOMAIN c : c[i].role = "user" => i \in DOMAIN p
      /\ \A i \in DOMAIN p : p[i] = IF c[i].role = "assistant" /\ c[i].machinery = "blocks"
                                    THEN [c[i] EXCEPT !.machinery = "none"] ELSE c[i]
  BY DEF SanitizeHistory
<1> HIDE DEF p
<1>2. ASSUME NEW i \in DOMAIN p
      PROVE  /\ p[i].by = a /\ p[i].machinery # "blocks"
             /\ p[i].role = c[i].role /\ p[i].turn = c[i].turn
             /\ c[i].machinery # "cut" => p[i].machinery # "cut"
  <2>1. c[i] \in Messages /\ i \in DOMAIN c
    BY <1>1
  <2>2. CASE c[i].role = "assistant" /\ c[i].machinery = "blocks"
    <3>1. p[i] = [c[i] EXCEPT !.machinery = "none"]
      BY <1>1, <2>2
    <3>2. /\ p[i].by = c[i].by /\ p[i].role = c[i].role /\ p[i].turn = c[i].turn
          /\ p[i].machinery = "none"
      BY <2>1, <3>1 DEF Messages
    <3> QED
      BY <2>1, <3>2 DEF OwnTurns
  <2>3. CASE c[i].role # "assistant" \/ c[i].machinery # "blocks"
    <3>1. p[i] = c[i]
      BY <1>1, <2>3
    <3>2. p[i].machinery # "blocks"
      <4>1. CASE c[i].role = "assistant"
        BY <2>3, <3>1, <4>1
      <4>2. CASE c[i].role # "assistant"
        <5>1. c[i].role = "user"
          BY <2>1, <4>2 DEF Messages
        <5> QED
          BY <2>1, <3>1, <5>1 DEF OwnTurns
      <4> QED
        BY <4>1, <4>2
    <3> QED
      BY <2>1, <3>1, <3>2 DEF OwnTurns
  <2> QED
    BY <2>2, <2>3
<1>3. OwnWithoutBlocks(p, a)
  BY <1>1, <1>2 DEF OwnWithoutBlocks, Distinct
<1>4. \A i \in DOMAIN c : c[i].role = "user" => i \in DOMAIN p /\ p[i].turn = c[i].turn
  BY <1>1, <1>2
<1>5. NoneCut(c) => NoneCut(p)
  BY <1>1, <1>2 DEF NoneCut
<1> QED
  BY <1>3, <1>4, <1>5 DEF p

(* load_recent shows the question of the newest exchange, if it may show two messages. *)
LEMMA NewestHasAQuestion ==
  ASSUME NEW h \in Seq(Messages), Paired(h), h # <<>>, NEW m \in Nat, m > 1
  PROVE  \E i \in DOMAIN Newest(m, h) :
           /\ Newest(m, h)[i].role = "user"
           /\ \E j \in DOMAIN h : Newest(m, h)[i] = h[j]
<1> DEFINE g == Newest(m, h)
           d == Cut(m, h)
           k == Len(h)
<1>1. /\ d \in Nat /\ d <= k /\ k \in Nat /\ g \in Seq(Messages) /\ Len(g) = k - d
      /\ DOMAIN g = 1..(k - d) /\ DOMAIN h = 1..k
      /\ \A i \in DOMAIN g : g[i] = h[i + d] /\ i + d \in DOMAIN h
  BY NewestIs
<1>2. k > 0 /\ k % 2 = 0
  BY DEF Paired
<1>3. k > 1 /\ (k - 1) % 2 = 1
  BY <1>1, <1>2
<1>4. k - d > 1
  BY <1>1, <1>3 DEF d, Cut
<1> HIDE DEF g, d, k
<1>5. k - 1 \in 1..k
  BY <1>1, <1>3
<1>6. h[k - 1].role = "user"
  BY <1>1, <1>3, <1>5 DEF Paired
<1>7. (k - 1) - d \in 1..(k - d) /\ ((k - 1) - d) + d = k - 1
  BY <1>1, <1>3, <1>4
<1>8. g[(k - 1) - d] = h[k - 1]
  BY <1>1, <1>7
<1> QED
  BY <1>1, <1>5, <1>6, <1>7, <1>8 DEF g


-----------------------------------------------------------------------------
(* Reconciliation. *)

(* Among quotes one is not part of another. *)
LEMMA OneIsSpecific ==
  ASSUME NEW Q, Q \subseteq Quotes, Q # {}
  PROVE  \E q \in Q : Within[q] \cap Q = {}
<1> DEFINE R == StrictSubsetOrdering(Quotes)
           F == FiniteSubsetsOf(Quotes)
           W == {Within[q] : q \in Q}
<1>1. /\ IsFiniteSet(Quotes) /\ Within \in [Quotes -> SUBSET Quotes]
      /\ \A q \in Quotes : q \notin Within[q] /\ \A r \in Within[q] : Within[r] \subseteq Within[q]
  BY RecallAssumption
<1>2. W \subseteq SUBSET Quotes /\ W # {}
  BY <1>1
<1>3. IsWellFoundedOn(R, F) /\ F = SUBSET Quotes
  BY <1>1, FS_StrictSubsetOrderingWellFounded, FS_FiniteSubsetsOfFinite
<1>4. \E w \in W : \A y \in W : ~ (<<y, w>> \in R)
  <2> HIDE DEF W, R, F
  <2>1. W \subseteq F /\ W # {}
    BY <1>2, <1>3
  <2> QED
    BY <1>3, <2>1, WFMin
<1>5. PICK q \in Q : \A y \in W : ~ (<<y, Within[q]>> \in R)
  BY <1>4
<1>6. ASSUME NEW r \in Within[q], r \in Q
      PROVE  FALSE
  <2>1. q \in Quotes /\ r \in Quotes
    BY <1>6
  <2>2. /\ Within[r] \subseteq Within[q] /\ r \notin Within[r]
        /\ Within[r] \in SUBSET Quotes /\ Within[q] \in SUBSET Quotes
    BY <1>1, <2>1
  <2>3. <<Within[r], Within[q]>> \in R
    BY <1>6, <2>2 DEF StrictSubsetOrdering
  <2> QED
    BY <1>5, <1>6, <2>3
<1> QED
  BY <1>6

(* A quote that stands alone on a line is specific on it. *)
LEMMA QuotedIsSpecific ==
  ASSUME NEW lines, NEW l \in lines, l.quotes \subseteq Quotes,
         NEW q, StandsAlone(q, l)
  PROVE  q \in Specific(l, PlaceholderCandidates(lines))
<1> DEFINE refs == {c \in PlaceholderCandidates(lines) : Mentions(l, c)}
<1>1. q \in refs
  BY DEF PlaceholderCandidates, Mentions, StandsAlone
<1>2. \A c \in refs : c \notin Bundles /\ Mentions(l, c)
  BY DEF PlaceholderCandidates
<1>3. Within[q] \cap refs = {}
  BY <1>2 DEF StandsAlone
<1> QED
  BY <1>1, <1>3 DEF Specific

(* Of a line without bundles only quotes of its own are specific. *)
LEMMA SpecificIsQuoted ==
  ASSUME NEW lines, NEW l, l.quotes \subseteq Quotes, l \in lines, l.quotes \cap Bundles = {},
         NEW q \in Specific(l, PlaceholderCandidates(lines))
  PROVE  q \in l.quotes
<1>1. /\ q \in Quotes /\ (q \in l.quotes \/ Within[q] \cap l.quotes # {})
      /\ Within[q] \cap {c \in PlaceholderCandidates(lines) : Mentions(l, c)} = {}
  BY DEF Specific, PlaceholderCandidates, Mentions
<1>2. ASSUME NEW c \in Within[q], c \in l.quotes
      PROVE  FALSE
  <2>1. c \in PlaceholderCandidates(lines) /\ Mentions(l, c)
    BY <1>2 DEF PlaceholderCandidates, Mentions
  <2> QED
    BY <1>1, <1>2, <2>1
<1> QED
  BY <1>1, <1>2

(* What a dropped line quotes by itself is filled in the text. *)
LEMMA DroppedIsFilled ==
  ASSUME NEW lines, NEW l \in lines, l.quotes \subseteq Quotes, NEW open,
         Droppable(l, PlaceholderCandidates(lines), PlaceholderCandidates(lines) \ TextWith(open)),
         NEW q, StandsAlone(q, l)
  PROVE  Shows[q] \cap open = {}
<1>1. q \in Specific(l, PlaceholderCandidates(lines))
  BY QuotedIsSpecific
<1>2. q \notin TextWith(open)
  BY <1>1 DEF Droppable
<1> QED
  BY <1>2 DEF TextWith, StandsAlone

(* A dropped line is about something that is filled in the text. *)
LEMMA DroppedHasAFilled ==
  ASSUME NEW lines, NEW l \in lines, NEW open, AboutWhatItQuotes(l),
         Droppable(l, PlaceholderCandidates(lines), PlaceholderCandidates(lines) \ TextWith(open))
  PROVE  \E f \in l.about : f \notin open
<1>1. PICK q : q \in Specific(l, PlaceholderCandidates(lines))
  BY DEF Droppable
<1>2. q \in Quotes \ Bundles /\ Mentions(l, q)
  BY <1>1 DEF Specific, PlaceholderCandidates
<1>3. q \notin TextWith(open)
  BY <1>1 DEF Droppable
<1>4. Shows[q] \cap open = {}
  BY <1>2, <1>3 DEF TextWith
<1>5. Shows[q] \cap l.about # {}
  BY <1>2 DEF AboutWhatItQuotes
<1> QED
  BY <1>4, <1>5

(* A finding none of whose quotes is in the text is dropped. *)
LEMMA FilledIsDropped ==
  ASSUME NEW lines, NEW l \in lines, l.section # "gate", l.quotes \subseteq Quotes,
         l.quotes # {}, l.quotes \cap Bundles = {}, NEW open,
         \A q \in l.quotes : Shows[q] \cap open = {}
  PROVE  Droppable(l, PlaceholderCandidates(lines), PlaceholderCandidates(lines) \ TextWith(open))
<1>1. PICK q \in l.quotes : Within[q] \cap l.quotes = {}
  BY OneIsSpecific
<1>2. Specific(l, PlaceholderCandidates(lines)) # {}
  <2>1. ASSUME NEW x \in Within[q], Mentions(l, x)
        PROVE  FALSE
    <3>1. q \in Quotes /\ x \in Quotes /\ Within[x] \subseteq Within[q]
      BY RecallAssumption
    <3> QED
      BY <1>1, <2>1, <3>1 DEF Mentions
  <2>2. StandsAlone(q, l)
    BY <2>1 DEF StandsAlone
  <2> QED
    BY <2>2, QuotedIsSpecific
<1>3. ASSUME NEW c \in Specific(l, PlaceholderCandidates(lines))
      PROVE  c \in PlaceholderCandidates(lines) \ TextWith(open)
  <2>1. c \in PlaceholderCandidates(lines)
    BY DEF Specific
  <2>2. c \in l.quotes
    BY SpecificIsQuoted
  <2>3. c \notin TextWith(open)
    BY <2>2 DEF TextWith
  <2> QED
    BY <2>1, <2>3
<1> QED
  BY <1>2, <1>3 DEF Droppable

(* What reconciliation returns. *)
LEMMA ReconciledIs ==
  ASSUME NEW lines, NEW table, NEW text
  PROVE  /\ ReconcileReviewWithDoc(lines, table, text).lines
             = {l \in lines : ~ Droppable(l, PlaceholderCandidates(lines),
                                             PlaceholderCandidates(lines) \ text)}
         /\ ReconcileReviewWithDoc(lines, table, text).pending
              => SurvivingBlockers(ReconcileReviewWithDoc(lines, table, text).lines) = {}
<1> DEFINE C == PlaceholderCandidates(lines)
           filled == C \ text
           gone == {l \in lines : Droppable(l, C, filled)}
           dropped == UNION {Specific(l, C) : l \in gone}
           kept == lines \ gone
           cited == {q \in dropped : \E l \in {l \in kept : l.section = "gate"} : Mentions(l, q)}
           rec == ReconcileReviewWithDoc(lines, table, text)
<1>1. rec = Recalled(kept, dropped, cited, Neutralizes(kept, table, cited))
  BY DEF ReconcileReviewWithDoc, ReconcileGateVerdict
<1>2. kept = {l \in lines : ~ Droppable(l, C, filled)}
  OBVIOUS
<1> HIDE DEF kept, dropped, cited, rec
<1>3. rec.lines = kept /\ rec.pending = Neutralizes(kept, table, cited)
  BY <1>1 DEF Recalled
<1>4. rec.pending => SurvivingBlockers(kept) = {}
  BY <1>3 DEF Neutralizes
<1> QED
  BY <1>2, <1>3, <1>4 DEF rec

(* A stored review's lines, as the model of the answers types them. *)
LEMMA StoredLines ==
  ASSUME NEW name \in ReviewNames, NEW l \in TextOf(name).lines
  PROVE  /\ l.section \in Sections /\ l.quotes \subseteq Quotes
         /\ l.section = "key findings" => AboutWhatItQuotes(l)
BY AnswersAssumption DEF TextOf, ReviewNames, ErrorReview

(* The recalled review of a request whose recall fits agrees with the text it sent. *)
LEMMA RecallAgrees ==
  ASSUME NEW r, NEW name \in ReviewNames,
         r.recalled = ReconcileReviewWithDoc(StripRedlines(TextOf(name).lines),
                                             TextOf(name).table, TextWith(r.blanks))
  PROVE  /\ \A l \in StripRedlines(TextOf(name).lines) \ r.recalled.lines :
              /\ l.section = "key findings"
              /\ (\E f \in l.about : f \notin r.blanks) /\ (\A f \in l.about : ~ IsOpen(f, r, l))
         /\ \A l \in r.recalled.lines :
              l.section = "key findings" /\ l.quotes # {} /\ l.quotes \cap Bundles = {}
                /\ (\A q \in l.quotes : Shows[q] \subseteq l.about)
                => l.about \cap r.blanks # {}
         /\ r.recalled.pending =>
              \A l \in TextOf(name).lines :
                l.section = "key findings" /\ l.rating \in Blocking
                  => (\E f \in l.about : f \notin r.blanks) /\ (\A f \in l.about : ~ IsOpen(f, r, l))
<1> DEFINE lines == StripRedlines(TextOf(name).lines)
           C == PlaceholderCandidates(lines)
           Goes(l) == Droppable(l, C, C \ TextWith(r.blanks))
<1>1. \A l \in lines : l \in TextOf(name).lines /\ l.section # "redlines"
  BY DEF StripRedlines
<1>2. /\ r.recalled.lines = {l \in lines : ~ Goes(l)}
      /\ r.recalled.pending => SurvivingBlockers(r.recalled.lines) = {}
  <2> DEFINE rec == ReconcileReviewWithDoc(lines, TextOf(name).table, TextWith(r.blanks))
  <2>1. /\ rec.lines = {l \in lines : ~ Droppable(l, C, C \ TextWith(r.blanks))}
        /\ rec.pending => SurvivingBlockers(rec.lines) = {}
    <3> HIDE DEF lines
    <3> QED
      BY ReconciledIs
  <2>2. r.recalled = rec
    OBVIOUS
  <2> HIDE DEF rec, lines
  <2> QED
    BY <2>1, <2>2
<1> HIDE DEF lines
<1>3. ASSUME NEW l \in lines, Goes(l)
      PROVE  /\ l.section = "key findings"
             /\ (\E f \in l.about : f \notin r.blanks) /\ (\A f \in l.about : ~ IsOpen(f, r, l))
  <2>1. /\ l.quotes \subseteq Quotes /\ l.section = "key findings" /\ AboutWhatItQuotes(l)
    <3>1. l.section \in Sections /\ l.section # "redlines" /\ l.section # "gate"
      BY <1>1, <1>3, StoredLines DEF Droppable
    <3> QED
      BY <1>1, <3>1, StoredLines DEF Sections
  <2>2. \E f \in l.about : f \notin r.blanks
    BY <1>3, <2>1, DroppedHasAFilled
  <2>3. ASSUME NEW f \in l.about, IsOpen(f, r, l)
        PROVE  FALSE
    <3>1. PICK q : f \in r.blanks /\ StandsAlone(q, l) /\ f \in Shows[q]
      BY <2>3 DEF IsOpen
    <3>2. Shows[q] \cap r.blanks = {}
      BY <1>3, <2>1, <3>1, DroppedIsFilled
    <3> QED
      BY <3>1, <3>2
  <2> QED
    BY <2>1, <2>2, <2>3
<1>4. ASSUME NEW l \in r.recalled.lines, l.section = "key findings", l.quotes # {},
             l.quotes \cap Bundles = {}, \A q \in l.quotes : Shows[q] \subseteq l.about,
             l.about \cap r.blanks = {}
      PROVE  FALSE
  <2>1. l \in lines /\ ~ Goes(l)
    BY <1>2
  <2>2. l.quotes \subseteq Quotes
    BY <1>1, <2>1, StoredLines
  <2>3. \A q \in l.quotes : Shows[q] \cap r.blanks = {}
    BY <1>4
  <2>4. l.section # "gate"
    BY <1>4
  <2>5. Goes(l)
    BY <1>4, <2>1, <2>2, <2>3, <2>4, FilledIsDropped
  <2> QED
    BY <2>1, <2>5
<1>5. ASSUME r.recalled.pending, NEW l \in TextOf(name).lines, l.section = "key findings",
             l.rating \in Blocking
      PROVE  l \in lines /\ Goes(l)
  <2>1. l \in lines
    BY <1>5 DEF lines, StripRedlines
  <2>2. l \notin r.recalled.lines
    BY <1>2, <1>5 DEF SurvivingBlockers
  <2> QED
    BY <1>2, <2>1, <2>2
<1>6. \A l \in lines \ r.recalled.lines : Goes(l)
  BY <1>2
<1> HIDE DEF Goes
<1> QED
  BY <1>3, <1>4, <1>5, <1>6 DEF lines


-----------------------------------------------------------------------------
(* Requests. *)

IsRecord(r) == r = [f \in RequestFields |-> r[f]]

(* A session starts with a record of the request's fields. *)
LEMMA IdleIs == IsRecord(Idle)
BY DEF IsRecord, Idle, RequestFields

Replaced(f, s, b, v) == [f EXCEPT ![s][b] = v]

(* Replacing one tab's request changes no other. *)
LEMMA BoardUpdate ==
  ASSUME NEW f, IsBoard(f), NEW s \in Sessions, NEW b \in Tabs, NEW v
  PROVE  /\ IsBoard(Replaced(f, s, b, v)) /\ Replaced(f, s, b, v)[s][b] = v
         /\ \A u \in Sessions, c \in Tabs :
              u # s \/ c # b => Replaced(f, s, b, v)[u][c] = f[u][c]
BY DEF IsBoard, Replaced

(* A request as the pane sends it. *)
Asked(n, q, text, lost, seen, rows, h) ==
  [phase |-> "asked", turn |-> n, question |-> q, blanks |-> text, stateless |-> lost,
   history |-> h, known |-> seen, rows |-> rows, review |-> 0,
   recalled |-> NothingRecalled, conversation |-> <<>>, degraded |-> lost,
   unsaved |-> FALSE, codes |-> {}, faulty |-> {}, answer |-> "", proposed |-> <<>>,
   offered |-> FALSE]

(* The EXCEPT of Sends is the record Asked. *)
LEMMA AskedIs ==
  ASSUME NEW n, NEW q, NEW text, NEW lost, NEW seen, NEW rows, NEW h
  PROVE  [Idle EXCEPT !.phase = "asked", !.turn = n, !.question = q, !.blanks = text,
                      !.stateless = lost, !.degraded = lost, !.known = seen, !.rows = rows,
                      !.history = h]
         = Asked(n, q, text, lost, seen, rows, h)
<1>1. ASSUME NEW v,
             v = [Idle EXCEPT !.phase = "asked", !.turn = n, !.question = q, !.blanks = text,
                              !.stateless = lost, !.degraded = lost, !.known = seen,
                              !.rows = rows, !.history = h]
      PROVE  v = Asked(n, q, text, lost, seen, rows, h)
  BY <1>1 DEF Asked, Idle
<1> QED
  BY <1>1, Zenon

(* A request as asked has the fields of a request. *)
LEMMA AskedIsRecord ==
  ASSUME NEW n, NEW q, NEW text, NEW lost, NEW seen, NEW rows, NEW h
  PROVE  IsRecord(Asked(n, q, text, lost, seen, rows, h))
BY DEF Asked, IsRecord, RequestFields

(* What the fields of a request as asked hold. *)
LEMMA AskedFields ==
  ASSUME NEW n, NEW q, NEW text, NEW lost, NEW seen, NEW rows, NEW h
  PROVE  /\ Asked(n, q, text, lost, seen, rows, h).phase = "asked"
         /\ Asked(n, q, text, lost, seen, rows, h).turn = n
         /\ Asked(n, q, text, lost, seen, rows, h).question = q
         /\ Asked(n, q, text, lost, seen, rows, h).stateless = lost
         /\ Asked(n, q, text, lost, seen, rows, h).degraded = lost
         /\ Asked(n, q, text, lost, seen, rows, h).known = seen
         /\ Asked(n, q, text, lost, seen, rows, h).rows = rows
         /\ Asked(n, q, text, lost, seen, rows, h).history = h
         /\ Asked(n, q, text, lost, seen, rows, h).conversation = <<>>
         /\ Asked(n, q, text, lost, seen, rows, h).review = 0
         /\ Asked(n, q, text, lost, seen, rows, h).unsaved \in BOOLEAN
<1> DEFINE v == Asked(n, q, text, lost, seen, rows, h)
<1>1. v.unsaved = FALSE
  BY DEF Asked
<1>2. v.unsaved \in BOOLEAN
  BY <1>1, Zenon
<1> QED
  BY <1>2 DEF Asked


(* What the handlers write into a request. *)
ReadInto(r, rev, h, d, rec, c) ==
  [r EXCEPT !.review = rev, !.history = h, !.degraded = d, !.recalled = rec, !.conversation = c]
AnsweredInto(r, codes, faulty, a, p, o) ==
  [r EXCEPT !.phase = "answered", !.codes = codes, !.faulty = faulty, !.answer = a,
            !.proposed = p, !.offered = o]
ReviewedInto(r, codes, a, h) ==
  [r EXCEPT !.phase = "answered", !.codes = codes, !.answer = a, !.history = h]
AppendedInto(r, h) == [r EXCEPT !.phase = "appended", !.history = h]
DoneInto(r, u, d) == [r EXCEPT !.phase = "done", !.unsaved = u, !.degraded = d]
KeptInto(r, d) == [r EXCEPT !.phase = "done", !.degraded = d]

(* A request with the reads of its turn, and with its answer. *)
LEMMA ReadFields ==
  ASSUME NEW r, IsRecord(r), NEW rev, NEW h, NEW d, NEW rec, NEW c,
         NEW v, v = ReadInto(r, rev, h, d, rec, c)
  PROVE  /\ IsRecord(v)
         /\ v.review = rev /\ v.history = h /\ v.degraded = d /\ v.recalled = rec
         /\ v.conversation = c
         /\ \A f \in RequestFields \ {"review", "history", "degraded", "recalled", "conversation"} :
              v[f] = r[f]
BY DEF IsRecord, RequestFields, ReadInto

(* What an answer changes of a request. *)
LEMMA AnswerFields ==
  ASSUME NEW r, IsRecord(r), NEW codes, NEW faulty, NEW a, NEW p, NEW o,
         NEW v, v = AnsweredInto(r, codes, faulty, a, p, o)
  PROVE  /\ IsRecord(v)
         /\ v.phase = "answered" /\ v.codes = codes /\ v.faulty = faulty /\ v.answer = a
         /\ v.proposed = p /\ v.offered = o
         /\ \A f \in RequestFields \ {"phase", "codes", "faulty", "answer", "proposed", "offered"} :
              v[f] = r[f]
BY DEF IsRecord, RequestFields, AnsweredInto

(* What the answer of a review changes of a request. *)
LEMMA ReviewFields ==
  ASSUME NEW r, IsRecord(r), NEW codes, NEW a, NEW h,
         NEW v, v = ReviewedInto(r, codes, a, h)
  PROVE  /\ IsRecord(v)
         /\ v.phase = "answered" /\ v.codes = codes /\ v.answer = a /\ v.history = h
         /\ \A f \in RequestFields \ {"phase", "codes", "answer", "history"} :
              v[f] = r[f]
BY DEF IsRecord, RequestFields, ReviewedInto

(* A request whose exchange is in the history, and one that is done. *)
LEMMA AppendFields ==
  ASSUME NEW r, IsRecord(r), NEW h,
         NEW v, v = AppendedInto(r, h)
  PROVE  /\ IsRecord(v)
         /\ v.phase = "appended" /\ v.history = h
         /\ \A f \in RequestFields \ {"phase", "history"} :
              v[f] = r[f]
BY DEF IsRecord, RequestFields, AppendedInto

(* What the end of a review's request changes. *)
LEMMA DoneFields ==
  ASSUME NEW r, IsRecord(r), NEW u, NEW d,
         NEW v, v = DoneInto(r, u, d)
  PROVE  /\ IsRecord(v)
         /\ v.phase = "done" /\ v.unsaved = u /\ v.degraded = d
         /\ \A f \in RequestFields \ {"phase", "unsaved", "degraded"} :
              v[f] = r[f]
BY DEF IsRecord, RequestFields, DoneInto

(* What the end of a chat's request changes. *)
LEMMA KeptFields ==
  ASSUME NEW r, IsRecord(r), NEW d,
         NEW v, v = KeptInto(r, d)
  PROVE  /\ IsRecord(v)
         /\ v.phase = "done" /\ v.degraded = d
         /\ \A f \in RequestFields \ {"phase", "degraded"} :
              v[f] = r[f]
BY DEF IsRecord, RequestFields, KeptInto

-----------------------------------------------------------------------------
(* What fits keeps fitting while the tables grow. *)

Extends(u, v) == Len(u) <= Len(v) /\ \A i \in 1..Len(u) : v[i] = u[i]

(* A sequence that was extended holds what it held. *)
LEMMA ExtendsAt ==
  ASSUME NEW T, NEW u \in Seq(T), NEW v \in Seq(T), Extends(u, v)
  PROVE  \A j \in DOMAIN u : j \in DOMAIN v /\ v[j] = u[j]
BY DEF Extends

(* Appending extends. *)
LEMMA ExtendsMore ==
  ASSUME NEW T, NEW u \in Seq(T)
  PROVE  /\ Extends(u, u)
         /\ \A e \in T : Append(u, e) \in Seq(T) /\ Extends(u, Append(u, e))
         /\ \A x \in Seq(T) : u \o x \in Seq(T) /\ Extends(u, u \o x)
BY DEF Extends

(* What is true of one request survives the writes of others: reviews and rows are only
   appended, and turn numbers only grow. *)
LEMMA RequestStays ==
  ASSUME NEW s \in Sessions, NEW b \in Tabs, NEW r,
         NEW revs \in Seq(ReviewRows), NEW revs2 \in Seq(ReviewRows), Extends(revs, revs2),
         NEW st, NEW st2, NEW n \in Nat, NEW n2 \in Nat, n <= n2,
         st[Owner[s]] \in Seq(Messages), st2[Owner[s]] \in Seq(Messages),
         Extends(st[Owner[s]], st2[Owner[s]]),
         b = "chat" /\ r.phase \in {"asked", "answered", "appended"} =>
           \A a \in Attorneys : \A j \in DOMAIN st2[a] : st2[a][j].turn # r.turn,
         RequestFits(r, s, b, revs, st, n)
  PROVE  RequestFits(r, s, b, revs2, st2, n2)
<1>1. /\ IsRequest(r) /\ r.turn <= n2 /\ (r.phase # "idle" => r.turn > 0)
      /\ (IsPending(r) => HistoryOf(r.history, s, r.turn - 1))
  <2>1. IsRequest(r) /\ r.turn <= n /\ r.turn \in Nat
    BY DEF RequestFits, IsRequest
  <2>2. r.turn <= n2
    BY <2>1
  <2> QED
    BY <2>1, <2>2 DEF RequestFits
<1>2. ASSUME b = "chat"
      PROVE  ChatFits(r, s, revs2, st2)
  <2>1. ChatFits(r, s, revs, st)
    BY <1>2 DEF RequestFits
  <2>2. r.known <= Len(revs2) /\ r.rows <= Len(st2[Owner[s]])
    <3>1. r.known \in Nat /\ r.rows \in Nat /\ r.known <= Len(revs) /\ r.rows <= Len(st[Owner[s]])
      BY <1>1, <2>1 DEF IsRequest, ChatFits
    <3>2. Len(revs) <= Len(revs2) /\ Len(st[Owner[s]]) <= Len(st2[Owner[s]])
      BY DEF Extends
    <3> QED
      BY <3>1, <3>2
  <2>3. ASSUME RecallFits(r, revs)
        PROVE  RecallFits(r, revs2)
    <3>1. r.review \in Nat /\ r.review <= Len(revs) /\ Len(revs) <= Len(revs2)
      BY <1>1, <2>3 DEF IsRequest, RecallFits, Extends
    <3>2. r.review > 0 => revs2[r.review] = revs[r.review]
      BY <3>1 DEF Extends
    <3>3. r.review <= Len(revs2)
      BY <3>1
    <3> QED
      BY <2>3, <3>2, <3>3 DEF RecallFits
  <2>4. ASSUME ConversationTold(r, st[Owner[s]])
        PROVE  ConversationTold(r, st2[Owner[s]])
    <3>1. \A j \in DOMAIN st[Owner[s]] : j \in DOMAIN st2[Owner[s]]
                                         /\ st2[Owner[s]][j] = st[Owner[s]][j]
      BY ExtendsAt
    <3> QED
      BY <2>4, <3>1 DEF ConversationTold
  <2> QED
    BY <1>2, <2>1, <2>2, <2>3, <2>4 DEF ChatFits
<1>3. ASSUME b = "findings"
      PROVE  ReviewFits(r, revs2)
  <2>1. \A i \in DOMAIN revs : i \in DOMAIN revs2 /\ revs2[i] = revs[i]
    BY DEF Extends
  <2> QED
    BY <1>3, <2>1 DEF RequestFits, ReviewFits
<1> QED
  BY <1>1, <1>2, <1>3 DEF RequestFits


(* The stores still fit when the turn counter has moved on. *)
LEMMA StoresStay ==
  ASSUME StoresFit, NEW n \in Nat, turns <= n
  PROVE  /\ \A a \in Attorneys : RowsOf(stored[a], a, n)
         /\ \A s \in Sessions : HistoryOf(history[s], s, n)
<1>0. turns \in Nat /\ \A i \in 1..turns : i \in 1..n
  BY DEF StoresFit
<1>1. ASSUME NEW a \in Attorneys
      PROVE  RowsOf(stored[a], a, n)
  <2>1. RowsOf(stored[a], a, turns)
    BY DEF StoresFit
  <2>2. OwnTurns(stored[a], a, n)
    BY <1>0, <2>1 DEF RowsOf, OwnTurns
  <2> QED
    BY <2>1, <2>2 DEF RowsOf
<1>2. \A s \in Sessions : HistoryOf(history[s], s, n)
  BY <1>0, HistoryStays DEF StoresFit
<1> QED
  BY <1>1, <1>2

(* One request moves, on tables that grow by no message of another request. *)
LEMMA OneMoves ==
  ASSUME StoresFit, BoardFits, StoresFit',
         NEW s \in Sessions, NEW b \in Tabs, NEW v, request' = Replaced(request, s, b, v),
         Extends(reviews, reviews'), turns <= turns',
         \A a \in Attorneys : Extends(stored[a], stored'[a]),
         \A a \in Attorneys : \A j \in DOMAIN stored'[a] :
           \/ j \in DOMAIN stored[a]
           \/ request[s][b].phase # "idle" /\ stored'[a][j].turn = request[s][b].turn,
         RequestFits(v, s, b, reviews', stored', turns'),
         \/ v.turn > turns
         \/ v.turn = request[s][b].turn /\ request[s][b].phase # "idle"
  PROVE  BoardFits'
<1>0. /\ IsBoard(request) /\ TurnsTellApart(request) /\ turns \in Nat /\ turns' \in Nat
      /\ \A u \in Sessions, c \in Tabs : RequestFits(request[u][c], u, c, reviews, stored, turns)
      /\ \A u \in Sessions : Owner[u] \in Attorneys
  BY DEF BoardFits, StoresFit, Attorneys
<1>1. /\ IsBoard(request') /\ request'[s][b] = v
      /\ \A u \in Sessions, c \in Tabs : u # s \/ c # b => request'[u][c] = request[u][c]
  BY <1>0, BoardUpdate
<1>2. \A u \in Sessions, c \in Tabs : request[u][c].turn <= turns /\ request[u][c].turn \in Nat
  BY <1>0 DEF RequestFits, IsRequest
<1>3. TurnsTellApart(request')
  <2>1. ASSUME NEW u \in Sessions, NEW c \in Tabs, u # s \/ c # b
        PROVE  /\ request[u][c].phase # "idle" => request[u][c].turn # v.turn
               /\ request[u][c].turn # v.turn \/ v.phase = "idle"
    <3>1. CASE v.turn > turns
      <4>1. request[u][c].turn <= turns /\ request[u][c].turn \in Nat
        BY <1>2
      <4>2. v.turn \in Nat
        BY DEF RequestFits, IsRequest
      <4> QED
        BY <1>0, <3>1, <4>1, <4>2
    <3>2. CASE v.turn = request[s][b].turn /\ request[s][b].phase # "idle"
      BY <1>0, <2>1, <3>2 DEF TurnsTellApart
    <3> QED
      BY <3>1, <3>2
  <2>2. ASSUME NEW t \in Sessions, NEW u \in Sessions, NEW d \in Tabs, NEW c \in Tabs,
               request'[t][d].phase # "idle", request'[t][d].turn = request'[u][c].turn
        PROVE  t = u /\ d = c
    <3>1. CASE t = s /\ d = b
      BY <1>1, <2>1, <2>2, <3>1
    <3>2. CASE u = s /\ c = b
      BY <1>1, <2>1, <2>2, <3>2
    <3>3. CASE (t # s \/ d # b) /\ (u # s \/ c # b)
      BY <1>0, <1>1, <2>2, <3>3 DEF TurnsTellApart
    <3> QED
      BY <3>1, <3>2, <3>3
  <2> QED
    BY <2>2 DEF TurnsTellApart
<1>4. ASSUME NEW u \in Sessions, NEW c \in Tabs, u # s \/ c # b
      PROVE  RequestFits(request[u][c], u, c, reviews', stored', turns')
  <2> DEFINE r == request[u][c]
  <2>1. RequestFits(r, u, c, reviews, stored, turns)
    BY <1>0
  <2>2. ASSUME c = "chat", r.phase \in {"asked", "answered", "appended"},
               NEW a \in Attorneys, NEW j \in DOMAIN stored'[a]
        PROVE  stored'[a][j].turn # r.turn
    <3>1. \A k \in DOMAIN stored[a] : stored[a][k].turn # r.turn
      BY <2>1, <2>2 DEF RequestFits, ChatFits
    <3>2. CASE j \in DOMAIN stored[a]
      <4>1. stored[a] \in Seq(Messages) /\ stored'[a] \in Seq(Messages)
        BY DEF StoresFit, RowsOf
      <4>2. stored'[a][j] = stored[a][j]
        BY <3>2, <4>1, ExtendsAt
      <4> QED
        BY <3>1, <3>2, <4>2
    <3>3. CASE request[s][b].phase # "idle" /\ stored'[a][j].turn = request[s][b].turn
      BY <1>0, <1>4, <3>3 DEF TurnsTellApart
    <3> QED
      BY <3>2, <3>3
  <2>3. /\ reviews \in Seq(ReviewRows) /\ reviews' \in Seq(ReviewRows)
        /\ stored[Owner[u]] \in Seq(Messages) /\ stored'[Owner[u]] \in Seq(Messages)
        /\ Extends(stored[Owner[u]], stored'[Owner[u]])
    BY <1>0 DEF StoresFit, RowsOf
  <2> HIDE DEF r
  <2>4. RequestFits(r, u, c, reviews', stored', turns')
    BY <1>0, <2>1, <2>2, <2>3, RequestStays
  <2> QED
    BY <2>4 DEF r
<1>5. \A u \in Sessions, c \in Tabs : RequestFits(request'[u][c], u, c, reviews', stored', turns')
  <2>1. \A u \in Sessions, c \in Tabs : u # s \/ c # b =>
          RequestFits(request'[u][c], u, c, reviews', stored', turns')
    BY <1>1, <1>4
  <2>2. RequestFits(request'[s][b], s, b, reviews', stored', turns')
    BY <1>1
  <2> QED
    BY <2>1, <2>2
<1> QED
  BY <1>1, <1>3, <1>5 DEF BoardFits


-----------------------------------------------------------------------------
(* The steps. *)

\* Before the first turn the stores fit.
LEMMA EmptyHistory ==
  ASSUME NEW s \in Sessions, NEW n \in Nat
  PROVE  HistoryOf(<<>>, s, n) /\ \A a \in Attorneys : RowsOf(<<>>, a, n)
<1>1. 0 <= 2 * NTurns /\ 0 % 2 = 0 /\ Len(<<>>) = 0 /\ DOMAIN <<>> = {}
  BY MemoryAssumption
<1>2. <<>> \in Seq(Messages)
  OBVIOUS
<1> QED
  BY <1>1, <1>2 DEF HistoryOf, RowsOf, OwnTurns, Whole, Paired, EachOnce, InOrder, NoneCut

(* The initial state satisfies the invariant. *)
LEMMA InitFits == Init => IInv
<1> SUFFICES ASSUME Init
             PROVE  IInv
  OBVIOUS
<1>1. StoresFit
  <2>1. turns = 0 /\ reviews = <<>> /\ stored = [a \in Attorneys |-> <<>>]
        /\ history = [s \in Sessions |-> <<>>]
    BY DEF Init
  <2>2. \A a \in Attorneys : RowsOf(<<>>, a, 0)
    <3>1. ASSUME NEW a \in Attorneys
          PROVE  RowsOf(<<>>, a, 0)
      <4>1. PICK s \in Sessions : a = Owner[s]
        BY DEF Attorneys
      <4> QED
        BY EmptyHistory
    <3> QED
      BY <3>1
  <2>3. \A s \in Sessions : HistoryOf(<<>>, s, 0)
    BY EmptyHistory
  <2> QED
    BY <2>1, <2>2, <2>3 DEF StoresFit
<1>2. blanks \subseteq Fields
  BY DEF Init
<1>3. BoardFits
  <2>1. request = [s \in Sessions |-> [b \in Tabs |-> Idle]]
    BY DEF Init
  <2>2. /\ IsRecord(Idle) /\ Idle.phase = "idle" /\ Idle.turn = 0 /\ Idle.known = 0
        /\ Idle.rows = 0 /\ Idle.review = 0 /\ Idle.stateless = FALSE /\ Idle.degraded = FALSE
        /\ Idle.unsaved = FALSE
    BY IdleIs DEF Idle
  <2>3. Idle.conversation = <<>>
    BY DEF Idle
  <2>4. IsRequest(Idle)
    <3>1. Idle.degraded \in BOOLEAN /\ Idle.stateless \in BOOLEAN /\ Idle.unsaved \in BOOLEAN
      BY <2>2, Zenon
    <3>2. Idle.phase \in Phases /\ Idle.turn \in Nat /\ Idle.known \in Nat /\ Idle.rows \in Nat
          /\ Idle.review \in Nat
      BY <2>2 DEF Phases
    <3> QED
      BY <2>2, <3>1, <3>2 DEF IsRequest, IsRecord
  <2>5. ASSUME NEW s \in Sessions, NEW b \in Tabs
        PROVE  RequestFits(Idle, s, b, reviews, stored, turns)
    <3>1. reviews = <<>> /\ turns = 0 /\ Len(stored[Owner[s]]) = 0
      BY DEF Init, Attorneys
    <3>2. ChatFits(Idle, s, reviews, stored)
      BY <2>2, <2>3, <3>1 DEF ChatFits, OwnProse, OwnWithoutBlocks, NoneCut, IsPrompted
    <3>3. ReviewFits(Idle, reviews)
      BY <2>2 DEF ReviewFits, IsPrompted
    <3> QED
      BY <2>2, <2>4, <3>1, <3>2, <3>3 DEF RequestFits, IsPending
  <2>6. IsBoard(request) /\ TurnsTellApart(request)
    BY <2>1, <2>2 DEF IsBoard, TurnsTellApart
  <2> QED
    BY <2>1, <2>5, <2>6 DEF BoardFits
<1> QED
  BY <1>1, <1>2, <1>3 DEF IInv

(* What the invariant says of one request. *)
LEMMA OneFits ==
  ASSUME IInv, NEW s \in Sessions, NEW b \in Tabs
  PROVE  /\ RequestFits(request[s][b], s, b, reviews, stored, turns)
         /\ IsRecord(request[s][b]) /\ request[s][b].turn \in Nat /\ request[s][b].turn <= turns
         /\ turns \in Nat /\ Owner[s] \in Attorneys
         /\ (b = "chat" => ChatFits(request[s][b], s, reviews, stored))
         /\ (b = "findings" => ReviewFits(request[s][b], reviews))
<1>1. RequestFits(request[s][b], s, b, reviews, stored, turns) /\ turns \in Nat
  BY DEF IInv, BoardFits, StoresFit
<1>2. IsRequest(request[s][b]) /\ request[s][b].turn <= turns
  BY <1>1 DEF RequestFits
<1>3. IsRecord(request[s][b]) /\ request[s][b].turn \in Nat
  BY <1>2 DEF IsRequest, IsRecord
<1>4. /\ (b = "chat" => ChatFits(request[s][b], s, reviews, stored))
      /\ (b = "findings" => ReviewFits(request[s][b], reviews))
  BY <1>1 DEF RequestFits
<1> QED
  BY <1>1, <1>2, <1>3, <1>4 DEF Attorneys

IsTruth(x) == x \in BOOLEAN

(* An empty conversation is the attorney's own prose. *)
LEMMA EmptyIsOwnProse ==
  ASSUME NEW a, NEW r, r.conversation = <<>>
  PROVE  OwnProse(r, a)
<1>1. DOMAIN <<>> = {}
  OBVIOUS
<1> QED
  BY <1>1 DEF OwnProse, OwnWithoutBlocks, NoneCut

(* What a tab may ask. *)
MayAsk(b, q) ==
  (b = "chat" => q \in DOMAIN Questions) /\ (b = "findings" => q = "Review this contract.")

(* A request as it is sent fits the tables it was sent over. *)
LEMMA AskedFits ==
  ASSUME NEW s \in Sessions, NEW b \in Tabs, NEW t \in Nat, t > 0,
         NEW revs, NEW st, NEW v, MayAsk(b, v.question), HistoryOf(v.history, s, t - 1),
         \A a \in Attorneys : \A j \in DOMAIN st[a] : st[a][j].turn # t,
         IsRequest(v), v.phase = "asked", v.turn = t, v.stateless => v.degraded,
         v.known <= Len(revs), v.rows <= Len(st[Owner[s]]), v.conversation = <<>>
  PROVE  RequestFits(v, s, b, revs, st, t)
<1>1. v.phase # "idle" /\ v.phase # "done" /\ ~ IsPrompted(v)
  BY DEF IsPrompted
<1>2. OwnProse(v, Owner[s])
  BY EmptyIsOwnProse
<1>3. ASSUME b = "chat"
      PROVE  ChatFits(v, s, revs, st)
  BY <1>1, <1>2, <1>3, Zenon DEF ChatFits, MayAsk
<1>4. ASSUME b = "findings"
      PROVE  ReviewFits(v, revs)
  BY <1>1, <1>4, Zenon DEF ReviewFits, MayAsk
<1>5. v.turn <= t /\ v.turn > 0 /\ HistoryOf(v.history, s, v.turn - 1)
  OBVIOUS
<1> QED
  BY <1>3, <1>4, <1>5 DEF RequestFits

(* A pane s may send q for the t-th request, over these tables. *)
MaySend(t, q, lost, seen, rows, h, s, b, revs, st) ==
  /\ s \in Sessions /\ b \in Tabs /\ t \in Nat /\ t > 0 /\ MayAsk(b, q) /\ lost \in BOOLEAN
  /\ HistoryOf(h, s, t - 1)
  /\ \A a \in Attorneys : \A j \in DOMAIN st[a] : st[a][j].turn # t
  /\ seen \in Nat /\ rows \in Nat /\ seen <= Len(revs) /\ rows <= Len(st[Owner[s]])

(* A request just sent satisfies its part of the invariant. *)
LEMMA SentFits ==
  ASSUME NEW t, NEW q, NEW text, NEW lost, NEW seen, NEW rows, NEW h, NEW s, NEW b,
         NEW revs, NEW st, MaySend(t, q, lost, seen, rows, h, s, b, revs, st)
  PROVE  /\ RequestFits(Asked(t, q, text, lost, seen, rows, h), s, b, revs, st, t)
         /\ Asked(t, q, text, lost, seen, rows, h).turn = t
<1>0. /\ s \in Sessions /\ b \in Tabs /\ t \in Nat /\ t > 0 /\ MayAsk(b, q)
      /\ HistoryOf(h, s, t - 1)
      /\ \A a \in Attorneys : \A j \in DOMAIN st[a] : st[a][j].turn # t
      /\ seen \in Nat /\ rows \in Nat /\ seen <= Len(revs) /\ rows <= Len(st[Owner[s]])
  BY DEF MaySend
<1>9. lost \in BOOLEAN
  BY DEF MaySend
<1> DEFINE v == Asked(t, q, text, lost, seen, rows, h)
<1>1. /\ v.phase = "asked" /\ v.turn = t /\ v.question = q /\ v.stateless = lost
      /\ v.degraded = lost /\ v.known = seen /\ v.rows = rows /\ v.history = h
      /\ v.conversation = <<>> /\ v.review = 0 /\ v.unsaved \in BOOLEAN
  BY AskedFields
<1>2. IsRecord(v)
  BY AskedIsRecord
<1> HIDE DEF v
<1>3. IsRequest(v)
  <2>1. v.review \in Nat /\ v.turn \in Nat /\ v.known \in Nat /\ v.rows \in Nat
    BY <1>0, <1>1
  <2>2. v.degraded \in BOOLEAN /\ v.stateless \in BOOLEAN
    BY <1>1, <1>9, Zenon
  <2>3. v.phase \in Phases
    BY <1>1 DEF Phases
  <2> QED
    BY <1>1, <1>2, <2>1, <2>2, <2>3 DEF IsRequest, IsRecord
<1>4. MayAsk(b, v.question) /\ HistoryOf(v.history, s, t - 1)
  BY <1>0, <1>1
<1>5. v.known <= Len(revs) /\ v.rows <= Len(st[Owner[s]])
  BY <1>0, <1>1
<1>6. v.stateless => v.degraded
  BY <1>1
<1>7. RequestFits(v, s, b, revs, st, t)
  BY <1>0, <1>1, <1>3, <1>4, <1>5, <1>6, AskedFits
<1> QED
  BY <1>1, <1>7 DEF v

(* Sending a request preserves the invariant. *)
LEMMA SendsFits ==
  ASSUME IInv, NEW s \in Sessions, NEW b \in Tabs, NEW q, Sends(s, b, q), MayAsk(b, q)
  PROVE  IInv'
<1>0. /\ turns \in Nat /\ turns + 1 \in Nat /\ turns <= turns + 1 /\ turns + 1 > turns
      /\ turns + 1 > 0 /\ (turns + 1) - 1 = turns
      /\ reviews \in Seq(ReviewRows) /\ \A a \in Attorneys : RowsOf(stored[a], a, turns)
  BY DEF IInv, StoresFit
<1>1. PICK lost, h :
        /\ IsTruth(lost) /\ HistoryOf(h, s, turns)
        /\ request' = Replaced(request, s, b,
              [Idle EXCEPT !.phase = "asked", !.turn = turns + 1, !.question = q,
                           !.blanks = blanks, !.stateless = lost, !.degraded = lost,
                           !.known = Len(reviews), !.rows = Len(stored[Owner[s]]), !.history = h])
  <2>1. PICK failing \in SUBSET {"redis"} :
          request' = [request EXCEPT ![s][b] =
            [Idle EXCEPT !.phase = "asked", !.turn = turns + 1, !.question = q,
                         !.blanks = blanks, !.stateless = failing # {},
                         !.degraded = failing # {}, !.known = Len(reviews), !.rows = Len(stored[Owner[s]]),
                         !.history = IF failing # {} THEN <<>>
                                     ELSE HistoryReducer(history[s], <<>>)]]
    BY DEF Sends
  <2> DEFINE lost == failing # {}
             h == IF failing # {} THEN <<>> ELSE HistoryReducer(history[s], <<>>)
  <2>2. HistoryOf(h, s, turns)
    BY <1>0, EmptyHistory, HistoryStays DEF IInv, StoresFit
  <2>3. IsTruth(lost)
    BY Zenon DEF IsTruth
  <2>4. request' = Replaced(request, s, b,
              [Idle EXCEPT !.phase = "asked", !.turn = turns + 1, !.question = q,
                           !.blanks = blanks, !.stateless = lost, !.degraded = lost,
                           !.known = Len(reviews), !.rows = Len(stored[Owner[s]]), !.history = h])
    BY <2>1 DEF Replaced
  <2> HIDE DEF lost, h
  <2> QED
    BY <2>2, <2>3, <2>4
<1>2. turns' = turns + 1 /\ blanks' = blanks /\ reviews' = reviews /\ stored' = stored
      /\ history' = history
  BY DEF Sends
<1> DEFINE t == turns + 1
           seen == Len(reviews)
           rows == Len(stored[Owner[s]])
           v == Asked(t, q, blanks, lost, seen, rows, h)
<1>3. request' = Replaced(request, s, b, v)
  <2> DEFINE w == [Idle EXCEPT !.phase = "asked", !.turn = t, !.question = q,
                               !.blanks = blanks, !.stateless = lost, !.degraded = lost,
                               !.known = seen, !.rows = rows, !.history = h]
  <2>1. request' = Replaced(request, s, b, w)
    BY <1>1
  <2>2. w = v
    <3> HIDE DEF t, seen, rows
    <3> QED
      BY AskedIs, Zenon
  <2> HIDE DEF v, w
  <2> QED
    BY <2>1, <2>2
<1>4. seen \in Nat /\ rows \in Nat /\ t \in Nat /\ t > 0 /\ t - 1 = turns
  BY <1>0 DEF RowsOf, Attorneys
<1>5. RequestFits(v, s, b, reviews, stored, t) /\ v.turn = t
  <2> HIDE DEF t, seen, rows
  <2>0. IsTruth(lost)
    BY <1>1
  <2>1. HistoryOf(h, s, t - 1)
    BY <1>1, <1>4
  <2>2. \A a \in Attorneys : \A j \in DOMAIN stored[a] : stored[a][j].turn # t
    <3>1. \A a \in Attorneys : \A j \in DOMAIN stored[a] : stored[a][j].turn \in 1..turns
      BY <1>0 DEF RowsOf, OwnTurns
    <3>2. \A k \in 1..turns : k # t
      BY <1>0 DEF t
    <3> QED
      BY <3>1, <3>2
  <2>3. seen <= Len(reviews) /\ rows <= Len(stored[Owner[s]])
    BY <1>4 DEF seen, rows
  <2>4. t \in Nat /\ t > 0 /\ seen \in Nat /\ rows \in Nat
    BY <1>4
  <2>5. MaySend(t, q, lost, seen, rows, h, s, b, reviews, stored)
    BY <2>0, <2>1, <2>2, <2>3, <2>4 DEF MaySend, IsTruth
  <2> QED
    BY <2>5, SentFits, SMTT(60)
<1> HIDE DEF v
<1>8. StoresFit'
  <2>1. /\ \A a \in Attorneys : RowsOf(stored[a], a, turns + 1)
        /\ \A u \in Sessions : HistoryOf(history[u], u, turns + 1)
    BY <1>0, StoresStay DEF IInv
  <2> QED
    BY <1>0, <1>2, <2>1 DEF IInv, StoresFit
<1>9. BoardFits'
  <2>1. Extends(reviews, reviews') /\ \A a \in Attorneys : Extends(stored[a], stored'[a])
    BY <1>0, <1>2, ExtendsMore DEF RowsOf
  <2>2. RequestFits(v, s, b, reviews', stored', turns')
    BY <1>2, <1>5
  <2>3. turns <= turns' /\ v.turn > turns
    BY <1>0, <1>2, <1>5
  <2>4. \A a \in Attorneys : \A j \in DOMAIN stored'[a] : j \in DOMAIN stored[a]
    BY <1>2
  <2>5. StoresFit /\ BoardFits
    BY DEF IInv
  <2> QED
    BY <1>3, <1>8, <2>1, <2>2, <2>3, <2>4, <2>5, OneMoves
<1> QED
  BY <1>2, <1>8, <1>9 DEF IInv


(* The conversation of a prompt, from the table or from the session's history. *)
ConversationFrom(h, durable) == SanitizeHistory(IF durable = <<>> THEN h ELSE durable)

(* A prompt's conversation, from either store, is the attorney's own prose, and not
   empty of the rows that could be read. *)
LEMMA ConversationFits ==
  ASSUME NEW s \in Sessions, NEW n \in Nat, NEW rows, RowsOf(rows, Owner[s], n),
         NEW m \in Nat, NEW h, HistoryOf(h, s, m),
         NEW durable, durable = <<>> \/ durable = Newest(MaxMessages, rows),
         NEW c, c = ConversationFrom(h, durable)
  PROVE  /\ OwnWithoutBlocks(c, Owner[s])
         /\ durable = Newest(MaxMessages, rows) /\ rows # <<>> => NoneCut(c)
         /\ durable = Newest(MaxMessages, rows) /\ rows # <<>> /\ MaxMessages > 1 =>
              \E i \in DOMAIN c, j \in DOMAIN rows : c[i].turn = rows[j].turn
<1>1. MaxMessages \in Nat /\ MaxMessages > 0
  BY MemoryAssumption
<1>2. /\ h \in Seq(Messages) /\ OwnTurns(h, Owner[s], m) /\ Distinct(h)
  BY PairedIsDistinct DEF HistoryOf, Whole
<1>3. /\ rows \in Seq(Messages) /\ OwnTurns(rows, Owner[s], n) /\ Paired(rows) /\ Distinct(rows)
      /\ NoneCut(rows)
  BY PairedIsDistinct DEF RowsOf
<1>4. /\ Newest(MaxMessages, rows) \in Seq(Messages)
      /\ OwnTurns(Newest(MaxMessages, rows), Owner[s], n) /\ Distinct(Newest(MaxMessages, rows))
      /\ NoneCut(Newest(MaxMessages, rows))
  BY <1>1, <1>3, NewestIsDistinct, NoneCutStays
<1>5. OwnWithoutBlocks(c, Owner[s]) /\ (durable # <<>> => NoneCut(c))
  <2>1. CASE durable = <<>>
    BY <1>2, <2>1, SanitizedIsProse DEF ConversationFrom
  <2>2. CASE durable # <<>>
    <3>1. c = SanitizeHistory(Newest(MaxMessages, rows))
      BY <2>2 DEF ConversationFrom
    <3> QED
      BY <1>4, <3>1, SanitizedIsProse
  <2> QED
    BY <2>1, <2>2
<1>6. ASSUME durable = Newest(MaxMessages, rows), rows # <<>>
      PROVE  durable # <<>>
  <2>1. /\ Len(Newest(MaxMessages, rows)) = Len(rows) - Cut(MaxMessages, rows)
        /\ Len(rows) \in Nat
    BY <1>1, <1>3, NewestIs
  <2>2. Len(rows) > 0
    BY <1>3, <1>6
  <2>3. Len(Newest(MaxMessages, rows)) > 0
    BY <1>1, <2>1, <2>2 DEF Cut
  <2>4. Len(<<>>) = 0
    OBVIOUS
  <2> QED
    BY <1>6, <2>3, <2>4
<1>7. ASSUME durable = Newest(MaxMessages, rows), rows # <<>>, MaxMessages > 1
      PROVE  \E i \in DOMAIN c, j \in DOMAIN rows : c[i].turn = rows[j].turn
  <2>1. PICK i \in DOMAIN durable :
          durable[i].role = "user" /\ \E j \in DOMAIN rows : durable[i] = rows[j]
    BY <1>1, <1>3, <1>7, NewestHasAQuestion
  <2>2. durable # <<>>
    <3>1. DOMAIN <<>> = {}
      OBVIOUS
    <3> QED
      BY <2>1, <3>1
  <2>3. c = SanitizeHistory(durable)
    BY <2>2 DEF ConversationFrom
  <2>4. i \in DOMAIN c /\ c[i].turn = durable[i].turn
    BY <1>4, <1>7, <2>1, <2>3, SanitizedIsProse
  <2> QED
    BY <2>1, <2>4
<1> QED
  BY <1>5, <1>6, <1>7

(* What the model, its retries and their failures make of an answer. *)
AnswerOf(failing, name) == IF Fails(failing) THEN Error ELSE name
OfferOf(failing, q, name, late) == ~ Fails(failing) /\ (OffersPreferences(q, name) \/ late)

(* What an answer holds: a reply or the error string, which a lost retry of the edits
   never causes and which is always recorded. *)
LEMMA AnswerIs ==
  ASSUME NEW name \in DOMAIN Replies, NEW failing, NEW q, NEW late,
         late => RetriesPreferences(q, name)
  PROVE  /\ AnswerOf(failing, name) \in DOMAIN Replies \cup {Error}
         /\ AnswerOf(failing, name) = Error => "failed" \in Codes(failing)
         /\ failing = {"edit retry"} => AnswerOf(failing, name) # Error
         /\ ContextOnly(q) => ~ OfferOf(failing, q, name, late)
<1>1. name # Error
  BY AnswersAssumption
<1>2. Fails(failing) => "failed" \in Codes(failing)
  BY DEF Codes
<1>3. failing = {"edit retry"} => ~ Fails(failing)
  BY DEF Fails
<1>4. ContextOnly(q) => ~ OffersPreferences(q, name) /\ ~ late
  BY Zenon DEF OffersPreferences, RetriesPreferences, ShouldRetryPreference
<1> QED
  BY <1>1, <1>2, <1>3, <1>4 DEF AnswerOf, OfferOf

AnswerFits(w) ==
  /\ w.answer \in DOMAIN Replies \cup {Error}
  /\ w.answer = Error => "failed" \in w.codes
  /\ w.faulty = {"edit retry"} => w.answer # Error
  /\ ContextOnly(w.question) => ~ w.offered

(* A chat request keeps fitting when it is answered. *)
LEMMA AnsweredFits ==
  ASSUME NEW s \in Sessions, NEW revs, NEW st, NEW n \in Nat, NEW r,
         RequestFits(r, s, "chat", revs, st, n), r.phase = "asked",
         NEW w, IsRequest(w), w.phase = "answered", w.turn = r.turn, w.question = r.question,
         w.known = r.known, w.rows = r.rows, w.history = r.history,
         w.stateless => w.degraded, OwnProse(w, Owner[s]), AnswerFits(w),
         RecallFits(w, revs), ReviewTold(w),
         MaxMessages > 1 => ConversationTold(w, st[Owner[s]])
  PROVE  RequestFits(w, s, "chat", revs, st, n)
<1>1. /\ r.turn <= n /\ r.turn > 0 /\ HistoryOf(r.history, s, r.turn - 1)
      /\ r.question \in DOMAIN Questions /\ r.known <= Len(revs) /\ r.rows <= Len(st[Owner[s]])
      /\ \A a \in Attorneys : \A j \in DOMAIN st[a] : st[a][j].turn # r.turn
  BY DEF RequestFits, ChatFits, IsPending
<1>2. ChatFits(w, s, revs, st)
  BY <1>1 DEF ChatFits, AnswerFits
<1>3. w.turn <= n /\ w.turn > 0 /\ HistoryOf(w.history, s, w.turn - 1)
  BY <1>1
<1> QED
  BY <1>2, <1>3 DEF RequestFits


(* The prompt of a chat request, read over these tables. *)
LatestOf(unread, revs) == IF "reviews" \in unread THEN 0 ELSE Len(revs)
DurableOf(unread, rows) == IF "conversation" \in unread THEN <<>> ELSE Newest(MaxMessages, rows)
RecalledOf(r, unread, revs) ==
  IF LatestOf(unread, revs) = 0 THEN r.recalled
  ELSE ReconcileReviewWithDoc(StripRedlines(TextOf(revs[LatestOf(unread, revs)].name).lines),
                              TextOf(revs[LatestOf(unread, revs)].name).table,
                              TextWith(r.blanks))
ConversationOf(r, unread, rows) ==
  ConversationFrom(r.history, DurableOf(unread, rows))

(* The request with its prompt, and with its answer. *)
ReadAs(r, unread, revs, rows) ==
  ReadInto(r, LatestOf(unread, revs), r.history, r.degraded \/ unread # {},
           RecalledOf(r, unread, revs), ConversationOf(r, unread, rows))
AnsweredAs(v, q, failing, name, cards, late) ==
  AnsweredInto(v, Codes(failing), failing, AnswerOf(failing, name), cards,
               OfferOf(failing, q, name, late))

(* Prompt in terms of the stores it reads, for facts about constants. *)
LEMMA PromptReads ==
  ASSUME NEW s \in Sessions, NEW unread
  PROVE  Prompt(s, unread) = ReadAs(request[s]["chat"], unread, reviews, stored[Owner[s]])
<1> DEFINE r == request[s]["chat"]
<1>1. HistoryReducer(r.history, r.history) = r.history
  BY DEF HistoryReducer
<1> QED
  BY <1>1 DEF Prompt, ReadAs, ReadInto, ConversationFrom, LatestOf, RecalledOf, ConversationOf, DurableOf, LoadRecent,
              Recalls, ReadsDegrade

(* What a prompt holds of what there was. *)
LEMMA ReadingsFit ==
  ASSUME NEW s \in Sessions, NEW revs \in Seq(ReviewRows), NEW st, NEW n \in Nat,
         RowsOf(st[Owner[s]], Owner[s], n), NEW r, RequestFits(r, s, "chat", revs, st, n),
         r.phase = "asked", NEW unread, NEW w,
         w.review = LatestOf(unread, revs), w.recalled = RecalledOf(r, unread, revs),
         w.conversation = ConversationOf(r, unread, st[Owner[s]]), w.blanks = r.blanks,
         w.known = r.known, w.rows = r.rows, unread # {} => w.degraded
  PROVE  /\ w.review \in Nat /\ RecallFits(w, revs) /\ ReviewTold(w)
         /\ OwnProse(w, Owner[s])
         /\ MaxMessages > 1 => ConversationTold(w, st[Owner[s]])
<1>1. /\ r.known \in Nat /\ r.rows \in Nat /\ r.turn \in Nat /\ r.turn > 0
      /\ r.known <= Len(revs) /\ r.rows <= Len(st[Owner[s]])
      /\ HistoryOf(r.history, s, r.turn - 1)
  BY DEF RequestFits, ChatFits, IsRequest, IsPending
<1>2. Len(revs) \in Nat
  OBVIOUS
<1>3. w.review \in Nat /\ w.review <= Len(revs)
  BY <1>2 DEF LatestOf
<1>4. RecallFits(w, revs)
  BY <1>3 DEF RecallFits, RecalledOf
<1>5. ReviewTold(w)
  <2>1. CASE "reviews" \in unread
    BY <2>1 DEF ReviewTold
  <2>2. CASE "reviews" \notin unread
    BY <1>1, <1>2, <2>2 DEF ReviewTold, LatestOf
  <2> QED
    BY <2>1, <2>2
<1> DEFINE durable == DurableOf(unread, st[Owner[s]])
           c == ConversationOf(r, unread, st[Owner[s]])
<1>6. durable = <<>> \/ durable = Newest(MaxMessages, st[Owner[s]])
  BY DEF DurableOf
<1>7. c = ConversationFrom(r.history, durable)
  BY DEF ConversationOf
<1>8. r.turn - 1 \in Nat
  BY <1>1
<1>9. "conversation" \notin unread => durable = Newest(MaxMessages, st[Owner[s]])
  BY DEF DurableOf
<1> HIDE DEF durable, c
<1>10. /\ OwnWithoutBlocks(c, Owner[s])
       /\ durable = Newest(MaxMessages, st[Owner[s]]) /\ st[Owner[s]] # <<>> => NoneCut(c)
       /\ durable = Newest(MaxMessages, st[Owner[s]]) /\ st[Owner[s]] # <<>> /\ MaxMessages > 1 =>
            \E i \in DOMAIN c, j \in DOMAIN st[Owner[s]] : c[i].turn = st[Owner[s]][j].turn
  BY <1>1, <1>6, <1>7, <1>8, ConversationFits, SMTT(60)
<1>11. w.conversation = c
  BY DEF c
<1>12. r.rows > 0 => st[Owner[s]] # <<>>
  <2>1. Len(<<>>) = 0
    OBVIOUS
  <2> QED
    BY <1>1, <2>1
<1>13. OwnProse(w, Owner[s])
  <2>1. CASE "conversation" \in unread
    BY <1>10, <1>11, <2>1 DEF OwnProse
  <2>2. CASE "conversation" \notin unread
    <3>1. r.rows > 0 => NoneCut(c)
      BY <1>9, <1>10, <1>12, <2>2
    <3>2. r.rows > 0 \/ r.rows = 0
      BY <1>1
    <3> QED
      BY <1>10, <1>11, <3>1, <3>2 DEF OwnProse
  <2> QED
    BY <2>1, <2>2
<1>14. ASSUME MaxMessages > 1
       PROVE  ConversationTold(w, st[Owner[s]])
  <2>1. CASE "conversation" \in unread
    BY <2>1 DEF ConversationTold
  <2>2. CASE "conversation" \notin unread
    BY <1>9, <1>10, <1>11, <1>14, <1>12, <2>2 DEF ConversationTold
  <2> QED
    BY <2>1, <2>2
<1> QED
  BY <1>3, <1>4, <1>5, <1>14, <1>13

(* The model's answer may come with suggestions. *)
MayOffer(q, name, late) == name \in DOMAIN Replies /\ (late => RetriesPreferences(q, name))

(* An answered chat satisfies its part of the invariant, whatever it read. *)
LEMMA AnsweredAsFits ==
  ASSUME NEW s \in Sessions, NEW revs \in Seq(ReviewRows), NEW st, NEW n \in Nat,
         RowsOf(st[Owner[s]], Owner[s], n), NEW r, RequestFits(r, s, "chat", revs, st, n),
         r.phase = "asked", NEW unread, NEW failing, NEW name, NEW late, NEW cards,
         MayOffer(r.question, name, late)
  PROVE  LET w == AnsweredAs(ReadAs(r, unread, revs, st[Owner[s]]), r.question, failing, name,
                             cards, late)
         IN  RequestFits(w, s, "chat", revs, st, n) /\ w.turn = r.turn
<1> DEFINE rows == st[Owner[s]]
           v == ReadAs(r, unread, revs, rows)
           w == AnsweredAs(v, r.question, failing, name, cards, late)
           codes == Codes(failing)
           answer == AnswerOf(failing, name)
           offer == OfferOf(failing, r.question, name, late)
           latest == LatestOf(unread, revs)
           poor == r.degraded \/ unread # {}
           known == RecalledOf(r, unread, revs)
           talk == ConversationOf(r, unread, rows)
           hist == r.history
<1>1. IsRecord(r) /\ IsRequest(r) /\ ChatFits(r, s, revs, st)
  BY DEF RequestFits, IsRequest, IsRecord
<1>2. /\ answer \in DOMAIN Replies \cup {Error}
      /\ answer = Error => "failed" \in codes
      /\ failing = {"edit retry"} => answer # Error
      /\ ContextOnly(r.question) => ~ offer
  BY AnswerIs DEF MayOffer
<1>3. poor \in BOOLEAN
  BY Zenon
<1>4. (unread # {} => poor) /\ (r.stateless => poor)
  BY <1>1 DEF ChatFits
<1>5. v = ReadInto(r, latest, hist, poor, known, talk)
  BY DEF ReadAs
<1>6. w = AnsweredInto(v, codes, failing, answer, cards, offer)
  BY DEF AnsweredAs
<1> HIDE DEF v, w, codes, answer, offer, latest, poor, known, talk, hist
<1>10. /\ IsRecord(v)
       /\ v.review = latest /\ v.history = hist /\ v.degraded = poor /\ v.recalled = known
       /\ v.conversation = talk
       /\ \A f \in RequestFields \ {"review", "history", "degraded", "recalled", "conversation"} :
            v[f] = r[f]
  BY <1>1, <1>5, ReadFields
<1>11. /\ IsRecord(w)
       /\ w.phase = "answered" /\ w.codes = codes /\ w.faulty = failing /\ w.answer = answer
       /\ w.offered = offer
       /\ \A f \in RequestFields \ {"phase", "codes", "faulty", "answer", "proposed", "offered"} :
            w[f] = v[f]
  BY <1>6, <1>10, AnswerFields
<1>12. /\ w.review = latest /\ w.history = hist /\ w.degraded = poor /\ w.recalled = known
       /\ w.conversation = talk /\ w.turn = r.turn /\ w.question = r.question
       /\ w.blanks = r.blanks /\ w.stateless = r.stateless /\ w.known = r.known
       /\ w.rows = r.rows /\ w.unsaved = r.unsaved
  BY <1>10, <1>11 DEF RequestFields
<1>13. /\ w.review \in Nat /\ RecallFits(w, revs) /\ ReviewTold(w)
       /\ OwnProse(w, Owner[s])
       /\ MaxMessages > 1 => ConversationTold(w, st[Owner[s]])
  <2>1. w.review = LatestOf(unread, revs) /\ w.recalled = RecalledOf(r, unread, revs)
        /\ w.conversation = ConversationOf(r, unread, st[Owner[s]])
    BY <1>12 DEF latest, known, talk
  <2>2. unread # {} => w.degraded
    BY <1>4, <1>12
  <2>3. w.blanks = r.blanks /\ w.known = r.known /\ w.rows = r.rows
    BY <1>12
  <2> QED
    BY <2>1, <2>2, <2>3, ReadingsFit
<1>14. IsRequest(w)
  <2>1. w.degraded \in BOOLEAN
    BY <1>3, <1>12
  <2>2. w.stateless \in BOOLEAN /\ w.unsaved \in BOOLEAN
    BY <1>1, <1>12 DEF IsRequest
  <2>3. w.turn \in Nat /\ w.known \in Nat /\ w.rows \in Nat
    BY <1>1, <1>12 DEF IsRequest
  <2>4. w.phase \in Phases
    BY <1>11 DEF Phases
  <2> QED
    BY <1>11, <1>13, <2>1, <2>2, <2>3, <2>4 DEF IsRequest, IsRecord
<1>15. RequestFits(w, s, "chat", revs, st, n)
  <2>1. w.stateless => w.degraded
    BY <1>4, <1>12
  <2>2. AnswerFits(w)
    <3>1. /\ w.answer = answer /\ w.codes = codes /\ w.faulty = failing /\ w.offered = offer
          /\ w.question = r.question
      BY <1>11, <1>12
    <3>2. w.answer \in DOMAIN Replies \cup {Error} /\ (w.answer = Error => "failed" \in w.codes)
      BY <1>2, <3>1
    <3>3. w.faulty = {"edit retry"} => w.answer # Error
      BY <1>2, <3>1
    <3>4. ContextOnly(w.question) => ~ w.offered
      BY <1>2, <3>1
    <3> QED
      BY <3>2, <3>3, <3>4 DEF AnswerFits
  <2>5. w.history = r.history
    BY <1>12 DEF hist
  <2> QED
    BY <1>11, <1>12, <1>13, <1>14, <2>1, <2>2, <2>5, AnsweredFits
<1> QED
  BY <1>12, <1>15 DEF w, v

(* Answering a chat preserves the invariant. *)
LEMMA AnswersFit ==
  ASSUME IInv, NEW s \in Sessions, Answers(s)
  PROVE  IInv'
<1> DEFINE r == request[s]["chat"]
<1>0. /\ turns \in Nat /\ reviews \in Seq(ReviewRows)
      /\ \A a \in Attorneys : RowsOf(stored[a], a, turns)
      /\ Owner[s] \in Attorneys /\ "chat" \in Tabs
  BY DEF IInv, StoresFit, Attorneys, Tabs
<1>1. RequestFits(r, s, "chat", reviews, stored, turns) /\ r.phase = "asked"
  BY <1>0, OneFits DEF Answers
<1>2. PICK unread, failing, name, late, cards :
        /\ MayOffer(r.question, name, late)
        /\ request' = Replaced(request, s, "chat",
                       AnsweredAs(Prompt(s, unread), r.question, failing, name, cards, late))
  <2>1. PICK name \in DOMAIN Replies, again \in Recovered, late \in BOOLEAN,
            unread \in SUBSET {"reviews", "conversation"},
            failing \in SUBSET {"model", "edit retry", "preference retry"} :
          /\ Faults(unread \cup failing)
          /\ "model" \in failing => failing = {"model"} /\ again = <<>> /\ ~ late
          /\ "edit retry" \in failing => RetriesEdits(name) /\ again = <<>>
          /\ "preference retry" \in failing => RetriesPreferences(r.question, name) /\ ~ late
          /\ again # <<>> => RetriesEdits(name)
          /\ late => RetriesPreferences(r.question, name)
          /\ request' = [request EXCEPT ![s]["chat"] =
                [Prompt(s, unread) EXCEPT
                   !.phase = "answered", !.codes = Codes(failing), !.faulty = failing,
                   !.answer = IF Fails(failing) THEN Error ELSE name,
                   !.proposed = IF Fails(failing) THEN <<>> ELSE ServerEdits(name) \o again,
                   !.offered = ~ Fails(failing) /\ (OffersPreferences(r.question, name) \/ late)]]
    BY Zenon DEF Answers
  <2> DEFINE cards == IF Fails(failing) THEN <<>> ELSE ServerEdits(name) \o again
  <2>2. MayOffer(r.question, name, late)
    BY <2>1 DEF MayOffer
  <2>3. request' = Replaced(request, s, "chat",
                      AnsweredAs(Prompt(s, unread), r.question, failing, name, cards, late))
    BY <2>1, Zenon DEF Replaced, AnsweredAs, AnsweredInto, AnswerOf, OfferOf
  <2> QED
    BY <2>2, <2>3, Zenon
<1> DEFINE mine == stored[Owner[s]]
           w == AnsweredAs(ReadAs(r, unread, reviews, mine), r.question, failing, name, cards, late)
<1>3. request' = Replaced(request, s, "chat", w)
  BY <1>2, PromptReads
<1>4. RequestFits(w, s, "chat", reviews, stored, turns) /\ w.turn = r.turn
  <2>1. MayOffer(r.question, name, late)
    BY <1>2
  <2>2. RowsOf(mine, Owner[s], turns)
    BY <1>0
  <2> HIDE DEF r
  <2> QED
    BY <1>0, <1>1, <2>1, <2>2, AnsweredAsFits, SMTT(60)
<1> HIDE DEF w
<1>16. turns' = turns /\ blanks' = blanks /\ reviews' = reviews /\ stored' = stored
       /\ history' = history
  BY DEF Answers
<1>17. StoresFit'
  BY <1>16 DEF IInv, StoresFit
<1>18. BoardFits'
  <2>1. Extends(reviews, reviews') /\ \A a \in Attorneys : Extends(stored[a], stored'[a])
    BY <1>0, <1>16, ExtendsMore DEF RowsOf
  <2>2. RequestFits(w, s, "chat", reviews', stored', turns')
    BY <1>4, <1>16
  <2>3. turns <= turns' /\ w.turn = request[s]["chat"].turn /\ request[s]["chat"].phase # "idle"
    BY <1>0, <1>1, <1>4, <1>16
  <2>4. \A a \in Attorneys : \A j \in DOMAIN stored'[a] : j \in DOMAIN stored[a]
    BY <1>16
  <2>5. StoresFit /\ BoardFits
    BY DEF IInv
  <2> QED
    BY <1>0, <1>3, <1>17, <2>1, <2>2, <2>3, <2>4, <2>5, OneMoves
<1> QED
  BY <1>16, <1>17, <1>18 DEF IInv


(* A review request keeps fitting when it is answered. *)
LEMMA ReviewedFits ==
  ASSUME NEW s \in Sessions, NEW revs, NEW st, NEW n \in Nat, NEW r,
         RequestFits(r, s, "findings", revs, st, n), r.phase = "asked",
         NEW name \in ReviewNames, NEW codes, name = Error => "failed" \in codes
  PROVE  LET w == ReviewedInto(r, codes, name, r.history)
         IN  RequestFits(w, s, "findings", revs, st, n) /\ w.turn = r.turn
<1> DEFINE hist == r.history
           w == ReviewedInto(r, codes, name, hist)
<1>1. /\ IsRecord(r) /\ IsRequest(r) /\ ReviewFits(r, revs)
      /\ r.turn <= n /\ r.turn > 0 /\ HistoryOf(hist, s, r.turn - 1)
  BY DEF RequestFits, IsRequest, IsRecord, IsPending
<1> HIDE DEF hist
<1>2. w = ReviewedInto(r, codes, name, hist)
  OBVIOUS
<1> HIDE DEF w
<1>3. /\ IsRecord(w) /\ w.phase = "answered" /\ w.codes = codes /\ w.answer = name
      /\ w.history = hist
      /\ \A f \in RequestFields \ {"phase", "codes", "answer", "history"} : w[f] = r[f]
  BY <1>1, <1>2, ReviewFields
<1>4. /\ w.turn = r.turn /\ w.question = r.question /\ w.stateless = r.stateless
      /\ w.degraded = r.degraded /\ w.unsaved = r.unsaved /\ w.known = r.known
      /\ w.rows = r.rows /\ w.review = r.review
  BY <1>3 DEF RequestFields
<1>5. IsRequest(w)
  <2>1. w.stateless \in BOOLEAN /\ w.degraded \in BOOLEAN /\ w.unsaved \in BOOLEAN
    BY <1>1, <1>4 DEF IsRequest
  <2>2. w.phase \in Phases
    BY <1>3 DEF Phases
  <2> QED
    BY <1>1, <1>3, <1>4, <2>1, <2>2 DEF IsRequest, IsRecord
<1>6. ReviewFits(w, revs)
  BY <1>1, <1>3, <1>4 DEF ReviewFits
<1>7. RequestFits(w, s, "findings", revs, st, n)
  BY <1>1, <1>3, <1>4, <1>5, <1>6 DEF RequestFits
<1> QED
  BY <1>4, <1>7 DEF w, hist

(* Answering a review preserves the invariant. *)
LEMMA AnswersReviewFits ==
  ASSUME IInv, NEW s \in Sessions, AnswersReview(s)
  PROVE  IInv'
<1> DEFINE r == request[s]["findings"]
<1>0. /\ turns \in Nat /\ reviews \in Seq(ReviewRows)
      /\ \A a \in Attorneys : RowsOf(stored[a], a, turns) /\ "findings" \in Tabs
  BY DEF IInv, StoresFit, Attorneys, Tabs
<1>1. RequestFits(r, s, "findings", reviews, stored, turns) /\ r.phase = "asked"
  <2>1. "findings" \in Tabs
    BY DEF Tabs
  <2> QED
    BY <2>1, OneFits DEF AnswersReview
<1>2. PICK name \in ReviewNames :
        \E codes :
          /\ name = Error => "failed" \in codes
          /\ request' = Replaced(request, s, "findings", ReviewedInto(r, codes, name, r.history))
  <2>1. PICK name \in ReviewNames :
          LET failing == IF name = Error THEN {"model"} ELSE {}
          IN  request' = [request EXCEPT ![s]["findings"] =
                    [r EXCEPT !.phase = "answered", !.codes = Codes(failing), !.answer = name,
                              !.history = HistoryReducer(r.history, r.history)]]
    BY DEF AnswersReview
  <2> DEFINE codes == Codes(IF name = Error THEN {"model"} ELSE {})
  <2>2. name = Error => "failed" \in codes
    BY DEF Codes, Fails
  <2>3. HistoryReducer(r.history, r.history) = r.history
    BY DEF HistoryReducer
  <2>4. request' = Replaced(request, s, "findings", ReviewedInto(r, codes, name, r.history))
    BY <2>1, <2>3, Zenon DEF Replaced, ReviewedInto
  <2> HIDE DEF codes
  <2>5. \E c :
          /\ name = Error => "failed" \in c
          /\ request' = Replaced(request, s, "findings", ReviewedInto(r, c, name, r.history))
    BY <2>2, <2>4, Zenon
  <2> QED
    BY <2>5, Zenon
<1>2a. PICK codes :
        /\ name = Error => "failed" \in codes
        /\ request' = Replaced(request, s, "findings", ReviewedInto(r, codes, name, r.history))
  BY <1>2, Zenon
<1> DEFINE w == ReviewedInto(r, codes, name, r.history)
<1>3. request' = Replaced(request, s, "findings", w)
  BY <1>2a
<1>4. RequestFits(w, s, "findings", reviews, stored, turns) /\ w.turn = r.turn
  <2>1. name = Error => "failed" \in codes
    BY <1>2a
  <2> HIDE DEF r
  <2> QED
    BY <1>0, <1>1, <2>1, ReviewedFits, SMTT(60)
<1> HIDE DEF w
<1>16. turns' = turns /\ blanks' = blanks /\ reviews' = reviews /\ stored' = stored
       /\ history' = history
  BY DEF AnswersReview
<1>17. StoresFit'
  BY <1>16 DEF IInv, StoresFit
<1>18. BoardFits'
  <2>1. Extends(reviews, reviews') /\ \A a \in Attorneys : Extends(stored[a], stored'[a])
    BY <1>0, <1>16, ExtendsMore DEF RowsOf
  <2>2. RequestFits(w, s, "findings", reviews', stored', turns')
    BY <1>4, <1>16
  <2>3. turns <= turns' /\ w.turn = r.turn /\ r.phase # "idle" /\ "findings" \in Tabs
    BY <1>0, <1>1, <1>4, <1>16 DEF Tabs
  <2>4. \A a \in Attorneys : \A j \in DOMAIN stored'[a] : j \in DOMAIN stored[a]
    BY <1>16
  <2>5. StoresFit /\ BoardFits
    BY DEF IInv
  <2> QED
    BY <1>0, <1>3, <1>17, <2>1, <2>2, <2>3, <2>4, <2>5, OneMoves
<1> QED
  BY <1>16, <1>17, <1>18 DEF IInv

(* An answered request keeps fitting on its way through appender and writer. *)
LEMMA MovedFits ==
  ASSUME NEW s \in Sessions, NEW b \in Tabs, NEW revs, NEW st, NEW n \in Nat, NEW r,
         RequestFits(r, s, b, revs, st, n), IsPrompted(r), r.phase # "done",
         NEW w, IsRequest(w), w.phase \in {"appended", "done"},
         w.turn = r.turn, w.question = r.question, w.blanks = r.blanks, w.known = r.known,
         w.rows = r.rows, w.review = r.review, w.recalled = r.recalled,
         w.conversation = r.conversation, w.stateless = r.stateless, w.codes = r.codes,
         w.faulty = r.faulty, w.answer = r.answer, w.offered = r.offered,
         r.degraded => w.degraded,
         b = "findings" /\ w.phase = "done" =>
           w.unsaved \/ \E i \in DOMAIN revs : revs[i].turn = w.turn
  PROVE  RequestFits(w, s, b, revs, st, n)
<1>1. r.phase \in {"answered", "appended"} /\ ~ IsPending(w) /\ IsPrompted(w) /\ w.phase # "idle"
      /\ r.phase # "idle"
  BY DEF IsPrompted, IsPending
<1>2. ASSUME b = "chat"
      PROVE  ChatFits(w, s, revs, st)
  <2>1. ChatFits(r, s, revs, st)
    BY <1>2 DEF RequestFits
  <2>2. RecallFits(w, revs)
    BY <2>1 DEF ChatFits, RecallFits
  <2>3. ReviewTold(w)
    BY <2>1 DEF ChatFits, ReviewTold
  <2>4. MaxMessages > 1 => ConversationTold(w, st[Owner[s]])
    <3> DEFINE rows == st[Owner[s]]
    <3>1. MaxMessages > 1 => ConversationTold(r, rows)
      BY <2>1 DEF ChatFits
    <3> HIDE DEF rows
    <3>2. ConversationTold(r, rows) => ConversationTold(w, rows)
      BY DEF ConversationTold
    <3> QED
      BY <3>1, <3>2 DEF rows
  <2>5. w.question \in DOMAIN Questions
    BY <1>1, <2>1 DEF ChatFits
  <2>9. w.stateless => w.degraded
    BY <2>1 DEF ChatFits
  <2>10. w.known <= Len(revs) /\ w.rows <= Len(st[Owner[s]])
    BY <2>1 DEF ChatFits
  <2>6. OwnProse(w, Owner[s])
    BY <2>1 DEF ChatFits, OwnProse
  <2>7. \A a \in Attorneys : \A j \in DOMAIN st[a] : st[a][j].turn # w.turn
    BY <1>1, <2>1 DEF ChatFits
  <2>8. /\ w.answer \in DOMAIN Replies \cup {Error}
        /\ w.answer = Error => "failed" \in w.codes
        /\ w.faulty = {"edit retry"} => w.answer # Error
        /\ ContextOnly(w.question) => ~ w.offered
    BY <2>1 DEF ChatFits
  <2> QED
    BY <2>1, <2>2, <2>3, <2>4, <2>5, <2>6, <2>7, <2>8, <2>9, <2>10 DEF ChatFits
<1>3. ASSUME b = "findings"
      PROVE  ReviewFits(w, revs)
  BY <1>1, <1>3 DEF RequestFits, ReviewFits
<1>4. w.turn <= n /\ w.turn > 0
  BY <1>1 DEF RequestFits
<1> QED
  BY <1>1, <1>2, <1>3, <1>4 DEF RequestFits


(* A request that has been answered has a question and an answer that can be appended. *)
LEMMA Worded ==
  ASSUME NEW s \in Sessions, NEW b \in Tabs, NEW revs, NEW st, NEW n \in Nat, NEW r,
         RequestFits(r, s, b, revs, st, n), IsPrompted(r)
  PROVE  r.question \in Wordings /\ r.answer \in Wordings /\ r.turn \in Nat /\ r.turn > 0
<1>1. r.phase # "idle" /\ r.turn \in Nat /\ r.turn > 0
  BY DEF IsPrompted, RequestFits, IsRequest
<1>2. CASE b = "chat"
  BY <1>1, <1>2 DEF RequestFits, ChatFits, Wordings, ReviewNames
<1>3. CASE b = "findings"
  BY <1>1, <1>3 DEF RequestFits, ReviewFits, Wordings
<1> QED
  BY <1>1, <1>2, <1>3 DEF Tabs

(* An answered request keeps fitting when its exchange goes to the history. *)
LEMMA AppendedIntoFits ==
  ASSUME NEW s \in Sessions, NEW b \in Tabs, NEW revs, NEW st, NEW n \in Nat, NEW r,
         RequestFits(r, s, b, revs, st, n), r.phase = "answered", NEW hist
  PROVE  LET w == AppendedInto(r, hist)
         IN  RequestFits(w, s, b, revs, st, n) /\ w.turn = r.turn
<1> DEFINE w == AppendedInto(r, hist)
<1>1. IsRecord(r) /\ IsRequest(r) /\ IsPrompted(r) /\ r.phase # "done"
  BY DEF RequestFits, IsRequest, IsRecord, IsPrompted
<1>2. w = AppendedInto(r, hist)
  OBVIOUS
<1> HIDE DEF w
<1>3. /\ IsRecord(w) /\ w.phase = "appended"
      /\ \A f \in RequestFields \ {"phase", "history"} : w[f] = r[f]
  BY <1>1, <1>2, AppendFields
<1>4. /\ w.turn = r.turn /\ w.question = r.question /\ w.blanks = r.blanks /\ w.known = r.known
      /\ w.rows = r.rows /\ w.review = r.review /\ w.recalled = r.recalled
      /\ w.conversation = r.conversation /\ w.stateless = r.stateless /\ w.codes = r.codes
      /\ w.faulty = r.faulty /\ w.answer = r.answer /\ w.offered = r.offered
      /\ w.degraded = r.degraded /\ w.unsaved = r.unsaved
  BY <1>3 DEF RequestFields
<1>5. IsRequest(w)
  <2>1. w.stateless \in BOOLEAN /\ w.degraded \in BOOLEAN /\ w.unsaved \in BOOLEAN
    BY <1>1, <1>4 DEF IsRequest
  <2>2. w.phase \in Phases
    BY <1>3 DEF Phases
  <2> QED
    BY <1>1, <1>3, <1>4, <2>1, <2>2 DEF IsRequest, IsRecord
<1>6. w.phase \in {"appended", "done"} /\ w.phase # "done"
  BY <1>3
<1>7. RequestFits(w, s, b, revs, st, n)
  BY <1>1, <1>4, <1>5, <1>6, MovedFits
<1> QED
  BY <1>4, <1>7 DEF w

(* Appending the exchange to the history preserves the invariant. *)
LEMMA AppendsFit ==
  ASSUME IInv, NEW s \in Sessions, NEW b \in Tabs, Appends(s, b)
  PROVE  IInv'
<1> DEFINE r == request[s][b]
           hist == HistoryReducer(r.history, TrimmedExchange(s, r))
           w == AppendedInto(r, hist)
<1>0. /\ turns \in Nat /\ reviews \in Seq(ReviewRows) /\ IsBoard(request)
      /\ \A a \in Attorneys : RowsOf(stored[a], a, turns)
      /\ history = [u \in Sessions |-> history[u]]
      /\ \A u \in Sessions : HistoryOf(history[u], u, turns)
  BY DEF IInv, StoresFit, BoardFits
<1>1. RequestFits(r, s, b, reviews, stored, turns) /\ r.phase = "answered"
  BY OneFits DEF Appends
<1>2. r.turn \in Nat /\ r.turn <= turns /\ r.turn > 0 /\ HistoryOf(r.history, s, r.turn - 1)
  BY <1>1 DEF RequestFits, IsRequest, IsPending
<1>3. HistoryOf(hist, s, turns)
  <2> HIDE DEF r
  <2>1. r.question \in Wordings /\ r.answer \in Wordings
    BY <1>0, <1>1, Worded DEF IsPrompted
  <2>2. /\ TrimmedExchange(s, r) \in Seq(Messages) /\ Len(TrimmedExchange(s, r)) = 2
        /\ OwnTurns(TrimmedExchange(s, r), Owner[s], r.turn) /\ Paired(TrimmedExchange(s, r))
        /\ TrimmedExchange(s, r)[1].turn = r.turn
    BY <1>2, <2>1, ExchangeIs
  <2> DEFINE n == r.turn - 1
             h == r.history
             t == r.turn
             x == TrimmedExchange(s, r)
  <2>3. n \in Nat /\ n < t /\ t \in Nat /\ t <= turns
    BY <1>2
  <2>4. HistoryOf(h, s, n)
    BY <1>2
  <2>5. /\ x \in Seq(Messages) /\ Len(x) = 2 /\ OwnTurns(x, Owner[s], t) /\ Paired(x)
        /\ x[1].turn = t
    BY <2>2
  <2> HIDE DEF n, h, t, x
  <2>6. HistoryOf(HistoryReducer(h, x), s, t)
    BY <2>3, <2>4, <2>5, HistoryGrows
  <2>7. HistoryOf(HistoryReducer(h, x), s, turns)
    BY <1>0, <2>3, <2>6, HistoryStays
  <2> QED
    BY <2>7 DEF h, x
<1>4. request' = Replaced(request, s, b, w)
  <2>1. request' = [request EXCEPT ![s][b].phase = "appended", ![s][b].history = hist]
    BY DEF Appends
  <2> HIDE DEF hist
  <2> QED
    BY <1>0, <2>1 DEF IsBoard, Replaced, AppendedInto
<1> HIDE DEF hist
<1>5. RequestFits(w, s, b, reviews, stored, turns) /\ w.turn = r.turn
  <2> HIDE DEF r
  <2> QED
    BY <1>0, <1>1, AppendedIntoFits, SMTT(60)
<1> HIDE DEF w
<1>16. turns' = turns /\ blanks' = blanks /\ reviews' = reviews /\ stored' = stored
       /\ history' = IF r.stateless THEN history ELSE [history EXCEPT ![s] = hist]
  BY DEF Appends, hist
<1>17. StoresFit'
  <2>1. /\ history' = [u \in Sessions |-> history'[u]]
        /\ \A u \in Sessions : HistoryOf(history'[u], u, turns)
    <3>1. CASE r.stateless
      BY <1>0, <1>16, <3>1
    <3>2. CASE ~ r.stateless
      <4>1. history' = [history EXCEPT ![s] = hist]
        BY <1>16, <3>2
      <4>2. /\ history'[s] = hist /\ \A u \in Sessions : u # s => history'[u] = history[u]
            /\ history' = [u \in Sessions |-> history'[u]]
        BY <1>0, <4>1
      <4> QED
        BY <1>0, <1>3, <4>2
    <3> QED
      BY <3>1, <3>2
  <2> QED
    BY <1>16, <2>1 DEF IInv, StoresFit
<1>18. BoardFits'
  <2>1. Extends(reviews, reviews') /\ \A a \in Attorneys : Extends(stored[a], stored'[a])
    BY <1>0, <1>16, ExtendsMore DEF RowsOf
  <2>2. RequestFits(w, s, b, reviews', stored', turns')
    BY <1>5, <1>16
  <2>3. turns <= turns' /\ w.turn = r.turn /\ r.phase # "idle"
    BY <1>0, <1>1, <1>5, <1>16
  <2>4. \A a \in Attorneys : \A j \in DOMAIN stored'[a] : j \in DOMAIN stored[a]
    BY <1>16
  <2>5. StoresFit /\ BoardFits
    BY DEF IInv
  <2> QED
    BY <1>4, <1>17, <2>1, <2>2, <2>3, <2>4, <2>5, OneMoves
<1> QED
  BY <1>16, <1>17, <1>18 DEF IInv


(* An appended request keeps fitting when the writer is done with it. *)
LEMMA WrittenFits ==
  ASSUME NEW s \in Sessions, NEW b \in Tabs, NEW revs, NEW st, NEW n \in Nat, NEW r,
         RequestFits(r, s, b, revs, st, n), r.phase = "appended",
         NEW w, IsRecord(w), w.phase = "done", w.degraded \in BOOLEAN, w.unsaved \in BOOLEAN,
         \A f \in RequestFields \ {"phase", "unsaved", "degraded"} : w[f] = r[f],
         r.degraded => w.degraded,
         b = "findings" => w.unsaved \/ \E i \in DOMAIN revs : revs[i].turn = r.turn
  PROVE  RequestFits(w, s, b, revs, st, n) /\ w.turn = r.turn
<1>1. IsRequest(r) /\ IsPrompted(r) /\ r.phase # "done"
  BY DEF RequestFits, IsPrompted
<1>2. /\ w.turn = r.turn /\ w.question = r.question /\ w.blanks = r.blanks /\ w.known = r.known
      /\ w.rows = r.rows /\ w.review = r.review /\ w.recalled = r.recalled
      /\ w.conversation = r.conversation /\ w.stateless = r.stateless /\ w.codes = r.codes
      /\ w.faulty = r.faulty /\ w.answer = r.answer /\ w.offered = r.offered
  BY DEF RequestFields
<1>3. IsRequest(w)
  <2>1. w.stateless \in BOOLEAN
    BY <1>1, <1>2 DEF IsRequest
  <2>2. w.phase \in Phases
    BY DEF Phases
  <2>3. w.turn \in Nat /\ w.known \in Nat /\ w.rows \in Nat /\ w.review \in Nat
    BY <1>1, <1>2 DEF IsRequest
  <2> QED
    BY <2>1, <2>2, <2>3 DEF IsRequest, IsRecord
<1>4. w.phase \in {"appended", "done"}
  OBVIOUS
<1>5. b = "findings" => w.unsaved \/ \E i \in DOMAIN revs : revs[i].turn = w.turn
  BY <1>2
<1> QED
  BY <1>1, <1>2, <1>3, <1>4, <1>5, MovedFits

(* A review is on record, or its loss is. *)
Recorded(u, revs, t) == u \/ \E i \in DOMAIN revs : revs[i].turn = t

(* A review whose save succeeded or failed satisfies its part of the invariant. *)
LEMMA SavedFits ==
  ASSUME NEW s \in Sessions, NEW revs, NEW st, NEW n \in Nat, NEW r, "findings" \in Tabs,
         RequestFits(r, s, "findings", revs, st, n), r.phase = "appended",
         NEW u, NEW d, u \in BOOLEAN, d \in BOOLEAN, r.degraded => d,
         Recorded(u, revs, r.turn)
  PROVE  LET w == DoneInto(r, u, d)
         IN  RequestFits(w, s, "findings", revs, st, n) /\ w.turn = r.turn
<1> DEFINE w == DoneInto(r, u, d)
<1>1. IsRecord(r)
  BY DEF RequestFits, IsRequest, IsRecord
<1>2. w = DoneInto(r, u, d)
  OBVIOUS
<1> HIDE DEF w
<1>3. /\ IsRecord(w) /\ w.phase = "done" /\ w.unsaved = u /\ w.degraded = d
      /\ \A f \in RequestFields \ {"phase", "unsaved", "degraded"} : w[f] = r[f]
  BY <1>1, <1>2, DoneFields
<1>4. w.unsaved \in BOOLEAN /\ w.degraded \in BOOLEAN
  BY <1>3
<1>5. (r.degraded => w.degraded) /\ (w.unsaved \/ \E i \in DOMAIN revs : revs[i].turn = r.turn)
  BY <1>3 DEF Recorded
<1>6. RequestFits(w, s, "findings", revs, st, n) /\ w.turn = r.turn
  BY <1>3, <1>4, <1>5, WrittenFits
<1> QED
  BY <1>6 DEF w

(* A chat whose rows were written or failed satisfies its part of the invariant. *)
LEMMA KeptFits ==
  ASSUME NEW s \in Sessions, NEW revs, NEW st, NEW n \in Nat, NEW r, "chat" \in Tabs,
         RequestFits(r, s, "chat", revs, st, n), r.phase = "appended",
         NEW d, d \in BOOLEAN, r.degraded => d
  PROVE  LET w == KeptInto(r, d)
         IN  RequestFits(w, s, "chat", revs, st, n) /\ w.turn = r.turn
<1> DEFINE w == KeptInto(r, d)
<1>1. IsRecord(r) /\ r.unsaved \in BOOLEAN
  BY DEF RequestFits, IsRequest, IsRecord
<1>2. w = KeptInto(r, d)
  OBVIOUS
<1> HIDE DEF w
<1>3. /\ IsRecord(w) /\ w.phase = "done" /\ w.degraded = d
      /\ \A f \in RequestFields \ {"phase", "degraded"} : w[f] = r[f]
  BY <1>1, <1>2, KeptFields
<1>4. w.unsaved \in BOOLEAN /\ w.degraded \in BOOLEAN
  BY <1>1, <1>3 DEF RequestFields
<1>5. \A f \in RequestFields \ {"phase", "unsaved", "degraded"} : w[f] = r[f]
  BY <1>3
<1>6. r.degraded => w.degraded
  BY <1>3
<1>7. RequestFits(w, s, "chat", revs, st, n) /\ w.turn = r.turn
  BY <1>3, <1>4, <1>5, <1>6, WrittenFits
<1> QED
  BY <1>7 DEF w

(* Saving a review preserves the invariant. *)
LEMMA SavesReviewFits ==
  ASSUME IInv, NEW s \in Sessions, SavesReview(s)
  PROVE  IInv'
<1> DEFINE r == request[s]["findings"]
           row == [name |-> r.answer, turn |-> r.turn]
<1>0. /\ turns \in Nat /\ reviews \in Seq(ReviewRows) /\ "findings" \in Tabs
      /\ \A a \in Attorneys : RowsOf(stored[a], a, turns)
  BY DEF IInv, StoresFit, Tabs
<1>1. RequestFits(r, s, "findings", reviews, stored, turns) /\ r.phase = "appended"
  BY <1>0, OneFits DEF SavesReview
<1>2. r.answer \in ReviewNames /\ r.turn \in Nat
  <2> HIDE DEF r
  <2> QED
    BY <1>1 DEF RequestFits, ReviewFits, IsPrompted, IsRequest
<1>3. PICK failing \in SUBSET {"audit", "store"} :
        /\ reviews' = IF "store" \in failing THEN reviews ELSE Append(reviews, row)
        /\ request' = [request EXCEPT ![s]["findings"] =
                [r EXCEPT !.phase = "done", !.unsaved = "store" \in failing,
                          !.degraded = @ \/ "audit" \in failing]]
  BY DEF SavesReview
<1> DEFINE u == "store" \in failing
           d == r.degraded \/ "audit" \in failing
           w == DoneInto(r, u, d)
<1>4. request' = Replaced(request, s, "findings", w)
  BY <1>3, Zenon DEF Replaced, DoneInto
<1>5. row \in ReviewRows /\ row.turn = r.turn
  <2> HIDE DEF r
  <2> QED
    BY <1>2 DEF ReviewRows
<1>6. turns' = turns /\ blanks' = blanks /\ stored' = stored /\ history' = history
  BY DEF SavesReview
<1> HIDE DEF row
<1>7. /\ reviews' \in Seq(ReviewRows) /\ Extends(reviews, reviews')
      /\ "store" \notin failing => \E i \in DOMAIN reviews' : reviews'[i].turn = r.turn
  <2> HIDE DEF r
  <2>1. CASE "store" \in failing
    <3>1. reviews' = reviews
      BY <1>3, <2>1
    <3> QED
      BY <1>0, <2>1, <3>1, ExtendsMore
  <2>2. CASE "store" \notin failing
    <3>1. reviews' = Append(reviews, row)
      BY <1>3, <2>2
    <3>2. /\ Append(reviews, row) \in Seq(ReviewRows) /\ Extends(reviews, Append(reviews, row))
      BY <1>0, <1>5, ExtendsMore
    <3>3. /\ DOMAIN Append(reviews, row) = 1..(Len(reviews) + 1)
          /\ Append(reviews, row)[Len(reviews) + 1] = row
          /\ \A i \in DOMAIN reviews : Append(reviews, row)[i] = reviews[i]
          /\ Len(reviews) \in Nat /\ DOMAIN reviews = 1..Len(reviews)
      BY <1>0, <1>5
    <3>4. \A i \in 1..(Len(reviews) + 1) : i \in 1..Len(reviews) \/ i = Len(reviews) + 1
      BY <3>3
    <3>5. Len(reviews) + 1 \in 1..(Len(reviews) + 1)
      BY <3>3
    <3> QED
      BY <1>5, <3>1, <3>2, <3>3, <3>4, <3>5
  <2> QED
    BY <2>1, <2>2
<1>8. StoresFit'
  BY <1>6, <1>7 DEF IInv, StoresFit
<1>9. RequestFits(r, s, "findings", reviews', stored, turns)
  <2> HIDE DEF r
  <2>1. stored[Owner[s]] \in Seq(Messages) /\ turns <= turns
        /\ Extends(stored[Owner[s]], stored[Owner[s]])
    BY <1>0, ExtendsMore DEF RowsOf, Attorneys
  <2>2. "findings" # "chat"
    OBVIOUS
  <2> QED
    BY <1>0, <1>1, <1>7, <2>1, <2>2, RequestStays
<1>10. RequestFits(w, s, "findings", reviews', stored, turns) /\ w.turn = r.turn
  <2>1. d \in BOOLEAN /\ (r.degraded => d)
    BY Zenon
  <2>4. u \in BOOLEAN
    OBVIOUS
  <2> DEFINE revs == reviews'
  <2>2. Recorded(u, revs, r.turn)
    BY <1>7 DEF Recorded
  <2>3. r.phase = "appended"
    BY <1>1
  <2>5. RequestFits(r, s, "findings", revs, stored, turns)
    BY <1>9
  <2> HIDE DEF r, u, d, revs
  <2>6. RequestFits(DoneInto(r, u, d), s, "findings", revs, stored, turns)
        /\ DoneInto(r, u, d).turn = r.turn
    BY <1>0, <2>1, <2>2, <2>3, <2>4, <2>5, SavedFits, SMTT(60)
  <2> QED
    BY <2>6 DEF revs
<1> HIDE DEF w
<1>18. BoardFits'
  <2>1. Extends(reviews, reviews') /\ \A a \in Attorneys : Extends(stored[a], stored'[a])
    BY <1>0, <1>6, <1>7, ExtendsMore DEF RowsOf
  <2>2. RequestFits(w, s, "findings", reviews', stored', turns')
    BY <1>6, <1>10
  <2>3. turns <= turns' /\ w.turn = r.turn /\ r.phase # "idle"
    BY <1>0, <1>1, <1>6, <1>10
  <2>4. \A a \in Attorneys : \A j \in DOMAIN stored'[a] : j \in DOMAIN stored[a]
    BY <1>6
  <2>5. StoresFit /\ BoardFits
    BY DEF IInv
  <2> QED
    BY <1>0, <1>4, <1>8, <2>1, <2>2, <2>3, <2>4, <2>5, OneMoves
<1> QED
  BY <1>6, <1>8, <1>18 DEF IInv


(* Writing the rows of a chat preserves the invariant. *)
LEMMA KeepsConversationFits ==
  ASSUME IInv, NEW s \in Sessions, KeepsConversation(s)
  PROVE  IInv'
<1> DEFINE r == request[s]["chat"]
           x == Exchange(s, r)
           mine == stored[Owner[s]]
<1>0. /\ turns \in Nat /\ reviews \in Seq(ReviewRows) /\ "chat" \in Tabs
      /\ stored = [a \in Attorneys |-> stored[a]] /\ Owner[s] \in Attorneys
      /\ \A a \in Attorneys : RowsOf(stored[a], a, turns)
  BY DEF IInv, StoresFit, Tabs, Attorneys
<1>1. /\ RequestFits(r, s, "chat", reviews, stored, turns) /\ r.phase = "appended"
      /\ ChatFits(r, s, reviews, stored)
  BY <1>0, OneFits DEF KeepsConversation
<1>2. PICK failing \in SUBSET {"audit", "store"} :
        /\ stored' = IF "store" \in failing THEN stored
                     ELSE [stored EXCEPT ![Owner[s]] = mine \o x]
        /\ request' = [request EXCEPT ![s]["chat"] =
             [r EXCEPT !.phase = "done", !.degraded = @ \/ "audit" \in failing]]
  BY DEF KeepsConversation
<1> DEFINE d == r.degraded \/ "audit" \in failing
           w == KeptInto(r, d)
<1>3. request' = Replaced(request, s, "chat", w)
  BY <1>2, Zenon DEF Replaced, KeptInto
<1>4. turns' = turns /\ blanks' = blanks /\ reviews' = reviews /\ history' = history
  BY DEF KeepsConversation
<1>5. RequestFits(w, s, "chat", reviews, stored, turns) /\ w.turn = r.turn /\ w.phase = "done"
  <2>1. d \in BOOLEAN /\ (r.degraded => d)
    BY Zenon
  <2>2. r.phase = "appended" /\ IsRecord(r)
    BY <1>1 DEF RequestFits, IsRequest, IsRecord
  <2> HIDE DEF r, d
  <2>3. RequestFits(w, s, "chat", reviews, stored, turns) /\ w.turn = r.turn
    BY <1>0, <1>1, <2>1, <2>2, KeptFits, SMTT(60)
  <2>4. w.phase = "done"
    BY <2>2, KeptFields
  <2> QED
    BY <2>3, <2>4
<1> HIDE DEF w, d
<1>6. /\ x \in Seq(Messages) /\ Len(x) = 2 /\ OwnTurns(x, Owner[s], r.turn) /\ Paired(x)
      /\ x[1].turn = r.turn /\ r.turn \in Nat /\ r.turn > 0 /\ r.turn <= turns /\ NoneCut(x)
  <2> HIDE DEF r
  <2>1. r.question \in Wordings /\ r.answer \in Wordings /\ r.turn \in Nat /\ r.turn > 0
    BY <1>0, <1>1, Worded DEF IsPrompted
  <2>2. r.turn <= turns
    BY <1>1 DEF RequestFits
  <2> QED
    BY <2>1, <2>2, ExchangeIs
<1>7. /\ mine \in Seq(Messages) /\ OwnTurns(mine, Owner[s], turns) /\ Paired(mine) /\ EachOnce(mine)
      /\ NoneCut(mine)
      /\ \A j \in DOMAIN mine : mine[j].turn # r.turn
  <2>1. RowsOf(mine, Owner[s], turns)
    BY <1>0
  <2>2. \A j \in DOMAIN mine : mine[j].turn # r.turn
    BY <1>0, <1>1 DEF ChatFits
  <2> QED
    BY <2>1, <2>2 DEF RowsOf
<1> DEFINE t == r.turn
<1> HIDE DEF x, mine, t
<1>8. /\ RowsOf(mine \o x, Owner[s], turns) /\ Extends(mine, mine \o x)
      /\ \A j \in DOMAIN (mine \o x) : j \in DOMAIN mine \/ (mine \o x)[j].turn = r.turn
  <2>1. turns <= turns /\ t <= turns /\ t \in Nat
    BY <1>0, <1>6 DEF t
  <2>2. /\ OwnTurns(x, Owner[s], t) /\ x[1].turn = t /\ \A j \in DOMAIN mine : mine[j].turn # t
    BY <1>6, <1>7 DEF t
  <2>3. RowsOf(mine \o x, Owner[s], turns)
    <3>1. NoneCut(mine \o x)
      BY <1>6, <1>7, NoneCutStays
    <3> QED
      BY <1>0, <1>6, <1>7, <2>1, <2>2, <3>1, AppendedFits DEF RowsOf
  <2>4. Extends(mine, mine \o x)
    BY <1>6, <1>7, ExtendsMore
  <2>5. \A j \in DOMAIN (mine \o x) : j \in DOMAIN mine \/ (mine \o x)[j].turn = t
    <3>1. /\ DOMAIN (mine \o x) = 1..(Len(mine) + 2) /\ DOMAIN mine = 1..Len(mine)
          /\ (mine \o x)[Len(mine) + 1] = x[1] /\ (mine \o x)[Len(mine) + 2] = x[2]
          /\ Len(mine) \in Nat
      BY <1>6, <1>7, TwoMore
    <3>2. x[1].turn = t /\ x[2].turn = t
      <4>1. 2 \in DOMAIN x /\ 2 % 2 = 0 /\ 2 - 1 = 1
        BY <1>6
      <4> QED
        BY <1>6, <2>2, <4>1 DEF Paired
    <3>3. \A j \in 1..(Len(mine) + 2) :
            j \in 1..Len(mine) \/ j = Len(mine) + 1 \/ j = Len(mine) + 2
      BY <3>1
    <3> QED
      BY <3>1, <3>2, <3>3
  <2> QED
    BY <2>3, <2>4, <2>5 DEF t
<1>9. /\ stored' = [a \in Attorneys |-> stored'[a]]
      /\ \A a \in Attorneys : RowsOf(stored'[a], a, turns) /\ Extends(stored[a], stored'[a])
      /\ \A a \in Attorneys : \A j \in DOMAIN stored'[a] :
           j \in DOMAIN stored[a] \/ stored'[a][j].turn = r.turn
  <2>0. \A a \in Attorneys : Extends(stored[a], stored[a])
    BY <1>0, ExtendsMore DEF RowsOf
  <2>1. CASE "store" \in failing
    BY <1>0, <1>2, <2>0, <2>1
  <2>2. CASE "store" \notin failing
    <3>1. stored' = [stored EXCEPT ![Owner[s]] = mine \o x]
      BY <1>2, <2>2
    <3> DEFINE longer == mine \o x
    <3>2. stored' = [stored EXCEPT ![Owner[s]] = longer]
      BY <3>1
    <3>3. /\ RowsOf(longer, Owner[s], turns) /\ Extends(stored[Owner[s]], longer)
          /\ \A j \in DOMAIN longer : j \in DOMAIN stored[Owner[s]] \/ longer[j].turn = r.turn
      BY <1>8 DEF mine
    <3> HIDE DEF longer, r
    <3>4. /\ stored' = [a \in Attorneys |-> stored'[a]] /\ stored'[Owner[s]] = longer
          /\ \A a \in Attorneys : a # Owner[s] => stored'[a] = stored[a]
      BY <1>0, <3>2
    <3>5. ASSUME NEW a \in Attorneys
          PROVE  /\ RowsOf(stored'[a], a, turns) /\ Extends(stored[a], stored'[a])
                 /\ \A j \in DOMAIN stored'[a] :
                      j \in DOMAIN stored[a] \/ stored'[a][j].turn = r.turn
      <4>1. CASE a = Owner[s]
        BY <3>3, <3>4, <4>1
      <4>2. CASE a # Owner[s]
        BY <1>0, <2>0, <3>4, <4>2
      <4> QED
        BY <4>1, <4>2
    <3> QED
      BY <3>4, <3>5
  <2> QED
    BY <2>1, <2>2
<1>10. StoresFit'
  BY <1>4, <1>9 DEF IInv, StoresFit
<1>11. RequestFits(w, s, "chat", reviews', stored', turns')
  <2>1. /\ reviews' \in Seq(ReviewRows) /\ Extends(reviews, reviews') /\ turns <= turns'
        /\ turns' \in Nat
    BY <1>0, <1>4, ExtendsMore
  <2>2. /\ stored[Owner[s]] \in Seq(Messages) /\ stored'[Owner[s]] \in Seq(Messages)
        /\ Extends(stored[Owner[s]], stored'[Owner[s]])
    BY <1>0, <1>9 DEF RowsOf
  <2>3. w.phase \notin {"asked", "answered", "appended"}
    BY <1>5
  <2> QED
    BY <1>0, <1>5, <2>1, <2>2, <2>3, RequestStays
<1>12. BoardFits'
  <2>1. Extends(reviews, reviews') /\ turns <= turns'
    BY <1>0, <1>4, ExtendsMore
  <2>2. w.turn = request[s]["chat"].turn /\ request[s]["chat"].phase # "idle"
    BY <1>1, <1>5
  <2>3. StoresFit /\ BoardFits
    BY DEF IInv
  <2>4. \A a \in Attorneys : \A j \in DOMAIN stored'[a] :
          \/ j \in DOMAIN stored[a]
          \/ request[s]["chat"].phase # "idle" /\ stored'[a][j].turn = request[s]["chat"].turn
    BY <1>9, <2>2
  <2> QED
    BY <1>0, <1>3, <1>9, <1>10, <1>11, <2>1, <2>2, <2>3, <2>4, OneMoves
<1> QED
  BY <1>4, <1>10, <1>12 DEF IInv

-----------------------------------------------------------------------------
(* The invariant. *)

\* An edit of the document changes no store and no request.
LEMMA EditsFit ==
  ASSUME IInv, Edits
  PROVE  IInv'
<1>1. blanks' \subseteq Fields
  BY DEF IInv, Edits
<1>2. UNCHANGED <<reviews, stored, history, request, turns>>
  BY DEF Edits
<1> QED
  BY <1>1, <1>2 DEF IInv, StoresFit, BoardFits, IsBoard, TurnsTellApart

(* The stores and every request fit one another in every reachable state. *)
THEOREM Invariance == Spec => []IInv
<1>1. Init => IInv
  BY InitFits
<1>2. IInv /\ [Next]_vars => IInv'
  <2> SUFFICES ASSUME IInv, [Next]_vars
               PROVE  IInv'
    OBVIOUS
  <2>1. CASE Edits
    BY <2>1, EditsFit
  <2>2. ASSUME NEW s \in Sessions, AsksQuestion(s)
        PROVE  IInv'
    <3>1. PICK q \in DOMAIN Questions : Sends(s, "chat", q)
      BY <2>2 DEF AsksQuestion
    <3>2. MayAsk("chat", q) /\ "chat" \in Tabs
      BY DEF MayAsk, Tabs
    <3> QED
      BY <3>1, <3>2, SendsFits
  <2>3. ASSUME NEW s \in Sessions, Answers(s)
        PROVE  IInv'
    BY <2>3, AnswersFit
  <2>4. ASSUME NEW s \in Sessions, KeepsConversation(s)
        PROVE  IInv'
    BY <2>4, KeepsConversationFits
  <2>5. ASSUME NEW s \in Sessions, AsksForReview(s)
        PROVE  IInv'
    <3>1. MayAsk("findings", "Review this contract.") /\ "findings" \in Tabs
      BY DEF MayAsk, Tabs
    <3> QED
      BY <2>5, <3>1, SendsFits DEF AsksForReview
  <2>6. ASSUME NEW s \in Sessions, AnswersReview(s)
        PROVE  IInv'
    BY <2>6, AnswersReviewFits
  <2>7. ASSUME NEW s \in Sessions, SavesReview(s)
        PROVE  IInv'
    BY <2>7, SavesReviewFits
  <2>8. ASSUME NEW s \in Sessions, NEW b \in Tabs, Appends(s, b)
        PROVE  IInv'
    BY <2>8, AppendsFit
  <2>9. CASE UNCHANGED vars
    BY <2>9 DEF vars, IInv, StoresFit, BoardFits, IsBoard, TurnsTellApart
  <2> QED
    BY <2>1, <2>2, <2>3, <2>4, <2>5, <2>6, <2>7, <2>8, <2>9 DEF Next
<1> QED
  BY <1>1, <1>2, PTL DEF Spec


(* What the invariant says of a chat request. *)
LEMMA ChatIs ==
  ASSUME IInv, NEW s \in Sessions
  PROVE  /\ ChatFits(request[s]["chat"], s, reviews, stored)
         /\ request[s]["chat"].phase \in Phases
<1>1. "chat" \in Tabs
  BY DEF Tabs
<1>2. RequestFits(request[s]["chat"], s, "chat", reviews, stored, turns)
  BY <1>1, OneFits
<1> QED
  BY <1>2 DEF RequestFits, IsRequest

(* What a prompt recalls is the stored review, reconciled with the text sent. *)
LEMMA PromptedRecalls ==
  ASSUME IInv, NEW r \in Prompted, r.review > 0
  PROVE  \E name \in ReviewNames :
           /\ name = reviews[r.review].name
           /\ r.recalled = ReconcileReviewWithDoc(StripRedlines(TextOf(name).lines),
                                                  TextOf(name).table, TextWith(r.blanks))
<1>1. PICK s \in Sessions : r = request[s]["chat"]
  BY DEF Prompted, Chats
<1>2. ChatFits(r, s, reviews, stored) /\ IsPrompted(r)
  BY <1>1, ChatIs DEF Prompted, IsPrompted, Phases
<1>3. RecallFits(r, reviews)
  BY <1>2 DEF ChatFits
<1>4. r.review \in Nat
  <2>1. "chat" \in Tabs
    BY DEF Tabs
  <2>2. RequestFits(request[s]["chat"], s, "chat", reviews, stored, turns)
    BY <2>1, OneFits
  <2> QED
    BY <1>1, <2>2 DEF RequestFits, IsRequest
<1>5. reviews[r.review].name \in ReviewNames
  <2>1. reviews \in Seq(ReviewRows) /\ r.review \in 1..Len(reviews)
    BY <1>3, <1>4 DEF IInv, StoresFit, RecallFits
  <2>2. reviews[r.review] \in ReviewRows
    BY <2>1
  <2> QED
    BY <2>2 DEF ReviewRows
<1> QED
  BY <1>3, <1>5 DEF RecallFits

(* chat_history holds whole turns of its session, each once and in their order. *)
THEOREM HistoriesAreWhole == Spec => []HistoryIsWhole
<1>1. IInv => HistoryIsWhole
  <2> SUFFICES ASSUME IInv, NEW s \in Sessions
               PROVE  LET h == history[s]
                      IN  /\ Len(h) % 2 = 0
                          /\ \A i \in DOMAIN h :
                               /\ h[i].role = (IF i % 2 = 1 THEN "user" ELSE "assistant")
                               /\ i % 2 = 0 => h[i].turn = h[i - 1].turn
                               /\ \A j \in 1..(i - 2) : h[j].turn # h[i].turn
                               /\ \A j \in 1..i : h[j].turn <= h[i].turn
    BY DEF HistoryIsWhole
  <2>1. Whole(history[s])
    BY DEF IInv, StoresFit, HistoryOf
  <2> QED
    BY <2>1 DEF Whole, Paired, EachOnce, InOrder
<1> QED
  BY <1>1, Invariance, PTL

(* A prompt replays the attorney's own messages without a whole block, nothing twice,
   and a piece of a block only where chat_history stands in for the store. *)
THEOREM ReplaysAreOwnProse == Spec => []ReplayIsOwnProse
<1>1. IInv => ReplayIsOwnProse
  <2> SUFFICES ASSUME IInv, NEW s \in Sessions
               PROVE  OwnProse(request[s]["chat"], Owner[s])
    BY DEF ReplayIsOwnProse, OwnProse, OwnWithoutBlocks, NoneCut
  <2> QED
    BY ChatIs DEF ChatFits
<1> QED
  BY <1>1, Invariance, PTL

(* The recalled review agrees with the text that was sent along. *)
THEOREM RecallsAreCurrent == Spec => []RecallIsCurrent
<1>1. IInv => RecallIsCurrent
  <2> SUFFICES ASSUME IInv, NEW r \in Prompted, r.review > 0
               PROVE  LET lines == StripRedlines(TextOf(reviews[r.review].name).lines)
                      IN  /\ \A l \in lines \ r.recalled.lines :
                               /\ \E f \in l.about : f \notin r.blanks
                               /\ \A f \in l.about : ~ IsOpen(f, r, l)
                          /\ \A l \in r.recalled.lines :
                               l.section = "key findings" /\ l.quotes # {}
                                 /\ l.quotes \cap Bundles = {}
                                 /\ (\A q \in l.quotes : Shows[q] \subseteq l.about)
                                 => l.about \cap r.blanks # {}
    BY DEF RecallIsCurrent, RecallKeepsTheLive, RecallDropsTheFilled, DroppedLines
  <2>1. PICK name \in ReviewNames :
          /\ name = reviews[r.review].name
          /\ r.recalled = ReconcileReviewWithDoc(StripRedlines(TextOf(name).lines),
                                                 TextOf(name).table, TextWith(r.blanks))
    BY PromptedRecalls
  <2> QED
    BY <2>1, RecallAgrees
<1> QED
  BY <1>1, Invariance, PTL

(* The gate says PENDING RE-REVIEW only when of every blocking finding some field was
   filled, and all it quotes by themselves. *)
THEOREM GatesWaitForBlockers == Spec => []GateWaitsForBlockers
<1>1. IInv => GateWaitsForBlockers
  <2> SUFFICES ASSUME IInv, NEW r \in Prompted, r.review > 0, r.recalled.pending,
                      NEW l \in TextOf(reviews[r.review].name).lines,
                      l.section = "key findings", l.rating \in Blocking
               PROVE  (\E f \in l.about : f \notin r.blanks) /\ (\A f \in l.about : ~ IsOpen(f, r, l))
    BY DEF GateWaitsForBlockers
  <2>1. PICK name \in ReviewNames :
          /\ name = reviews[r.review].name
          /\ r.recalled = ReconcileReviewWithDoc(StripRedlines(TextOf(name).lines),
                                                 TextOf(name).table, TextWith(r.blanks))
    BY PromptedRecalls
  <2> QED
    BY <2>1, RecallAgrees
<1> QED
  BY <1>1, Invariance, PTL

(* Asked to keep something in mind, the server offers no preference to store. *)
THEOREM ContextIsNotOffered == Spec => []ContextOnlyOffersNothing
<1>1. IInv => ContextOnlyOffersNothing
  <2> SUFFICES ASSUME IInv, NEW s \in Sessions, request[s]["chat"].phase = "done",
                      ContextOnly(request[s]["chat"].question)
               PROVE  ~ request[s]["chat"].offered
    BY DEF ContextOnlyOffersNothing, Done, Chats
  <2> QED
    BY ChatIs DEF ChatFits, IsPrompted
<1> QED
  BY <1>1, Invariance, PTL

(* No failing read, unsaved review or failing model call goes without a word, as long as
   a conversation may hold more than one message: a single one can be an answer that is
   all blocks.  The rows of a chat turn may be lost without one. *)
THEOREM LossesAreAnnounced == MaxMessages > 1 => (Spec => []LossIsAnnounced)
<1> SUFFICES ASSUME MaxMessages > 1
             PROVE  Spec => []LossIsAnnounced
  OBVIOUS
<1>1. IInv => LossIsAnnounced
  <2> SUFFICES ASSUME IInv
               PROVE  LossIsAnnounced
    OBVIOUS
  <2>1. ASSUME NEW r \in Done
        PROVE  /\ r.known > 0 /\ r.review = 0 => r.degraded
               /\ r.stateless => r.degraded
               /\ r.faulty = {"edit retry"} => r.answer # Error
    <3>1. PICK s \in Sessions : r = request[s]["chat"]
      BY DEF Done, Chats
    <3>2. ChatFits(r, s, reviews, stored) /\ IsPrompted(r)
      BY <3>1, ChatIs DEF Done, IsPrompted
    <3> QED
      BY <3>2 DEF ChatFits, ReviewTold
  <2>2. ASSUME NEW s \in Sessions, request[s]["chat"].phase = "done", request[s]["chat"].rows > 0,
               \A i \in DOMAIN request[s]["chat"].conversation, j \in DOMAIN stored[Owner[s]] :
                 request[s]["chat"].conversation[i].turn # stored[Owner[s]][j].turn
        PROVE  request[s]["chat"].degraded
    <3>1. ConversationTold(request[s]["chat"], stored[Owner[s]])
      BY <2>2, ChatIs DEF ChatFits, IsPrompted
    <3> QED
      BY <2>2, <3>1 DEF ConversationTold
  <2>3. ASSUME NEW s \in Sessions, request[s]["findings"].phase = "done",
               \A i \in DOMAIN reviews : reviews[i].turn # request[s]["findings"].turn
        PROVE  request[s]["findings"].unsaved
    <3>1. "findings" \in Tabs
      BY DEF Tabs
    <3>2. ReviewFits(request[s]["findings"], reviews)
      BY <3>1, OneFits
    <3> QED
      BY <2>3, <3>2 DEF ReviewFits
  <2>4. ASSUME NEW s \in Sessions, NEW b \in Tabs, request[s][b].phase = "done",
               request[s][b].answer = Error
        PROVE  "failed" \in request[s][b].codes
    <3>1. CASE b = "chat"
      BY <2>4, <3>1, OneFits DEF ChatFits, IsPrompted
    <3>2. CASE b = "findings"
      BY <2>4, <3>2, OneFits DEF ReviewFits, IsPrompted
    <3> QED
      BY <3>1, <3>2 DEF Tabs
  <2>5. MissingIsFlagged
    BY <2>1, <2>2, <2>3 DEF MissingIsFlagged
  <2>6. ErrorsAreReported
    BY <2>1, <2>4 DEF ErrorsAreReported
  <2> QED
    BY <2>5, <2>6 DEF LossIsAnnounced
<1> QED
  BY <1>1, Invariance, PTL
=============================================================================
