----------------------------- MODULE TrackedText -----------------------------
(***************************************************************************)
(* The pane's map from the text the model read to the text Word searches   *)
(* (clients/word/src/trackedText.ts).  The model reads the document with   *)
(* its tracked changes accepted (current); Word searches it with the       *)
(* struck runs still in it (raw).                                          *)
(*                                                                         *)
(* A text is a sequence of characters.  A character stands for all those   *)
(* normalizeForSearch and the folding make equal: cases, curly quotes, the *)
(* kinds of space.  Breaks and runs of spaces, which the mapping turns on, *)
(* are modelled.  Positions count from 1; a hit and a stretch hold their   *)
(* first and last position.                                                *)
(***************************************************************************)
EXTENDS Integers, Sequences, FiniteSets

CONSTANTS
  Break,      \* a paragraph mark or a line break
  Space,
  WordChars,  \* letters and digits
  SearchMax   \* WORD_SEARCH_LIMIT

ASSUME CharactersAssumption ==
  Break # Space /\ {Break, Space} \cap WordChars = {} /\ SearchMax \in Nat

Least(S)    == CHOOSE m \in S : \A n \in S : m <= n
Greatest(S) == CHOOSE m \in S : \A n \in S : n <= m

First(s) == IF s = <<>> THEN <<>> ELSE <<s[1]>>

WithoutBreaks(s) == SelectSeq(s, LAMBDA c : c # Break)

\* foldText: spaces collapsed, and where each kept character was.
Folded(s, keepBreaks) ==
  LET seen == [i \in DOMAIN s |-> IF s[i] = Break /\ ~keepBreaks THEN Space ELSE s[i]]
      at   == SelectSeq([i \in DOMAIN s |-> i],
                        LAMBDA i : i = 1 \/ seen[i] # Space \/ seen[i - 1] # Space)
  IN  [text |-> [k \in DOMAIN at |-> seen[at[k]]], at |-> at]

\* foldNeedle: folded and trimmed.
Trimmed(t) ==
  LET solid == {i \in DOMAIN t : t[i] # Space}
  IN  IF solid = {} THEN <<>> ELSE SubSeq(t, Least(solid), Greatest(solid))

Needle(s) == Trimmed(Folded(s, FALSE).text)

\* occurrences: every one from the left that overlaps none before it.
OccurrencesOf(key, folded, wholeWord) ==
  LET n    == Len(key)
      text == folded.text
      IsWordChar(k) == k \in DOMAIN text /\ text[k] \in WordChars
      Stands(k) == /\ SubSeq(text, k, k + n - 1) = key
                   /\ wholeWord => ~IsWordChar(k - 1) /\ ~IsWordChar(k + n)
      from[k \in 1 .. Len(text) + n] ==
        IF k + n - 1 > Len(text) THEN <<>>
        ELSE IF Stands(k)
             THEN <<[from |-> folded.at[k], to |-> folded.at[k + n - 1]]>> \o from[k + n]
             ELSE from[k + 1]
  IN  IF key = <<>> THEN <<>> ELSE from[1]

Occurrences(folded, needle, wholeWord) == OccurrencesOf(Needle(needle), folded, wholeWord)

\* embed: the earliest and the latest place in raw of each character of current,
\* as early and as late as its neighbours let it be; a break has its neighbour's.
Left(raw, current) ==
  LET place[j \in 0 .. Len(current)] ==
        IF j = 0 THEN 0
        ELSE IF current[j] = Break THEN place[j - 1]
        ELSE LET free == {i \in place[j - 1] + 1 .. Len(raw) : raw[i] = current[j]}
             IN  IF free = {} THEN Len(raw) + 1 ELSE Least(free)
  IN  place

Right(raw, current) ==
  LET place[j \in 1 .. Len(current) + 1] ==
        IF j = Len(current) + 1 THEN Len(raw) + 1
        ELSE IF current[j] = Break THEN place[j + 1]
        ELSE LET free == {i \in 1 .. place[j + 1] - 1 : raw[i] = current[j]}
             IN  IF free = {} THEN 0 ELSE Greatest(free)
  IN  place

Embeds(raw, current) == Left(raw, current)[Len(current)] <= Len(raw)

Searchable(s) == Len(s) \in 1 .. SearchMax /\ \A i \in DOMAIN s : s[i] # Break

\* A stretch of raw with its place among its occurrences there, when it has one.
PlacedAmong(all, text, from) ==
  LET nth == {k \in DOMAIN all : all[k].from = from}
  IN  IF Searchable(text) /\ nth # {}
      THEN <<[text |-> text, nth |-> Least(nth), total |-> Len(all)]>>
      ELSE <<>>

Placed(raw, from, to, wholeWord) ==
  PlacedAmong(Occurrences(Folded(raw, TRUE), SubSeq(raw, from, to), wholeWord),
              SubSeq(raw, from, to), from)

\* stretchesAt: the tight stretch, struck runs only inside, then the wide one.
StretchesAt(raw, current, start, end, wholeWord) ==
  LET left  == Left(raw, current)
      right == Right(raw, current)
      tight == IF right[start] <= left[end]
               THEN Placed(raw, right[start], left[end], wholeWord) ELSE <<>>
      wide  == Placed(raw, left[start], right[end], wholeWord)
      Texts(s) == {s[i].text : i \in DOMAIN s}
  IN  IF Break \in {current[start], current[end]} THEN <<>>
      ELSE tight \o SelectSeq(wide, LAMBDA s : s.text \notin Texts(tight))

\* Views that do not line up: the text as written, and only if all of it is live.
AsWritten(raw, needle, wholeWord, live) ==
  LET total == Len(Occurrences(Folded(raw, TRUE), needle, wholeWord))
  IN  IF Searchable(needle) /\ total = live
      THEN [k \in 1 .. live |-> [text |-> needle, nth |-> k, total |-> total]]
      ELSE <<>>

\* trackedView is null on a document without tracked deletions.
HasView(raw, current) == WithoutBreaks(raw) # WithoutBreaks(current)

Live(current, needle, wholeWord) == Occurrences(Folded(current, FALSE), needle, wholeWord)

Count(current, needle) == Len(Live(current, needle, FALSE))

StretchesFor(raw, current, needle, wholeWord) ==
  LET live == Live(current, needle, wholeWord)
  IN  IF live = <<>> THEN <<>>
      ELSE IF Embeds(raw, current)
           THEN StretchesAt(raw, current, live[1].from, live[1].to, wholeWord)
           ELSE First(AsWritten(raw, needle, wholeWord, Len(live)))

\* The best stretch of every occurrence; one without a stretch is left out.
StretchesForEvery(raw, current, needle) ==
  LET live == Live(current, needle, FALSE)
      best[k \in 0 .. Len(live)] ==
        IF k = 0 THEN <<>>
        ELSE best[k - 1] \o First(StretchesAt(raw, current, live[k].from, live[k].to, FALSE))
  IN  IF live = <<>> THEN <<>>
      ELSE IF Embeds(raw, current) THEN best[Len(live)]
           ELSE AsWritten(raw, needle, FALSE, Len(live))

=============================================================================
