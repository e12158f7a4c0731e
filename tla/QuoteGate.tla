------------------------------ MODULE QuoteGate ------------------------------
(***************************************************************************)
(* What a condensed segment may say (skills/legal_research/compaction.py): *)
(* the quotes in a model's output that are whole sentences of the rows     *)
(* they cite, as many as the target size allows, oldest first.  Pure       *)
(* functions.                                                              *)
(*                                                                         *)
(* A text is a sequence of characters.  A row is [id, role, content], an   *)
(* output a sequence of lines: quote lines, lines that are skipped (empty  *)
(* ones, fences) and others.  A line of a segment is as long as its quote  *)
(* and its label; the digits of the row id count as part of the label.     *)
(***************************************************************************)
EXTENDS Integers, FiniteSets, Sequences, SequencesExt

CONSTANTS
  Upper, Digits,             \* str.isupper, str.isdigit
  FullStop, Newline, Blank,
  Terminators,               \* _CLAUSE_END, the full stop among them
  Blanks,                    \* white space but for the line break, Blank among it
  Edge,                      \* _EDGE_CHARS
  Guillemets,                \* the quotation marks _NORMALISE leaves alone
  Quotation,                 \* _QUOTE_CHARS
  Formatting,                \* _DROPPED_FORMATTING
  Straight,                  \* _NORMALISE, on every character
  Folded,                    \* a character without its case
  NonTerminal,               \* _NON_TERMINAL_ABBREVIATIONS
  NonTerminalBeforeNumber,
  Label,                     \* the length of a line's label and marks, by speaker
  Overhead,                  \* the length of a segment without quotes
  CharsPerQuoteLine, CompactionMinQuotes, CompactionMaxQuotes

Spaces == Blanks \cup {Newline}

(* What is written down in the module's constants: an abbreviation is one word that
   begins with none of the characters set aside in front of words, and no number is
   space or an edge. *)
Vocabulary ==
  /\ \A word \in NonTerminal \cup NonTerminalBeforeNumber :
       /\ word # <<>> /\ word[1] \notin Edge \cup Guillemets
       /\ \A n \in DOMAIN word : word[n] \notin Spaces
  /\ Digits \cap (Spaces \cup Edge) = {}

(* The members of a finite set from the first to the last. *)
InOrder(S, Before(_, _)) ==
  [n \in 1..Cardinality(S) |->
     CHOOSE i \in S : Cardinality({j \in S : Before(j, i)}) = n - 1]

-----------------------------------------------------------------------------
(* Texts on equal terms: formatting is gone, quotation marks are straight, and
   between two visible characters the space that was there is one blank, or a
   line break if it held one. *)
NormShape(text) ==
  LET visible == {i \in DOMAIN text : text[i] \notin Formatting \cup Spaces}
      Gap(i) == {text[k] : k \in {n \in 1..(i - 1) : \A v \in visible : v < i => v < n}} \cap Spaces
      Joint(i) == IF i = Min(visible) \/ Gap(i) = {} THEN <<>>
                  ELSE IF Newline \in Gap(i) THEN <<Newline>> ELSE <<Blank>>
      order == InOrder(visible, <)
  IN  FlattenSeq([n \in DOMAIN order |-> Append(Joint(order[n]), Straight[text[order[n]]])])

(* The word just before position i, without what may stand in front of it. *)
TokenBefore(row, i) ==
  LET first == Min({k \in 1..i : /\ \A n \in k..(i - 1) : row[n] \notin Spaces
                                 /\ k = i \/ row[k] \notin Edge \cup Guillemets})
  IN  SubSeq(row, first, i - 1)

(* The first position behind i that holds something else, or the end. *)
NextBeyond(row, i, chars) ==
  Min({j \in (i + 1)..Len(row) : row[j] \notin chars} \cup {Len(row) + 1})
NextVisible(row, i) == NextBeyond(row, i, Spaces \cup Edge)

(* A terminator ends a sentence at the end of the row, or before a space and a
   capital or a number, unless an abbreviation brought it. *)
SentenceEnds(row) ==
  {i \in DOMAIN row :
     /\ row[i] \in Terminators
     /\ \/ i = Len(row)
        \/ LET j == NextVisible(row, i)
               token == TokenBefore(row, i)
           IN  /\ row[i + 1] \in Spaces
               /\ j <= Len(row) => row[j] \in Upper \cup Digits
               /\ token \notin NonTerminal
               /\ ~ (j <= Len(row) /\ row[j] \in Digits /\ token \in NonTerminalBeforeNumber)}

(* A sentence starts with the row, behind the end of another, or on a new line:
   a line break may begin a sentence but never end one. *)
SentenceStarts(row) ==
  LET behind == {NextVisible(row, i) : i \in SentenceEnds(row)}
      below  == {NextBeyond(row, i, Blanks \cup Edge) : i \in {k \in DOMAIN row : row[k] = Newline}}
  IN  {1} \cup {p \in behind \cup below : p <= Len(row)}

(* Where the quote can be read in the row, whatever the case. *)
Occurrences(row, quote) ==
  {p \in 1..(Len(row) - Len(quote) + 1) :
     \A k \in DOMAIN quote : Folded[row[p + k - 1]] = Folded[quote[k]]}

(* finditer's: from the left, none over another. *)
IsScan(S, row, quote) ==
  S = {p \in Occurrences(row, quote) : \A r \in S : r < p => r + Len(quote) <= p}

(* An occurrence is a whole sentence if nothing but a full stop is missing at its end. *)
IsWhole(row, quote, p) ==
  LET e == p + Len(quote)
  IN  /\ p \in SentenceStarts(row)
      /\ \/ e = Len(row) + 1
         \/ e \in SentenceEnds(row) /\ row[e] = FullStop
         \/ e - 1 \in SentenceEnds(row)

QuotesAWholeSentence(row, quote) ==
  \E S \in SUBSET Occurrences(row, quote) :
    IsScan(S, row, quote) /\ \E p \in S : IsWhole(row, quote, p)

(* What an accepted quote must not do (the comments on _CLAUSE_END and on the gate):
   leave out something of the sentences it is taken from.  It begins with the row, or
   behind a line break or a closing terminator with nothing but edges between, and it
   ends with the row, with a closing terminator, or before a closing full stop.  A
   terminator closes if it ends the row, or if space and then a capital or a number
   follow and the word in front of it does not introduce them. *)
Introduces(row, i, words) ==
  \E k \in 1..i :
    /\ SubSeq(row, k, i - 1) \in words
    /\ \E m \in 1..k : /\ m > 1 => row[m - 1] \in Spaces
                       /\ \A n \in m..(k - 1) : row[n] \in Edge \cup Guillemets

IsClosed(row, i) ==
  /\ row[i] \in Terminators
  /\ i < Len(row) =>
       /\ row[i + 1] \in Spaces
       /\ ~ Introduces(row, i, NonTerminal)
       /\ \A j \in (i + 1)..Len(row) :
            (\A k \in (i + 1)..(j - 1) : row[k] \in Spaces \cup Edge)
              => /\ row[j] \in Spaces \cup Edge \cup Upper \cup Digits
                 /\ row[j] \in Digits => ~ Introduces(row, i, NonTerminalBeforeNumber)

BeginsASentence(row, p) ==
  \/ p = 1
  \/ \E i \in 1..(p - 1) : /\ row[i] = Newline \/ IsClosed(row, i)
                           /\ \A k \in (i + 1)..(p - 1) : row[k] \in Spaces \cup Edge

EndsASentence(row, e) ==
  \/ e = Len(row)
  \/ e \in DOMAIN row /\ IsClosed(row, e)
  \/ e + 1 \in DOMAIN row /\ row[e + 1] = FullStop /\ IsClosed(row, e + 1)

NothingIsCutOff(row, quote) ==
  \E p \in Occurrences(row, quote) :
    BeginsASentence(row, p) /\ EndsASentence(row, p + Len(quote) - 1)

-----------------------------------------------------------------------------
(* What a line quotes, without the marks around it. *)
Strip(text, chars) ==
  LET kept == {i \in DOMAIN text : text[i] \notin chars}
  IN  IF kept = {} THEN <<>> ELSE SubSeq(text, Min(kept), Max(kept))
TextOf(line) == Strip(Strip(Strip(line.text, Spaces), Quotation), Spaces)

(* The quotes of an output; none if one of its lines is not a quote. *)
ParseQuoteLines(body) ==
  LET lines == SelectSeq(body, LAMBDA l : l.kind # "skipped")
  IN  IF \E i \in DOMAIN lines : lines[i].kind = "other" THEN <<>>
      ELSE [i \in DOMAIN lines |->
              [row |-> lines[i].row, speaker |-> lines[i].speaker, text |-> TextOf(lines[i])]]

Speaker(role) == IF role = "user" THEN "attorney" ELSE "assistant"

(* _quote_failure finds nothing: the quote cites a condensed row, as its speaker's. *)
IsTrusted(q, rows, from, to) ==
  /\ q.row \in from..to
  /\ q.text # <<>>
  /\ \E r \in ToSet(rows) :
       /\ r.id = q.row /\ Speaker(r.role) = q.speaker
       /\ QuotesAWholeSentence(NormShape(r.content), NormShape(q.text))

ValidateSegment(body, rows, from, to) ==
  LET quotes == ParseQuoteLines(body)
  IN  quotes # <<>> /\ \A i \in DOMAIN quotes : IsTrusted(quotes[i], rows, from, to)

(* partition_quotes: an output of which nothing is kept is rejected. *)
Kept(body, rows, from, to) ==
  SelectSeq(ParseQuoteLines(body), LAMBDA q : IsTrusted(q, rows, from, to))

-----------------------------------------------------------------------------
(* Sizes, in characters. *)
Content(quotes) ==
  Overhead + MapThenSumSet(LAMBDA i : 1 + Label[quotes[i].speaker] + Len(quotes[i].text),
                           DOMAIN quotes)
RawChars(rows) == MapThenSumSet(LAMBDA i : Len(rows[i].content), DOMAIN rows)

(* How many quotes, at most, leave room for the characters asked for. *)
MaxQuotes(raw, reclaim) ==
  IF reclaim = 0 THEN CompactionMaxQuotes
  ELSE Max({CompactionMinQuotes,
            Min({CompactionMaxQuotes, (raw - reclaim - Overhead) \div CharsPerQuoteLine})})

FirstOf(quotes, n) == SubSeq(quotes, 1, Min({n, Len(quotes)}))

(* sorted by row id; what cites one row stays in the model's order. *)
Chronological(quotes) ==
  LET Before(i, j) == \/ quotes[i].row < quotes[j].row
                      \/ quotes[i].row = quotes[j].row /\ i < j
      order == InOrder(DOMAIN quotes, Before)
  IN  [n \in DOMAIN order |-> quotes[order[n]]]

WithoutOldest(quotes, n) == SubSeq(quotes, n + 1, Len(quotes))

(* The oldest go until enough is freed or only the smallest segment is left. *)
Trimmed(quotes, raw, reclaim) ==
  LET enough == {n \in 0..Len(quotes) :
                   \/ reclaim = 0 \/ Len(quotes) - n <= CompactionMinQuotes
                   \/ raw - Content(WithoutOldest(quotes, n)) >= reclaim}
  IN  WithoutOldest(quotes, Min(enough))

Segment(quotes, raw, reclaim) ==
  Trimmed(Chronological(FirstOf(quotes, MaxQuotes(raw, reclaim))), raw, reclaim)

-----------------------------------------------------------------------------
(* compact_conversation on the rows selected, up to the insert: answers[1] and
   answers[2] are what the model says when asked and asked again. *)
Unreachable == [said |-> FALSE, body |-> <<>>]
Nothing(outcome) == [outcome |-> outcome, quotes |-> <<>>, dropped |-> 0, reclaimed |-> 0]

CompactConversation(answers, rows, from, to, reclaim) ==
  LET Passes(n) == answers[n].said /\ Kept(answers[n].body, rows, from, to) # <<>>
      body == IF Passes(1) THEN answers[1].body ELSE answers[2].body
      kept == Kept(body, rows, from, to)
      raw == RawChars(rows)
      quotes == Segment(kept, raw, reclaim)
  IN  CASE rows = <<>> -> Nothing("nothing earlier")
        [] rows # <<>> /\ ~Passes(1) /\ ~Passes(2) ->
             Nothing(IF answers[2].said THEN "not verified" ELSE "unreachable")
        [] rows # <<>> /\ (Passes(1) \/ Passes(2)) /\ Content(quotes) >= raw -> Nothing("no saving")
        [] OTHER -> [outcome |-> "condensed", quotes |-> quotes,
                     dropped |-> Len(ParseQuoteLines(body)) - Len(kept),
                     reclaimed |-> raw - Content(quotes)]

=============================================================================
