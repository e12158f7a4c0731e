------------------------------- MODULE WordFind -------------------------------
(***************************************************************************)
(* Where an edit goes: the locators of clients/word/src/word.ts.  A match  *)
(* is a stretch of the raw text with the text it stands for; a search      *)
(* returns a sequence of matches, empty when there is none.                *)
(***************************************************************************)
EXTENDS TrackedText

CONSTANTS
  Meta,          \* characters Word's literal search misreads (WORD_WILDCARD_META)
  Special,       \* characters a needle is also cut at (SEARCH_SPECIAL)
  EndMarks,      \* . ! ?
  CandidateMin,  \* what is shorter is tried only when nothing else is there
  CandidateMax,  \* SEARCH_MAX_LEN
  HeadLengths,   \* lengths of the shorter and shorter heads that are tried,
  HeadWords,     \* and their numbers of words
  TailMin,       \* the same for the tails
  TailLengths,
  TailWords,
  LongNeedle,    \* length from which a clause is found by head and tail
  HardCap        \* HARD_CAP of replaceAll

ASSUME CandidatesAssumption == {CandidateMin, CandidateMax, TailMin, LongNeedle, HardCap} \subseteq Nat \ {0}

HasMeta(s) == \E i \in DOMAIN s : s[i] \in Meta

Ranges(raw, found) ==
  [k \in DOMAIN found |-> [from |-> found[k].from, to |-> found[k].to,
                           live |-> SubSeq(raw, found[k].from, found[k].to)]]

\* body.search: nothing across a break, nothing too long, and in literal mode
\* nothing that holds one of Meta.
SearchAll(raw, trial, escaped, wholeWord) ==
  IF ~Searchable(trial) \/ (~escaped /\ HasMeta(trial)) THEN <<>>
  ELSE Ranges(raw, Occurrences(Folded(raw, TRUE), trial, wholeWord /\ ~escaped))

\* shouldMatchWholeWord: exactly one word.
OneWord(trial) == Needle(trial) # <<>> /\ \A i \in DOMAIN Needle(trial) : Needle(trial)[i] # Space

\* A stretch's matches, if Word finds as many as the raw text holds.
Agreeing(stretch, literal, escaped) ==
  CASE Len(literal) = stretch.total                          -> literal
    [] Len(literal) # stretch.total /\ HasMeta(stretch.text)
         /\ Len(escaped) = stretch.total                     -> escaped
    [] OTHER                                                 -> <<>>

StretchMatches(raw, stretch, wholeWord) ==
  Agreeing(stretch, SearchAll(raw, stretch.text, FALSE, wholeWord),
           SearchAll(raw, stretch.text, TRUE, FALSE))

\* The nth match, taken for the live text it was looked for.
NthMatch(matches, nth, live) ==
  IF nth \in DOMAIN matches THEN <<[matches[nth] EXCEPT !.live = live]>> ELSE <<>>

\* The first of several searches that found something.
FirstFound(searches) ==
  LET hits == {i \in DOMAIN searches : searches[i] # <<>>}
  IN  IF hits = {} THEN <<>> ELSE searches[Least(hits)]

\* searchLive: seen is the reading the stretches come from, raw what Word searches.
SearchStretches(raw, stretches, trial) ==
  FirstFound([k \in DOMAIN stretches |->
    NthMatch(StretchMatches(raw, stretches[k], OneWord(trial)), stretches[k].nth, trial)])

SearchLive(raw, seen, trial) ==
  SearchStretches(raw, StretchesFor(seen.raw, seen.current, trial, OneWord(trial)), trial)

\* Word is asked again, escaped, when it found nothing of a text with Meta in it.
LiteralOrEscaped(raw, trial, literal) ==
  IF literal # <<>> \/ ~HasMeta(trial) THEN literal ELSE SearchAll(raw, trial, TRUE, FALSE)

\* Mutant: the raw document is searched as it stands.
SearchFirstRaw(raw, seen, trial) ==
  First(LiteralOrEscaped(raw, trial, SearchAll(raw, trial, FALSE, OneWord(trial))))

SearchFirst(raw, seen, trial) ==
  IF seen.hasView THEN SearchLive(raw, seen, trial)
  ELSE First(LiteralOrEscaped(raw, trial, SearchAll(raw, trial, FALSE, OneWord(trial))))

\* The loop over candidates: the first that is found.
FirstOf(raw, seen, candidates) ==
  FirstFound([k \in DOMAIN candidates |-> SearchFirst(raw, seen, candidates[k])])

\* The lines of a text that hold something.
LineFrom(s, i) ==
  SubSeq(s, i, Least({j \in i .. Len(s) : j = Len(s) \/ s[j + 1] = Break}))
LineStarts(s) ==
  {i \in DOMAIN s : s[i] # Break /\ (i = 1 \/ s[i - 1] = Break) /\ Needle(LineFrom(s, i)) # <<>>}
FirstLine(s) == IF LineStarts(s) = {} THEN <<>> ELSE LineFrom(s, Least(LineStarts(s)))
LastLine(s)  == IF LineStarts(s) = {} THEN <<>> ELSE LineFrom(s, Greatest(LineStarts(s)))

LengthsBelow(lengths, s) == SelectSeq(lengths, LAMBDA n : n < Len(s))

Spaces(text)        == SelectSeq([i \in DOMAIN text |-> i], LAMBDA i : text[i] = Space)
FirstWords(text, n) == IF Len(Spaces(text)) < n THEN <<>> ELSE SubSeq(text, 1, Spaces(text)[n] - 1)
LastWords(text, n)  ==
  LET gaps == Spaces(text)
  IN  IF Len(gaps) < n - 1 THEN <<>>
      ELSE SubSeq(text, IF Len(gaps) < n THEN 1 ELSE gaps[Len(gaps) - n + 1] + 1, Len(text))

\* Where a sentence may end, the first sentence, and the last of several.
Closings(text)      == {i \in DOMAIN text : text[i] \in EndMarks /\ (i = Len(text) \/ text[i + 1] = Space)}
FirstSentence(text) ==
  IF Closings(text) \ {1} = {} THEN <<>> ELSE SubSeq(text, 1, Least(Closings(text) \ {1}))
LastSentence(text)  ==
  LET ends == {i \in Closings(text) \ {1} : text[i - 1] \notin EndMarks}
      last == Greatest(ends)
  IN  IF Cardinality(ends) < 2 THEN <<>>
      ELSE SubSeq(text, Greatest({i \in 1 .. last - 1 : text[i] \in EndMarks}) + 1, last)

\* A head of n characters ends at a space of its second half, a tail begins behind
\* its first.
HeadOf(text, n) ==
  LET gaps == {i \in 1 .. n : text[i] = Space /\ i - 1 > n \div 2}
  IN  SubSeq(text, 1, IF gaps = {} THEN n ELSE Greatest(gaps) - 1)
TailOf(text, n) ==
  LET from == Len(text) - n + 1
      gaps == {i \in from + 1 .. Len(text) : text[i] = Space}
  IN  SubSeq(text, IF gaps = {} \/ text[from] = Space THEN from ELSE Least(gaps) + 1, Len(text))

\* What comes before the first special character, if anything does.
LeadingRun(s) ==
  LET special == {i \in DOMAIN s : s[i] \in Special}
  IN  IF special = {} THEN <<>> ELSE Trimmed(SubSeq(s, 1, Least(special) - 1))

WithLeadingRuns(tried) ==
  [k \in 1 .. 2 * Len(tried) |-> IF k % 2 = 1 THEN tried[(k + 1) \div 2] ELSE LeadingRun(tried[k \div 2])]

OfLength(tried, from, to) == SelectSeq(tried, LAMBDA s : Len(s) \in from .. to)

\* A short anchor is tried as it is.
OrShortAnchor(candidates, text) ==
  IF candidates # <<>> THEN candidates ELSE OfLength(<<text, LeadingRun(text)>>, 1, CandidateMax)

\* searchCandidates: the text if it is one line, its first line and sentence, shorter
\* heads, each also without what follows a special character.  A second trial of the
\* same candidate, or of its curly quotes, changes nothing.
SearchCandidates(needle) ==
  LET text  == Needle(needle)
      heads == LengthsBelow(HeadLengths, text)
      tried == (IF Break \in {needle[i] : i \in DOMAIN needle} THEN <<>> ELSE <<text>>)
                 \o <<Needle(FirstLine(needle)), Trimmed(FirstSentence(text))>>
                 \o [k \in DOMAIN heads |-> HeadOf(text, heads[k])]
                 \o [k \in DOMAIN HeadWords |-> FirstWords(text, HeadWords[k])]
  IN  OrShortAnchor(OfLength(WithLeadingRuns(tried), CandidateMin, CandidateMax), text)

\* tailCandidates: the last sentence, shorter and shorter tails, the last words.
TailCandidates(needle) ==
  LET text  == Needle(needle)
      tails == LengthsBelow(TailLengths, text)
      tried == <<Trimmed(LastSentence(text))>>
                 \o [k \in DOMAIN tails |-> Trimmed(TailOf(text, tails[k]))]
                 \o [k \in DOMAIN TailWords |-> LastWords(text, TailWords[k])]
  IN  OfLength(tried, TailMin, CandidateMax)

\* expandTo covers what lies between its two points, in either order.
Span(raw, head, tail) ==
  LET from == Least({head.from, tail.to + 1})
      to   == Greatest({head.from - 1, tail.to})
  IN  [from |-> from, to |-> to, live |-> SubSeq(raw, from, to)]

\* findClauseRange: the head alone when the text is short, when no tail is found
\* and when head and tail lie far apart.
UnlessTooLong(span, needle, head) ==
  IF span.to - span.from + 1 > 3 * Len(needle) THEN head ELSE <<span>>

HeadToTail(raw, needle, head, tail) ==
  IF head = <<>> \/ Len(needle) < LongNeedle \/ tail = <<>> THEN head
  ELSE UnlessTooLong(Span(raw, head[1], tail[1]), needle, head)

FindClauseRange(raw, seen, needle) ==
  HeadToTail(raw, needle, FirstOf(raw, seen, SearchCandidates(needle)),
             FirstOf(raw, seen, TailCandidates(needle)))

FindFromAnchors(raw, seen, anchors) ==
  FirstFound([k \in DOMAIN anchors |-> FindClauseRange(raw, seen, anchors[k])])

\* Navigation also shows what survives only struck: it never writes.
FindForNavigation(raw, seen, anchors) ==
  LET live == FindFromAnchors(raw, seen, anchors)
  IN  IF live # <<>> \/ ~seen.hasView THEN live
      ELSE FindFromAnchors(raw, [seen EXCEPT !.hasView = FALSE], anchors)

\* MATCH_COMPLETENESS_THRESHOLD: a shorter match would take the whole new text.
CoversEnough(match, target) ==
  100 * Len(Needle(match.live)) >= 85 * Len(Needle(target))


\* acceptRedline's range, measured against the first anchor.
FindForReplace(raw, seen, anchors) ==
  SelectSeq(FindFromAnchors(raw, seen, anchors), LAMBDA m : CoversEnough(m, anchors[1]))

\* insertNear: a single line of the anchor, the nearest to the new text.
FindForInsert(raw, seen, anchor, position) ==
  FirstOf(raw, seen, SearchCandidates(IF position = "after" THEN LastLine(anchor)
                                      ELSE FirstLine(anchor)))

\* HARD_CAP.
Capped(matches) == SubSeq(matches, 1, Least({HardCap, Len(matches)}))

\* rawReplaceTargets: the first matches, less those that cover too little.
RawReplaceTargets(raw, target) ==
  SelectSeq(Capped(LiteralOrEscaped(raw, target, SearchAll(raw, target, FALSE, FALSE))),
            LAMBDA m : CoversEnough(m, target))

MatchesOfAll(raw, stretches, target) ==
  LET found[k \in 0 .. Len(stretches)] ==
        IF k = 0 THEN <<>>
        ELSE found[k - 1] \o NthMatch(StretchMatches(raw, stretches[k], FALSE), stretches[k].nth, target)
  IN  found[Len(stretches)]

\* liveReplaceTargets: every live occurrence, or none.
AllOrNone(matches, n) == IF Len(matches) < n THEN <<>> ELSE Capped(matches)

LiveReplaceTargets(raw, seen, target) ==
  AllOrNone(MatchesOfAll(raw, StretchesForEvery(seen.raw, seen.current, target), target),
            Count(seen.current, target))

FindForReplaceAll(raw, seen, target) ==
  IF seen.hasView THEN LiveReplaceTargets(raw, seen, target) ELSE RawReplaceTargets(raw, target)

Reading(raw, current) == [raw |-> raw, current |-> current, hasView |-> HasView(raw, current)]

=============================================================================
