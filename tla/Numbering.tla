------------------------------ MODULE Numbering ------------------------------
(***************************************************************************)
(* The numbers Word shows and its files do not hold (ingest/numbering.py): *)
(* NumberingResolver.  Pure functions of the paragraphs read so far.       *)
(*                                                                         *)
(* Numbered paragraphs name a list and a level.  A level's definition is   *)
(* [numFmt, lvlText, start]; lvlText is a sequence of pieces: k > 0 is the *)
(* placeholder %k, 0 the text between.  In a label a counter is in the     *)
(* place of %k, and -k is a placeholder that stayed as it is.              *)
(***************************************************************************)
EXTENDS Integers, Sequences, SequencesExt

CONSTANTS NumIds,     \* w:num elements that paragraphs refer to
          AbstractOf, \* num_to_abstract, for those that have one
          LevelsOf    \* abstract_levels: definitions by level

NoDefinition == [numFmt |-> "decimal", lvlText |-> <<>>, start |-> 1]
LevelDef(num, level) ==
  LET abstract == IF num \in DOMAIN AbstractOf THEN AbstractOf[num] ELSE "0"
  IN  IF abstract \in DOMAIN LevelsOf /\ level \in DOMAIN LevelsOf[abstract]
      THEN LevelsOf[abstract][level] ELSE NoDefinition

(* counters[num] and lastDecimal know the levels they have met. *)
Unread == [counters |-> [num \in NumIds |-> <<>>], lastDecimal |-> <<>>, label |-> <<>>]

(* At its first paragraph a list starts, but a decimal one goes on where the last one
   stopped on the outermost level. *)
CounterAt(resolver, num, level) ==
  LET counters == resolver.counters[num]
      def == LevelDef(num, level)
  IN  IF level \in DOMAIN counters THEN counters[level] + 1
      ELSE IF def.numFmt = "decimal" /\ level = 0 /\ level \in DOMAIN resolver.lastDecimal
           THEN resolver.lastDecimal[level] + 1
           ELSE def.start

With(f, x, y) == [z \in DOMAIN f \cup {x} |-> IF z = x THEN y ELSE f[z]]

(* resolve: count the paragraph, set the deeper levels back, fill in the pattern
   what has been counted. *)
Resolve(resolver, par) ==
  LET def == LevelDef(par.num, par.level)
      n == CounterAt(resolver, par.num, par.level)
      counted == With(resolver.counters[par.num], par.level, n)
      reset == [l \in DOMAIN counted |->
                  IF l > par.level THEN LevelDef(par.num, l).start - 1 ELSE counted[l]]
      Filled(piece) == CASE piece = 0 -> <<>>
                         [] piece - 1 \in DOMAIN reset \cap (0..par.level) -> <<reset[piece - 1]>>
                         [] OTHER -> <<-piece>>
  IN  [counters |-> [resolver.counters EXCEPT ![par.num] = reset],
       lastDecimal |-> IF def.numFmt = "decimal" THEN With(resolver.lastDecimal, par.level, n)
                       ELSE resolver.lastDecimal,
       label |-> FlattenSeq([i \in DOMAIN def.lvlText |-> Filled(def.lvlText[i])])]

(* The resolver after a sequence of numbered paragraphs; the others leave it alone. *)
After(pars) == FoldLeft(Resolve, Unread, pars)

=============================================================================
