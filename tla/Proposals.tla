----------------------------- MODULE Proposals -----------------------------
(***************************************************************************)
(* From the text of an answer to the edit cards of the chat: the fenced    *)
(* JSON blocks are read by the server (skills/legal_research/              *)
(* edit_parsing.py) and again by the pane (clients/word/src/               *)
(* parseEditBlocks.ts), and the pane makes the list it keeps applicable.   *)
(*                                                                         *)
(* A block is a sequence of pieces: a JSON value with its edits, text      *)
(* between values, a balanced but invalid piece, or one that is never      *)
(* closed.  The text of an edit is a sequence of lines, a line a sequence  *)
(* of cells (tabs separate them), a cell a label with a value.             *)
(***************************************************************************)
EXTENDS SequencesExt

Blank == "[__]"
ValidActions == {"replace", "replace_all", "insert", "delete"}
WritesAValue == {"replace", "replace_all"}

Cell(label, value) == [label |-> label, value |-> value]
Edit(action, target, new) == [action |-> action, target |-> target, new |-> new]
Value(edits) == [kind |-> "value", edits |-> edits]
Piece(kind) == [kind |-> kind, edits |-> <<>>]

-----------------------------------------------------------------------------
(* Reading a block. *)

Upto(block, kinds) ==
  LET stops == {i \in 1..Len(block) : block[i].kind \in kinds}
  IN  IF stops = {} THEN block ELSE SubSeq(block, 1, Min(stops) - 1)

(* The server's _iter_json_values stops at the first piece it cannot decode. *)
ServerValues(block) == Upto(block, {"text", "broken", "open"})

(* The pane's iterJsonValues goes on behind text and invalid pieces; an
   unclosed one swallows the rest. *)
PaneValues(block) ==
  SelectSeq(Upto(block, {"open"}), LAMBDA p : p.kind = "value")

ValidEdits(values) ==
  SelectSeq(FlattenSeq([i \in 1..Len(values) |-> values[i].edits]),
            LAMBDA e : e.action \in ValidActions)

-----------------------------------------------------------------------------
(* Making a list of edits applicable. *)

IsFieldLine(line) == \E i \in 1..Len(line) : line[i].label # "" \/ line[i].value = Blank

IsLabeledBlank(line) ==
  /\ \E i \in 1..Len(line) : line[i].value = Blank
  /\ line # <<Cell("", Blank)>>

(* Of a line of several cells, the only one that changes. *)
ReduceTabSegment(t, n) ==
  LET differing == {i \in 1..Len(t) : i <= Len(n) /\ t[i] # n[i]}
  IN  IF Len(t) > 1 /\ Len(t) = Len(n) /\ \E i \in differing : differing = {i}
      THEN LET i == CHOOSE i \in differing : TRUE IN <<<<t[i]>>, <<n[i]>>>>
      ELSE <<t, n>>

(* A block of fields becomes one edit for each line that changes. *)
SplitMultilineFieldEdits(e) ==
  LET n == Len(e.target)
      changed == SelectSeq([i \in 1..n |-> i], LAMBDA i : e.target[i] # e.new[i])
      diffs == [k \in 1..Len(changed) |-> ReduceTabSegment(e.target[changed[k]], e.new[changed[k]])]
  IN  IF \/ e.action # "replace" \/ n < 2 \/ Len(e.new) # n
         \/ Len(changed) < 2
         \/ \E k \in 1..Len(diffs) : ~ IsFieldLine(diffs[k][1])
      THEN <<e>>
      ELSE [k \in 1..Len(diffs) |->
              Edit(IF IsLabeledBlank(diffs[k][1]) THEN "replace_all" ELSE "replace",
                   <<diffs[k][1]>>, <<diffs[k][2]>>)]

SameFill(e, f) == e.target = f.target /\ e.new = f.new

(* One card for every fill; a repeated one fills every occurrence. *)
CollapseDuplicateFills(es) ==
  LET firsts == SelectSeq([i \in 1..Len(es) |-> i],
                          LAMBDA i : \A j \in 1..(i - 1) : ~ SameFill(es[j], es[i]))
      Repeated(i) == \E j \in 1..Len(es) : j # i /\ SameFill(es[j], es[i])
  IN  [k \in 1..Len(firsts) |->
         LET e == es[firsts[k]]
         IN  IF Repeated(firsts[k]) /\ e.action \in WritesAValue
             THEN [e EXCEPT !.action = "replace_all"] ELSE e]

Words(text) ==
  LET cells == FlattenSeq(text)
  IN  SelectSeq(FlattenSeq([i \in 1..Len(cells) |-> <<cells[i].label, cells[i].value>>]),
                LAMBDA w : w # "")

IsNoOpEdit(e) == e.action \in WritesAValue /\ e.target = e.new

(* Mutant: whatever takes the blank away erases it. *)
ErasesBlankWhenFilled(e) ==
  /\ e.action \in WritesAValue
  /\ Contains(Words(e.target), Blank) /\ ~ Contains(Words(e.new), Blank)

(* A blank goes and nothing comes in its place. *)
ErasesBlank(e) ==
  /\ e.action \in WritesAValue
  /\ Contains(Words(e.target), Blank)
  /\ Words(e.new) = SelectSeq(Words(e.target), LAMBDA w : w # Blank)

(* Mutant: edits are judged before they are split and folded. *)
NormalizeFilteringFirst(es) ==
  LET kept == SelectSeq(es, LAMBDA e : ~ IsNoOpEdit(e) /\ ~ ErasesBlank(e))
  IN  CollapseDuplicateFills(FlattenSeq([i \in 1..Len(kept) |-> SplitMultilineFieldEdits(kept[i])]))

NormalizeProposals(es) ==
  SelectSeq(CollapseDuplicateFills(
              FlattenSeq([i \in 1..Len(es) |-> SplitMultilineFieldEdits(es[i])])),
            LAMBDA e : ~ IsNoOpEdit(e) /\ ~ ErasesBlank(e))

-----------------------------------------------------------------------------
(* ChatTab: the server's list unless it is empty; normalized either way. *)
Chosen(backendEdits, blocks) ==
  NormalizeProposals(IF backendEdits # <<>> THEN backendEdits ELSE NormalizeProposals(blocks))
=============================================================================
