-------------------------- MODULE MCDocumentMemory --------------------------
(* Two attorneys; a landlord and a tenant with a name to fill in, under the same
   label. *)
EXTENDS DocumentMemory

MCSessions == {"s1", "s2"}
MCOwner == [s1 |-> "ann", s2 |-> "bob"]

MCFields == {"landlord", "tenant"}
MCQuotes == {"Landlord: [Name]", "[Name]", "Tenant: [Name]", "Landlord: [Name] / Tenant: [Name]"}
MCBundles == {"Landlord: [Name] / Tenant: [Name]"}
MCLabels == {"[Name]"}
MCWithin == [q \in MCQuotes |->
  CASE q = "[Name]" -> MCQuotes \ {q}
    [] q \in {"Landlord: [Name]", "Tenant: [Name]"} -> MCBundles
    [] OTHER -> {}]
MCShows == [q \in MCQuotes |->
  CASE q = "[Name]" -> MCFields
    [] q = "Landlord: [Name]" -> {"landlord"}
    [] q = "Tenant: [Name]" -> {"tenant"}
    [] OTHER -> MCFields]

Finding(rating, about, quotes) ==
  [section |-> "key findings", rating |-> rating, about |-> about, quotes |-> quotes]
Gate(quotes) == [section |-> "gate", rating |-> "red", about |-> {}, quotes |-> quotes]

MCReviews == [
  blanks |-> [table |-> TRUE, lines |-> {
    Finding("red", {"landlord"}, {"Landlord: [Name]"}),
    Finding("missing context", {"tenant"}, {"Tenant: [Name]"}),
    Finding("yellow", {"tenant"}, {"[Name]"}),
    Gate({"Landlord: [Name] / Tenant: [Name]"}),
    [section |-> "redlines", rating |-> "red", about |-> {"landlord"}, quotes |-> {"Landlord: [Name]"}]}],
  bundled |-> [table |-> TRUE, lines |-> {
    Finding("red", {"landlord"}, {"Landlord: [Name]"}),
    Finding("red", MCFields, {"Landlord: [Name] / Tenant: [Name]"}),
    Gate({"Landlord: [Name]"})}],
  beside |-> [table |-> TRUE, lines |-> {
    Finding("red", MCFields, {"Landlord: [Name]", "[Name]"}),
    Finding("yellow", {"tenant"}, {"Tenant: [Name]"}),
    Gate({"Landlord: [Name]"})}]]

MCQuestions == [
  ask |-> [context |-> FALSE, store |-> FALSE],
  bear |-> [context |-> TRUE, store |-> FALSE]]

Signed == P!Cell("Signed by", P!Blank)
Dots == P!Cell("", "....")
SignatureBlock ==   \* two columns, three fields; the title has no value
  P!Edit("replace",
    <<<<Dots, Signed>>, <<P!Cell("Title", P!Blank)>>, <<P!Cell("Party", "Acme")>>>>,
    <<<<Dots, P!Cell("Signed by", "Jane")>>, <<P!Cell("Title", "")>>, <<P!Cell("Party", "Bolt")>>>>)
Twice == <<SignatureBlock, P!Edit("delete", <<<<P!Cell("", "clause")>>>>, <<>>), SignatureBlock>>
Fill == P!Edit("replace", <<<<Signed>>>>, <<<<P!Cell("Signed by", "Jane")>>>>)
Other == P!Edit("rename", <<>>, <<>>)

Reply(blocks, prose, head, promise, prefs, claims) ==
  [blocks |-> blocks, prose |-> prose, head |-> head, promise |-> promise, prefs |-> prefs,
   claims |-> claims]
MCReplies == [
  promises |-> Reply(<<>>, TRUE, "none", "prose", FALSE, TRUE),
  signs |-> Reply(<<<<P!Value(Twice)>>>>, TRUE, "cut", "none", FALSE, FALSE),
  garbles |-> Reply(<<<<P!Value(<<Fill, Other>>), P!Piece("broken"), P!Value(<<SignatureBlock>>)>>>>,
                    FALSE, "whole", "block", TRUE, FALSE)]
MCRecovered == {<<>>, <<Fill>>}
=============================================================================
