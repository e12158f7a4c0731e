------------------------- MODULE ContextMeterProofs -------------------------
(***************************************************************************)
(* What holds of ContextMeter for every size, every document and every     *)
(* bound: the meter is busy exactly while a run is, no run starts unasked  *)
(* beside another one or after a bad end, every end is shown, and the      *)
(* gauge of a conversation measured whole is the store's history.          *)
(***************************************************************************)
EXTENDS ContextMeter, TLAPS

-----------------------------------------------------------------------------
(* The invariant. *)

\* The breakdowns that are somewhere, and what each of them still has to say
\* of the store: its history without the pairs remembered since.
Measuring == turn.pc \in {"measured", "answered"} /\ turn.breakdown # NoBreakdown
Since(b, s) == AllOf(s) - Pair * (s.remembered - b.remembered)

\* The document's adjustment of a breakdown, without the outcome's.
Live(m, p) ==
  IF p.live # -1 /\ ~p.cut THEN WithLiveDocument(m.breakdown, p.live) ELSE m.breakdown

Reclaiming(m) == OutcomeIsForThisTurn(m) /\ m.outcome.reclaimed > 0

\* What the segments come to grows with each of them.
StoreFits ==
  /\ Len(store.totals) \in Nat \ {0}
  /\ \A i \in 1 .. Len(store.totals) : store.totals[i] <= Segmented(store)

\* A run has a measurement, and while it generates the store has its pairs.
RunFits ==
  /\ run.pc # "idle" => run.for # NoBreakdown
  /\ run.pc = "generating" => run.pairs <= store.pairs

\* Breakdowns are told apart by their ids: the turn on its way has the newest.
Issued == MaxTurns - left.turns
IdsTellApart ==
  /\ {meter.breakdown.id, run.for.id, meter.outcome.for} \subseteq 0 .. Issued
  /\ turn.pc # "idle" => {meter.breakdown.id, run.for.id, meter.outcome.for} \subseteq 0 .. Issued - 1
  /\ turn.pc = "sent" => turn.breakdown = NoBreakdown
  /\ Measuring => /\ turn.breakdown.id \in 1 .. Issued
                  /\ meter.breakdown.id < turn.breakdown.id
                  /\ run.for.id < turn.breakdown.id
                  /\ meter.outcome.for < turn.breakdown.id
  /\ run.pc # "idle" /\ meter.breakdown.id = run.for.id => meter.breakdown = run.for
  /\ meter.outcome.reclaimed > 0 => meter.outcome.for > 0

\* The effects have run: what could fire has been seen, and while a run is on its
\* way no older outcome hides a measurement that could.
EffectsHaveRun ==
  /\ ~Sees(meter, pane)
  /\ run.pc # "idle" => ~Reclaiming(meter)
  /\ run.pc # "idle" /\ meter.breakdown # NoBreakdown /\ Live(meter, pane).auto =>
       meter.firedFor = meter.breakdown.id

SpoiledIsDisarmed == spoiled => meter.disarmed

\* A breakdown of the whole history that is as new as the store is exact, and one older
\* than the last condensation by one is off by what that one reclaimed.
OffBy(b, s, reclaimed) ==
  b.whole /\ b.condensed = Condensations(s) - 1 => b.hist - reclaimed = Since(b, s)

Accounts(b, s, r) ==
  /\ b.condensed <= Condensations(s)
  /\ b.whole /\ b.condensed = Condensations(s) => b.hist = Since(b, s)
  /\ r.pc = "condensed" => OffBy(b, s, r.result)

GaugeAccounts ==
  /\ meter.breakdown # NoBreakdown => Accounts(meter.breakdown, store, run)
  /\ Measuring => Accounts(turn.breakdown, store, run)
  /\ run.pc # "idle" => Accounts(run.for, store, run)
  /\ run.pc = "condensed" => run.for.condensed < Condensations(store)
  /\ meter.breakdown # NoBreakdown /\ Reclaiming(meter) =>
       /\ meter.breakdown.condensed < Condensations(store)
       /\ OffBy(meter.breakdown, store, meter.outcome.reclaimed)

IInv ==
  /\ TypeOK /\ StoreFits /\ RunFits /\ IdsTellApart /\ BusyIsTheRun /\ SpoiledIsDisarmed
  /\ EffectsHaveRun /\ GaugeAccounts

-----------------------------------------------------------------------------
(* What the meter shows. *)

\* Greatest(a, b) is the greater one (Math.max).
LEMMA GreatestOfTwo ==
  ASSUME NEW a \in Int, NEW b \in Int
  PROVE  /\ Greatest(a, b) \in {a, b}
         /\ Greatest(a, b) >= a /\ Greatest(a, b) >= b
         /\ a \in Nat \/ b \in Nat => Greatest(a, b) \in Nat
  BY DEF Greatest

\* A measurement with reclaimed history is one, of the same turn, and not automatic.
LEMMA ReclaimedIsAMeasurement ==
  ASSUME NEW b \in Measurements, NEW reclaimed \in Nat
  PROVE  LET w == WithReclaimedHistory(b, reclaimed)
         IN  /\ w \in Measurements /\ w.id = b.id /\ w.auto = FALSE
             /\ w.hist = Greatest(0, b.hist - reclaimed)
<1> DEFINE h == Greatest(0, b.hist - reclaimed)
           w == WithReclaimedHistory(b, reclaimed)
<1>1. h \in Nat
  BY DEF Greatest, Measurements
<1>2. w = [b EXCEPT !.hist = h, !.pairs = 0, !.can = FALSE, !.auto = FALSE]
  BY DEF WithReclaimedHistory
<1> HIDE DEF h, w
<1>3. w \in Measurements /\ w.id = b.id /\ w.auto = FALSE /\ w.hist = h
  BY <1>1, <1>2 DEF Measurements
<1> QED
  BY <1>3 DEF h, w

\* Neither adjustment changes which measurement it is, and the document's leaves
\* the history alone (withLiveDocument, withReclaimedHistory).
LEMMA LiveIsAMeasurement ==
  ASSUME NEW m \in Meters, NEW p \in Panes, m.breakdown # NoBreakdown
  PROVE  /\ m.breakdown \in Measurements
         /\ Live(m, p) \in Measurements
         /\ Live(m, p).id = m.breakdown.id
         /\ Live(m, p).hist = m.breakdown.hist
<1>1. m.breakdown \in Measurements
  BY DEF Meters, Breakdowns
<1>2. p.live # -1 => p.live \in Nat
  BY SizesAssumption DEF Panes
<1>3. ASSUME p.live # -1
      PROVE  LET w == WithLiveDocument(m.breakdown, p.live)
             IN  w \in Measurements /\ w.id = m.breakdown.id /\ w.hist = m.breakdown.hist
  BY <1>1, <1>2, <1>3 DEF WithLiveDocument, Measurements
<1> QED
  BY <1>1, <1>3 DEF Live

\* What the meter shows: the live measurement, or the one with reclaimed history.
LEMMA ShownIsAMeasurement ==
  ASSUME NEW m \in Meters, NEW p \in Panes, m.breakdown # NoBreakdown
  PROVE  /\ Shown(m, p) \in Measurements
         /\ Shown(m, p).id = m.breakdown.id
         /\ ~Reclaiming(m) => Shown(m, p) = Live(m, p)
         /\ Reclaiming(m) => /\ ~Shown(m, p).auto
                             /\ Shown(m, p).hist = Greatest(0, m.breakdown.hist - m.outcome.reclaimed)
<1>1. Live(m, p) \in Measurements /\ Live(m, p).id = m.breakdown.id
        /\ Live(m, p).hist = m.breakdown.hist
  BY LiveIsAMeasurement
<1>2. m.outcome.reclaimed \in Nat
  BY DEF Meters
<1>3. Shown(m, p) = IF Reclaiming(m) THEN WithReclaimedHistory(Live(m, p), m.outcome.reclaimed)
                    ELSE Live(m, p)
  BY DEF Shown, Live, Reclaiming
<1>4. LET w == WithReclaimedHistory(Live(m, p), m.outcome.reclaimed)
      IN  /\ w \in Measurements /\ w.id = Live(m, p).id /\ w.auto = FALSE
          /\ w.hist = Greatest(0, Live(m, p).hist - m.outcome.reclaimed)
  BY <1>1, <1>2, ReclaimedIsAMeasurement
<1>5. CASE Reclaiming(m)
  BY <1>1, <1>3, <1>4, <1>5
<1>6. CASE ~Reclaiming(m)
  BY <1>1, <1>3, <1>6
<1> QED
  BY <1>5, <1>6

\* What is shown depends on the measurement and the outcome only.
LEMMA ShownDepends ==
  ASSUME NEW m, NEW n, NEW p, m.breakdown = n.breakdown, m.outcome = n.outcome
  PROVE  Shown(m, p) = Shown(n, p) /\ Live(m, p) = Live(n, p)
           /\ (Reclaiming(m) <=> Reclaiming(n))
  BY DEF Shown, Live, Reclaiming, OutcomeIsForThisTurn

\* The size a condensation aims at is a number.
LEMMA TargetIsNatural ==
  ASSUME NEW m \in Meters, NEW p \in Panes, m.breakdown # NoBreakdown
  PROVE  ReclaimTarget(Shown(m, p)) \in Nat
<1>1. Shown(m, p) \in Measurements
  BY ShownIsAMeasurement
<1>2. Total(Shown(m, p)) - Warn \in Int
  BY <1>1, SizesAssumption DEF Total, Measurements
<1> QED
  BY <1>2, GreatestOfTwo DEF ReclaimTarget

\* A run that starts has the measurement on screen (runCompaction).
LEMMA StartsARun ==
  ASSUME NEW m \in Meters, NEW p \in Panes, NEW automatic \in BOOLEAN, m.breakdown # NoBreakdown
  PROVE  LET r == Starts(m, p, automatic)
         IN  /\ r \in Runs /\ r.pc = "sent" /\ r.automatic = automatic
             /\ r.for = m.breakdown /\ r.result = 0
<1>1. m.breakdown \in Breakdowns
  BY DEF Meters
<1> QED
  BY <1>1, TargetIsNatural DEF Starts, NoRun, Runs

-----------------------------------------------------------------------------
(* A render and its effects. *)

\* A sequence stays one when it grows.
LEMMA LongerSequence ==
  ASSUME NEW S, NEW s \in Seq(S), NEW e \in S
  PROVE  Append(s, e) \in Seq(S)
  OBVIOUS

\* After the effects nothing is left to fire, and a run was started only by what
\* Fires says (the auto-fire effect).
LEMMA EffectsLemma ==
  ASSUME NEW m \in Meters, NEW p \in Panes, NEW r \in Runs, autos \in Fired,
         AfterEffects(m, p, r)
  PROVE  /\ pane' = p /\ meter' \in Meters /\ run' \in Runs /\ autos' \in Fired
         /\ meter'.breakdown = m.breakdown /\ meter'.outcome = m.outcome
         /\ meter'.disarmed = m.disarmed
         /\ ~Sees(meter', pane')
         /\ Fires(m, p) => /\ meter'.busy /\ run' = Starts(m, p, TRUE)
                           /\ meter'.firedFor = m.breakdown.id
         /\ ~Fires(m, p) => /\ meter'.busy = m.busy /\ meter'.failure = m.failure
                            /\ run' = r /\ autos' = autos
                            /\ meter'.firedFor = IF Sees(m, p) THEN m.breakdown.id ELSE m.firedFor
<1>1. pane' = p
  BY DEF AfterEffects
<1>2. Sees(m, p) => /\ m.breakdown # NoBreakdown /\ m.breakdown \in Measurements
                    /\ m.breakdown.id \in 1 .. MaxTurns
  BY LiveIsAMeasurement DEF Sees, Measurements
<1>3. CASE Fires(m, p)
  <2>1. /\ meter' = [m EXCEPT !.firedFor = m.breakdown.id, !.busy = TRUE, !.failure = NoFailure]
        /\ run' = Starts(m, p, TRUE) /\ autos' = Append(autos, m.breakdown.id)
    BY <1>3 DEF AfterEffects
  <2>2. Sees(m, p)
    BY <1>3 DEF Fires
  <2>3. /\ meter' \in Meters /\ meter'.breakdown = m.breakdown /\ meter'.outcome = m.outcome
        /\ meter'.disarmed = m.disarmed /\ meter'.busy /\ meter'.firedFor = m.breakdown.id
    <3>1. NoFailure \in [shown : 0 .. MaxTurns, automatic : BOOLEAN] /\ 0 .. MaxTurns \subseteq Int
      BY SizesAssumption DEF NoFailure
    <3>2. m.breakdown.id \in 0 .. MaxTurns
      BY <1>2, <2>2, SizesAssumption
    <3>3. meter' \in Meters
      BY <2>1, <3>1, <3>2 DEF Meters
    <3>4. /\ meter'.breakdown = m.breakdown /\ meter'.outcome = m.outcome
          /\ meter'.disarmed = m.disarmed /\ meter'.busy = TRUE
          /\ meter'.firedFor = m.breakdown.id
      <4>1. DOMAIN m = {"breakdown", "busy", "disarmed", "firedFor", "outcome", "failure"}
        BY DEF Meters
      <4>2. meter'.breakdown = m.breakdown /\ meter'.outcome = m.outcome
        BY <2>1, <4>1
      <4>3. meter'.busy = TRUE
        BY <2>1, <4>1
      <4>4. meter'.disarmed = m.disarmed
        BY <2>1, <4>1
      <4>5. meter'.firedFor = m.breakdown.id
        BY <2>1, <4>1
      <4> QED
        BY <4>2, <4>3, <4>4, <4>5
    <3> QED
      BY <3>3, <3>4
  <2>4. run' \in Runs /\ autos' \in Fired
    <3>1. Starts(m, p, TRUE) \in Runs
      BY <1>2, <2>2, StartsARun
    <3>2. m.breakdown.id \in 1 .. MaxTurns
      BY <1>2, <2>2
    <3> QED
      BY <2>1, <3>1, <3>2, LongerSequence DEF Fired
  <2>5. ~Sees(meter', pane')
    BY <2>3 DEF Sees
  <2> QED
    BY <1>1, <1>3, <2>1, <2>3, <2>4, <2>5
<1>4. CASE ~Fires(m, p)
  <2>1. /\ meter' = IF Sees(m, p) THEN [m EXCEPT !.firedFor = m.breakdown.id] ELSE m
        /\ run' = r /\ autos' = autos
    BY <1>4 DEF AfterEffects
  <2>2. /\ meter' \in Meters /\ meter'.breakdown = m.breakdown /\ meter'.outcome = m.outcome
        /\ meter'.disarmed = m.disarmed /\ meter'.busy = m.busy /\ meter'.failure = m.failure
        /\ meter'.firedFor = IF Sees(m, p) THEN m.breakdown.id ELSE m.firedFor
    BY <1>2, <2>1 DEF Meters
  <2>3. ~Sees(meter', pane')
    BY <1>1, <2>2, ShownDepends DEF Sees
  <2> QED
    BY <1>1, <1>4, <2>1, <2>2, <2>3
<1> QED
  BY <1>3, <1>4

\* A render on which nothing is wrong leaves nothing wrong: busy is the run, and
\* no outcome hides a measurement that could fire.
LEMMA EffectsPreserve ==
  ASSUME NEW m \in Meters, NEW p \in Panes, NEW r \in Runs, autos \in Fired,
         AfterEffects(m, p, r),
         m.busy <=> r.pc # "idle",
         r.pc # "idle" => ~Reclaiming(m)
  PROVE  BusyIsTheRun' /\ EffectsHaveRun'
<1>1. /\ pane' = p /\ meter' \in Meters /\ run' \in Runs
      /\ meter'.breakdown = m.breakdown /\ meter'.outcome = m.outcome
      /\ ~Sees(meter', pane')
      /\ Fires(m, p) => /\ meter'.busy /\ run' = Starts(m, p, TRUE)
                        /\ meter'.firedFor = m.breakdown.id
      /\ ~Fires(m, p) => /\ meter'.busy = m.busy /\ run' = r
                         /\ meter'.firedFor = IF Sees(m, p) THEN m.breakdown.id ELSE m.firedFor
  BY EffectsLemma
<1>2. /\ Live(meter', pane') = Live(m, p) /\ Shown(meter', pane') = Shown(m, p)
      /\ Reclaiming(meter') <=> Reclaiming(m)
  BY <1>1, ShownDepends
<1>3. CASE Fires(m, p)
  <2>1. m.breakdown # NoBreakdown /\ Shown(m, p).auto
    BY <1>3 DEF Fires, Sees
  <2>2. run'.pc = "sent"
    BY <1>1, <1>3, <2>1, StartsARun
  <2>3. ~Reclaiming(meter')
    BY <1>2, <2>1, ShownIsAMeasurement
  <2> QED
    BY <1>1, <1>3, <2>2, <2>3 DEF BusyIsTheRun, EffectsHaveRun
<1>4. CASE ~Fires(m, p)
  <2>1. BusyIsTheRun'
    BY <1>1, <1>4 DEF BusyIsTheRun
  <2>2. run'.pc # "idle" => ~Reclaiming(meter')
    BY <1>1, <1>2, <1>4
  <2>3. ASSUME run'.pc # "idle", meter'.breakdown # NoBreakdown, Live(meter', pane').auto
        PROVE  meter'.firedFor = meter'.breakdown.id
    <3>1. Shown(meter', pane') = Live(meter', pane')
      BY <1>1, <2>2, <2>3, ShownIsAMeasurement
    <3> QED
      BY <1>1, <2>3, <3>1 DEF Sees
  <2> QED
    BY <1>1, <2>1, <2>2, <2>3 DEF EffectsHaveRun
<1> QED
  BY <1>3, <1>4

\* The step that ends a run fires none: what could have fired was seen while it
\* was on its way ("skipped, not deferred into a late fire").
LEMMA NothingFiresAtAnEnd ==
  ASSUME IInv, run.pc # "idle", NEW m \in Meters,
         m.breakdown = meter.breakdown, m.firedFor = meter.firedFor
  PROVE  ~Sees(m, pane)
<1> SUFFICES ASSUME Sees(m, pane)
             PROVE  FALSE
  OBVIOUS
<1>1. m.breakdown # NoBreakdown /\ Shown(m, pane).auto /\ m.firedFor # m.breakdown.id
  BY DEF Sees
<1>2. pane \in Panes
  BY DEF IInv, TypeOK
<1>3. Shown(m, pane) = Live(m, pane)
  BY <1>1, <1>2, ShownIsAMeasurement
<1>4. Live(m, pane) = Live(meter, pane)
  BY DEF Live
<1> QED
  BY <1>1, <1>3, <1>4 DEF IInv, EffectsHaveRun

-----------------------------------------------------------------------------
(* Types. *)

\* The product of two numbers is one.
LEMMA Product ==
  ASSUME NEW a \in Nat, NEW b \in Nat
  PROVE  a * b \in Nat
  OBVIOUS

\* The store's history has a size, all of it and what a turn replays of it, and no
\* more pairs than are there can be condensed.
LEMMA HistoryIsNatural ==
  ASSUME TypeOK, StoreFits
  PROVE  /\ Segmented(store) \in Nat /\ Condensations(store) \in Nat
         /\ AllOf(store) \in Nat /\ Replayed(store) \in Nat
         /\ Selectable(store) \in Nat /\ Selectable(store) <= store.pairs
<1>1. /\ store.pairs \in Nat /\ store.totals \in Seq(Nat) /\ Pair \in Nat
      /\ MaxPairs \in Nat /\ MaxSegments \in Nat /\ Batch \in Nat
  BY SizesAssumption DEF TypeOK, Stores
<1>2. Segmented(store) \in Nat /\ Condensations(store) \in Nat
  BY <1>1 DEF StoreFits, Segmented, Condensations
<1>3. AllOf(store) \in Nat
  <2>1. Pair * store.pairs \in Nat
    BY <1>1, Product
  <2> QED
    BY <1>2, <2>1 DEF AllOf
<1>4. Replayed(store) \in Nat
  <2> DEFINE i == Greatest(1, Len(store.totals) - MaxSegments)
             n == Lesser(store.pairs, MaxPairs)
  <2>1. i \in 1 .. Len(store.totals) /\ n \in Nat
    BY <1>1 DEF StoreFits, Greatest, Lesser
  <2>2. Pair * n \in Nat
    BY <1>1, <2>1, Product
  <2>3. store.totals[i] \in Nat /\ store.totals[i] <= Segmented(store)
    BY <1>1, <2>1 DEF StoreFits
  <2>4. Replayed(store) = Pair * n + Segmented(store) - store.totals[i]
    BY DEF Replayed
  <2> HIDE DEF i, n
  <2> QED
    BY <1>2, <2>2, <2>3, <2>4
<1>5. Selectable(store) \in Nat /\ Selectable(store) <= store.pairs
  BY <1>1 DEF Selectable, Greatest, Lesser
<1> QED
  BY <1>2, <1>3, <1>4, <1>5

\* Whichever read fails, a turn's history has a size.
LEMMA HistoriesAreNatural ==
  ASSUME TypeOK, StoreFits, NEW failing
  PROVE  HistoriesOf(store, failing) \subseteq Nat /\ Compressible(store, failing) \in Nat
<1>1. /\ store.pairs \in Nat /\ store.remembered \in Nat /\ Pair \in Nat /\ MaxPairs \in Nat
      /\ ChatHistories \subseteq Nat /\ Replayed(store) \in Nat
  BY HistoryIsNatural, SizesAssumption DEF TypeOK, Stores
<1>2. Lesser(store.remembered, MaxPairs) \in Nat
  BY <1>1 DEF Lesser
<1>3. Pair * Lesser(store.remembered, MaxPairs) \in Nat
  BY <1>1, <1>2, Product
<1>4. HistoriesOf(store, failing) \subseteq Nat
  BY <1>1, <1>3 DEF HistoriesOf
<1>5. Compressible(store, failing) \in Nat
  BY <1>1 DEF Compressible, Greatest
<1> QED
  BY <1>4, <1>5

\* compressible_history and build_context_breakdown return a breakdown.
LEMMA MeasuredIsAMeasurement ==
  ASSUME TypeOK, StoreFits, NEW id \in 1 .. MaxTurns, NEW d \in Documents, NEW failing,
         NEW hist \in HistoriesOf(store, failing)
  PROVE  LET b == Measured(id, store, d, hist, failing)
         IN  /\ b \in Measurements /\ b.id = id /\ b.hist = hist
             /\ b.whole = (hist = AllOf(store))
             /\ b.condensed = Condensations(store) /\ b.remembered = store.remembered
<1>1. hist \in Nat /\ Compressible(store, failing) \in Nat
  BY HistoriesAreNatural
<1>2. d \in Nat /\ Budget \in Nat
  BY SizesAssumption
<1> DEFINE kept  == Kept(d, hist)
           pairs == Compressible(store, failing)
           can   == pairs > 0 /\ kept + hist >= Warn
           auto  == can /\ Pair * pairs >= AutoMin
           cut   == kept < d
           whole == hist = AllOf(store)
<1>3. kept \in Nat
  BY <1>1, <1>2 DEF Kept, Greatest
<1>4. can \in BOOLEAN /\ auto \in BOOLEAN /\ cut \in BOOLEAN /\ whole \in BOOLEAN
  OBVIOUS
<1>5. Condensations(store) \in Nat /\ store.remembered \in Nat
  BY HistoryIsNatural DEF TypeOK, Stores
<1>6. Measured(id, store, d, hist, failing) =
        [id |-> id, doc |-> kept, hist |-> hist, cut |-> cut, pairs |-> pairs, can |-> can,
         auto |-> auto, condensed |-> Condensations(store), remembered |-> store.remembered,
         whole |-> whole]
  BY DEF Measured
<1>7. pairs \in Nat
  BY <1>1
<1> HIDE DEF kept, pairs, can, auto, cut, whole
<1>8. LET b == Measured(id, store, d, hist, failing)
      IN  /\ b \in Measurements /\ b.id = id /\ b.hist = hist /\ b.whole = whole
          /\ b.condensed = Condensations(store) /\ b.remembered = store.remembered
  BY <1>1, <1>3, <1>4, <1>5, <1>6, <1>7 DEF Measurements
<1> QED
  BY <1>8 DEF whole

\* A turn on its way has been counted.
LEMMA TurnsAreCounted ==
  ASSUME IInv, turn.pc # "idle"
  PROVE  Issued \in 1 .. MaxTurns
<1>1. Issued \in 0 .. MaxTurns
  BY SizesAssumption DEF IInv, TypeOK, Lefts, Issued
<1>2. meter.breakdown.id \in 0 .. Issued - 1
  BY DEF IInv, IdsTellApart
<1> QED
  BY <1>1, <1>2, SizesAssumption

\* Nothing is a sequence.
LEMMA EmptySequence ==
  ASSUME NEW S
  PROVE  <<>> \in Seq(S)
  OBVIOUS

\* The initial state is typed.
LEMMA InitTypes == Init => TypeOK
<1> SUFFICES ASSUME Init
             PROVE  TypeOK
  OBVIOUS
<1>1. 0 \in Nat /\ 0 \in 0 .. MaxTurns /\ MaxTurns \in 0 .. MaxTurns
        /\ MaxRuns \in Nat /\ MaxTypings \in Nat /\ MaxFaults \in Nat
  BY SizesAssumption
<1>2. store \in Stores
  <2>1. <<0>> \in Seq(Nat)
    OBVIOUS
  <2> QED
    BY <2>1 DEF Init, Stores
<1>3. turn \in Turns /\ run \in Runs
  BY DEF Init, Turns, Runs, NoRun, Breakdowns
<1>4. pane \in Panes
  BY DEF Init, Panes
<1>5. meter \in Meters
  BY <1>1 DEF Init, Meters, Breakdowns, NoOutcome, NoFailure
<1>6. autos \in Fired /\ spoiled \in BOOLEAN
  BY EmptySequence DEF Init, Fired
<1>7. left \in Lefts
  BY <1>1 DEF Init, Lefts
<1> QED
  BY <1>2, <1>3, <1>4, <1>5, <1>6, <1>7 DEF TypeOK

-----------------------------------------------------------------------------
(* The renders: what the six actions that run the effects hand to them. *)

\* A render that keeps the run on its way: the document measured, an answer, with a measurement or without.
LEMMA RenderBesideARun ==
  ASSUME IInv, MeasuresDocument \/ AnswerArrives
  PROVE  \E m \in Meters, p \in Panes :
           /\ AfterEffects(m, p, run)
           /\ m.outcome = meter.outcome /\ m.busy = meter.busy
           /\ m.disarmed = meter.disarmed /\ m.firedFor = meter.firedFor
           /\ \/ m.breakdown = meter.breakdown /\ UNCHANGED <<turn, left>>
              \/ /\ turn.pc = "answered" /\ Measuring /\ turn' = NoTurn /\ UNCHANGED left
                 /\ m.breakdown = turn.breakdown
              \/ /\ turn.pc = "answered" /\ turn' = NoTurn /\ UNCHANGED left
                 /\ m.breakdown = NoBreakdown
           /\ UNCHANGED <<store, spoiled>>
<1>0. /\ TypeOK /\ meter \in Meters /\ pane \in Panes
      /\ DOMAIN meter = {"breakdown", "busy", "disarmed", "firedFor", "outcome", "failure"}
  BY DEF IInv, TypeOK, Meters
<1>1. CASE MeasuresDocument
  <2>1. [pane EXCEPT !.live = pane.doc] \in Panes
    BY <1>0 DEF Panes
  <2> QED
    BY <1>0, <1>1, <2>1 DEF MeasuresDocument
<1>2. CASE AnswerArrives
  <2>1. turn.breakdown \in Breakdowns /\ turn.pc = "answered"
    BY <1>0, <1>2 DEF AnswerArrives, Turns, NoTurn, TypeOK
  <2> DEFINE cut == turn.breakdown # NoBreakdown /\ turn.breakdown.cut
             m == [meter EXCEPT !.breakdown = turn.breakdown]
             p == [pane EXCEPT !.cut = cut]
  <2>2. m \in Meters /\ p \in Panes
    <3>1. cut \in BOOLEAN
      BY <2>1 DEF Breakdowns, Measurements
    <3> HIDE DEF cut
    <3> QED
      BY <1>0, <2>1, <3>1 DEF Meters, Panes
  <2>3. /\ m.breakdown = turn.breakdown /\ m.outcome = meter.outcome /\ m.busy = meter.busy
        /\ m.disarmed = meter.disarmed /\ m.firedFor = meter.firedFor
    BY <1>0
  <2>4. AfterEffects(m, p, run) /\ turn' = NoTurn /\ UNCHANGED <<store, spoiled, left>>
    BY <1>2 DEF AnswerArrives
  <2>5. Measuring \/ turn.breakdown = NoBreakdown
    BY <2>1 DEF Measuring
  <2> HIDE DEF m, p
  <2> QED
    BY <2>1, <2>2, <2>3, <2>4, <2>5
<1> QED
  BY <1>1, <1>2

\* A render that ends the run: the button is free, a bad end disarms, and the outcome
\* is of the measurement the run was for, or none (runCompaction).
LEMMA RenderAtAnEnd ==
  ASSUME IInv, Condensed \/ Declined \/ Failed
  PROVE  \E m \in Meters :
           /\ AfterEffects(m, pane, NoRun)
           /\ m.breakdown = meter.breakdown /\ m.firedFor = meter.firedFor /\ m.busy = FALSE
           /\ spoiled' => m.disarmed
           /\ spoiled' \in BOOLEAN
           /\ run.pc \in {"condensed", "nothing", "refused", "failed"}
           /\ run.pc = "failed" => /\ m.outcome = NoOutcome
                                   /\ m.failure.shown = meter.breakdown.id
           /\ run.pc # "failed" => /\ m.outcome.for = run.for.id
                                   /\ m.outcome.shown = meter.breakdown.id
                                   /\ m.outcome.reclaimed =
                                        IF run.pc = "condensed" THEN run.result ELSE 0
           /\ UNCHANGED <<store, turn, left>>
<1>0. /\ TypeOK /\ meter \in Meters /\ SpoiledIsDisarmed
      /\ DOMAIN meter = {"breakdown", "busy", "disarmed", "firedFor", "outcome", "failure"}
  BY DEF IInv, TypeOK, Meters
<1>1. /\ meter.breakdown.id \in 0 .. MaxTurns /\ run.for.id \in 0 .. MaxTurns
      /\ run.automatic \in BOOLEAN /\ meter.disarmed \in BOOLEAN /\ run.result \in Nat
  <2>1. \A b \in Breakdowns : b.id \in 0 .. MaxTurns
    BY SizesAssumption DEF Breakdowns, Measurements, NoBreakdown
  <2> QED
    BY <1>0, <2>1 DEF TypeOK, Meters, Runs
<1>2. CASE Condensed
  <2> DEFINE outcome == [for |-> run.for.id, shown |-> meter.breakdown.id, reclaimed |-> run.result]
             m == [meter EXCEPT !.busy = FALSE, !.disarmed = FALSE, !.outcome = outcome]
  <2>1. m \in Meters
    BY <1>0, <1>1 DEF Meters
  <2>2. /\ m.breakdown = meter.breakdown /\ m.firedFor = meter.firedFor /\ m.busy = FALSE
        /\ m.outcome = outcome
    BY <1>0
  <2>3. AfterEffects(m, pane, NoRun) /\ run.pc = "condensed" /\ spoiled' = FALSE
          /\ UNCHANGED <<store, turn, left>>
    BY <1>2 DEF Condensed
  <2>4. /\ outcome.for = run.for.id /\ outcome.shown = meter.breakdown.id
        /\ outcome.reclaimed = run.result
    OBVIOUS
  <2> HIDE DEF m, outcome
  <2> QED
    BY <2>1, <2>2, <2>3, <2>4
<1>3. CASE Declined
  <2> DEFINE outcome == [for |-> run.for.id, shown |-> meter.breakdown.id, reclaimed |-> 0]
             m == [meter EXCEPT !.busy = FALSE, !.disarmed = @ \/ run.automatic, !.outcome = outcome]
  <2>1. m \in Meters
    BY <1>0, <1>1 DEF Meters
  <2>2. /\ m.breakdown = meter.breakdown /\ m.firedFor = meter.firedFor /\ m.busy = FALSE
        /\ m.outcome = outcome
    BY <1>0
  <2>3. m.disarmed = (meter.disarmed \/ run.automatic)
    BY <1>0
  <2>4. AfterEffects(m, pane, NoRun) /\ run.pc \in {"nothing", "refused"}
          /\ spoiled' = (spoiled \/ run.automatic) /\ UNCHANGED <<store, turn, left>>
    BY <1>3 DEF Declined
  <2>5. /\ outcome.for = run.for.id /\ outcome.shown = meter.breakdown.id
        /\ outcome.reclaimed = 0
    OBVIOUS
  <2>6. (spoiled' => m.disarmed) /\ spoiled' \in BOOLEAN
    BY <1>0, <2>3, <2>4 DEF SpoiledIsDisarmed, TypeOK
  <2> HIDE DEF m, outcome
  <2> QED
    BY <2>1, <2>2, <2>4, <2>5, <2>6
<1>4. CASE Failed
  <2> DEFINE failure == [shown |-> meter.breakdown.id, automatic |-> run.automatic]
             m == [meter EXCEPT !.busy = FALSE, !.disarmed = @ \/ run.automatic,
                                !.outcome = NoOutcome, !.failure = failure]
  <2>0. NoOutcome \in [for : 0 .. MaxTurns, shown : 0 .. MaxTurns, reclaimed : Nat]
    BY SizesAssumption DEF NoOutcome
  <2>1. m \in Meters
    BY <1>0, <1>1, <2>0 DEF Meters
  <2>2. /\ m.breakdown = meter.breakdown /\ m.firedFor = meter.firedFor /\ m.busy = FALSE
        /\ m.outcome = NoOutcome /\ m.failure = failure
    BY <1>0
  <2>3. m.disarmed = (meter.disarmed \/ run.automatic)
    BY <1>0
  <2>4. AfterEffects(m, pane, NoRun) /\ run.pc = "failed"
          /\ spoiled' = (spoiled \/ run.automatic) /\ UNCHANGED <<store, turn, left>>
    BY <1>4 DEF Failed
  <2>5. failure.shown = meter.breakdown.id
    OBVIOUS
  <2>6. (spoiled' => m.disarmed) /\ spoiled' \in BOOLEAN
    BY <1>0, <2>3, <2>4 DEF SpoiledIsDisarmed, TypeOK
  <2> HIDE DEF m, failure
  <2> QED
    BY <2>1, <2>2, <2>4, <2>5, <2>6
<1> QED
  BY <1>2, <1>3, <1>4

\* Steps keep the types.
LEMMA TypeStep ==
  ASSUME IInv, [Next]_vars
  PROVE  TypeOK'
<1> USE DEF TypeOK
<1>0. TypeOK /\ StoreFits /\ RunFits /\ BusyIsTheRun
  BY DEF IInv
<1>1. CASE Types
  BY <1>0, <1>1 DEF Types, Panes, Lefts
<1>2. CASE MeasuresDocument \/ AnswerArrives
  <2>1. left' \in Lefts /\ turn' \in Turns /\ store' = store /\ spoiled' = spoiled
    BY <1>0, <1>2, RenderBesideARun, SizesAssumption DEF Lefts, Turns
  <2>2. PICK m \in Meters, p \in Panes : AfterEffects(m, p, run)
    BY <1>2, RenderBesideARun
  <2> QED
    BY <1>0, <2>1, <2>2, EffectsLemma
<1>3. CASE Condense
  <2>1. run' \in Runs
    BY <1>0, <1>3, StartsARun DEF Condense
  <2>2. meter' \in Meters
    <3>1. meter' = [meter EXCEPT !.busy = TRUE, !.failure = NoFailure]
      BY <1>3 DEF Condense
    <3>2. NoFailure \in [shown : 0 .. MaxTurns, automatic : BOOLEAN]
      BY SizesAssumption DEF NoFailure
    <3> QED
      BY <1>0, <3>1, <3>2 DEF Meters
  <2>3. left' \in Lefts
    BY <1>0, <1>3 DEF Condense, Lefts
  <2> QED
    BY <1>0, <1>3, <2>1, <2>2, <2>3 DEF Condense
<1>4. CASE Asks
  <2>1. turn' \in Turns
    BY <1>0, <1>4 DEF Asks, Turns, Panes, Breakdowns
  <2>2. left' \in Lefts
    BY <1>0, <1>4, SizesAssumption DEF Asks, Lefts
  <2> QED
    BY <1>0, <1>4, <2>1, <2>2 DEF Asks
<1>5. CASE Measures
  <2>0. turn.pc = "sent"
    BY <1>5, Zenon DEF Measures
  <2>1. turn.pc = "sent" /\ turn.doc \in Documents
    BY <1>0, <2>0 DEF Turns, NoTurn
  <2>2. turn \in [pc : {"sent", "measured", "answered"}, doc : Documents, breakdown : Breakdowns]
    BY <1>0, <2>1 DEF Turns, NoTurn
  <2>3. turn' \in Turns /\ left' \in Lefts
    <3>1. CASE turn.doc = 0
      BY <1>0, <1>5, <2>2, <3>1 DEF Measures, Turns
    <3>2. CASE turn.doc # 0
      <4>1. PICK failing, hist :
              /\ hist \in HistoriesOf(store, failing)
              /\ turn' = [turn EXCEPT !.pc = "measured",
                            !.breakdown = Measured(Issued, store, turn.doc, hist, failing)]
              /\ \/ UNCHANGED left
                 \/ left.faults > 0 /\ left' = [left EXCEPT !.faults = @ - 1]
        BY <1>5, <3>2 DEF Measures, Issued
      <4>2. Measured(Issued, store, turn.doc, hist, failing) \in Breakdowns
        BY <1>0, <2>1, <4>1, TurnsAreCounted, MeasuredIsAMeasurement DEF Breakdowns
      <4>3. left' \in Lefts
        BY <1>0, <4>1 DEF Lefts
      <4> QED
        BY <2>2, <4>1, <4>2, <4>3 DEF Turns
    <3> QED
      BY <3>1, <3>2
  <2> QED
    BY <1>0, <1>5, <2>3 DEF Measures
<1>6. CASE Remembers
  <2>1. turn' \in Turns
    BY <1>0, <1>6 DEF Remembers, Turns, NoTurn
  <2>2. store' \in Stores
    <3>1. PICK n \in {0, 1} : store' = [store EXCEPT !.pairs = @ + n, !.remembered = @ + n]
      BY <1>6 DEF Remembers
    <3>2. store.pairs + n \in Nat /\ store.remembered + n \in Nat
      BY <1>0 DEF Stores
    <3> QED
      BY <1>0, <3>1, <3>2 DEF Stores
  <2> QED
    BY <1>0, <1>6, <2>1, <2>2 DEF Remembers
<1>7. CASE TurnFails
  BY <1>0, <1>7 DEF TurnFails, Turns
<1>8. CASE Selects
  <2>1. run' \in Runs
    BY <1>0, <1>8, HistoryIsNatural DEF Selects, Runs
  <2> QED
    BY <1>0, <1>8, <2>1 DEF Selects
<1>9. CASE Generates
  <2>1. PICK size \in Segments :
          IF size >= Pair * run.pairs
          THEN run' = [run EXCEPT !.pc = "refused"] /\ UNCHANGED store
          ELSE /\ run' = [run EXCEPT !.pc = "condensed", !.result = Pair * run.pairs - size]
               /\ store' = [store EXCEPT !.pairs = @ - run.pairs,
                                         !.totals = Append(@, Segmented(store) + size)]
    BY <1>9 DEF Generates
  <2>2. size \in Nat /\ run.pairs \in Nat /\ Pair \in Nat /\ run.pairs <= store.pairs
    BY <1>0, <1>9, SizesAssumption DEF Generates, Runs, RunFits
  <2>3. Pair * run.pairs \in Nat
    BY <2>2, Product
  <2>4. run' \in Runs
    <3>1. CASE size >= Pair * run.pairs
      BY <1>0, <2>1, <3>1 DEF Runs
    <3>2. CASE size < Pair * run.pairs
      <4>1. Pair * run.pairs - size \in Nat
        BY <2>2, <2>3, <3>2
      <4>2. run' = [run EXCEPT !.pc = "condensed", !.result = Pair * run.pairs - size]
        BY <2>1, <2>2, <2>3, <3>2
      <4> QED
        BY <1>0, <4>1, <4>2 DEF Runs
    <3> QED
      BY <2>2, <2>3, <3>1, <3>2
  <2>5. store' \in Stores
    <3>1. /\ store.pairs - run.pairs \in Nat
          /\ Append(store.totals, Segmented(store) + size) \in Seq(Nat)
      <4>1. store.totals \in Seq(Nat) /\ Segmented(store) + size \in Nat
        BY <1>0, <2>2, HistoryIsNatural DEF Stores
      <4> QED
        BY <1>0, <2>2, <4>1, LongerSequence DEF Stores
    <3>2. CASE size >= Pair * run.pairs
      BY <1>0, <2>1, <3>2
    <3>3. CASE ~(size >= Pair * run.pairs)
      <4>1. store' = [store EXCEPT !.pairs = @ - run.pairs,
                                   !.totals = Append(@, Segmented(store) + size)]
        BY <2>1, <3>3
      <4> QED
        BY <1>0, <3>1, <4>1 DEF Stores
    <3> QED
      BY <3>2, <3>3
  <2> QED
    BY <1>0, <1>9, <2>4, <2>5 DEF Generates
<1>10. CASE RunFails
  BY <1>0, <1>10 DEF RunFails, Runs
<1>11. CASE Condensed \/ Declined \/ Failed
  <2>1. PICK m \in Meters : AfterEffects(m, pane, NoRun) /\ spoiled' \in BOOLEAN
                              /\ UNCHANGED <<store, turn, left>>
    BY <1>11, RenderAtAnEnd
  <2>2. NoRun \in Runs
    BY DEF NoRun, Runs, Breakdowns
  <2> QED
    BY <1>0, <2>1, <2>2, EffectsLemma
<1>12. CASE UNCHANGED vars
  BY <1>0, <1>12 DEF vars
<1> QED
  BY <1>1, <1>2, <1>3, <1>4, <1>5, <1>6, <1>7, <1>8, <1>9, <1>10, <1>11, <1>12 DEF Next

-----------------------------------------------------------------------------
(* The other parts of the invariant. *)

\* The run a render leaves is the one it found, or one on the measurement it shows.
LEMMA TheRunAfterARender ==
  ASSUME TypeOK, NEW m \in Meters, NEW p \in Panes, NEW r \in Runs, AfterEffects(m, p, r)
  PROVE  \/ run' = r
         \/ run'.pc = "sent" /\ run'.for = m.breakdown /\ m.breakdown # NoBreakdown
<1>1. CASE Fires(m, p)
  <2>1. m.breakdown # NoBreakdown
    BY <1>1 DEF Fires, Sees
  <2>2. run' = Starts(m, p, TRUE)
    BY <1>1, EffectsLemma DEF TypeOK
  <2>3. Starts(m, p, TRUE).pc = "sent" /\ Starts(m, p, TRUE).for = m.breakdown
    BY <2>1, StartsARun
  <2> QED
    BY <2>1, <2>2, <2>3
<1>2. CASE ~Fires(m, p)
  BY <1>2, EffectsLemma DEF TypeOK
<1> QED
  BY <1>1, <1>2

\* A condensation adds one segment to what there was (append_segment).
LEMMA OneMoreSegment ==
  ASSUME TypeOK, StoreFits, NEW size \in Nat,
         store'.totals = Append(store.totals, Segmented(store) + size)
  PROVE  /\ StoreFits' /\ Condensations(store') = Condensations(store) + 1
         /\ Segmented(store') = Segmented(store) + size
<1>1. store.totals \in Seq(Nat) /\ Segmented(store) \in Nat
  BY HistoryIsNatural DEF TypeOK, Stores
<1> DEFINE n == Len(store.totals)
           e == Segmented(store) + size
<1>2. n \in Nat \ {0} /\ \A i \in 1 .. n : store.totals[i] <= Segmented(store)
  BY DEF StoreFits
<1>3. e \in Nat /\ e >= Segmented(store)
  BY <1>1
<1>4. store'.totals = Append(store.totals, e)
  OBVIOUS
<1> HIDE DEF e
<1>5. /\ Len(store'.totals) = n + 1 /\ store'.totals[n + 1] = e
      /\ \A i \in 1 .. n : store'.totals[i] = store.totals[i]
  BY <1>1, <1>2, <1>3, <1>4
<1>6. Segmented(store') = e
  BY <1>5 DEF Segmented
<1>7. Condensations(store') = Condensations(store) + 1
  BY <1>2, <1>5 DEF Condensations
<1>8. \A i \in 1 .. n + 1 : store'.totals[i] <= e
  <2> SUFFICES ASSUME NEW i \in 1 .. n + 1
               PROVE  store'.totals[i] <= e
    OBVIOUS
  <2>1. CASE i = n + 1
    BY <1>3, <1>5, <2>1
  <2>2. CASE i # n + 1
    <3>1. i \in 1 .. n
      BY <1>2, <2>2
    <3>2. store.totals[i] \in Nat
      BY <1>1, <3>1
    <3> QED
      BY <1>1, <1>2, <1>3, <1>5, <3>1, <3>2
  <2> QED
    BY <2>1, <2>2
<1>9. StoreFits'
  BY <1>2, <1>5, <1>6, <1>8 DEF StoreFits
<1> QED
  BY <1>6, <1>7, <1>9 DEF e

\* Steps keep what the segments come to growing.
LEMMA StoreStep ==
  ASSUME IInv, [Next]_vars
  PROVE  StoreFits'
<1>0. TypeOK /\ StoreFits /\ store \in Stores
  BY DEF IInv, TypeOK
<1>1. CASE UNCHANGED store.totals
  BY <1>0, <1>1 DEF StoreFits, Segmented
<1>2. CASE Generates
  <2>1. CASE UNCHANGED store
    BY <1>0, <2>1 DEF StoreFits, Segmented
  <2>2. CASE ~UNCHANGED store
    <3>1. PICK size \in Segments :
            store' = [store EXCEPT !.pairs = @ - run.pairs,
                                   !.totals = Append(@, Segmented(store) + size)]
      BY <1>2, <2>2 DEF Generates
    <3>2. store'.totals = Append(store.totals, Segmented(store) + size) /\ size \in Nat
      BY <1>0, <3>1, SizesAssumption DEF Stores
    <3> QED
      BY <1>0, <3>2, OneMoreSegment
  <2> QED
    BY <2>1, <2>2
<1>3. CASE Remembers
  <2>1. PICK n \in {0, 1} : store' = [store EXCEPT !.pairs = @ + n, !.remembered = @ + n]
    BY <1>3 DEF Remembers
  <2>2. UNCHANGED store.totals
    BY <1>0, <2>1 DEF Stores
  <2> QED
    BY <1>1, <2>2
<1>4. CASE \/ Types \/ MeasuresDocument \/ Condense \/ Asks \/ Measures \/ AnswerArrives \/ TurnFails
           \/ Selects \/ RunFails \/ Condensed \/ Declined \/ Failed \/ UNCHANGED vars
  BY <1>1, <1>4 DEF Types, MeasuresDocument, Condense, Asks, Measures, AnswerArrives, TurnFails,
                    Selects, RunFails, Condensed, Declined, Failed, vars
<1> QED
  BY <1>2, <1>3, <1>4 DEF Next

\* Steps keep the run in flight in agreement with the meter.
LEMMA RunFitsStep ==
  ASSUME IInv, [Next]_vars
  PROVE  RunFits'
<1>0. /\ TypeOK /\ StoreFits /\ RunFits /\ run \in Runs /\ store \in Stores
      /\ DOMAIN run = {"pc", "automatic", "for", "target", "pairs", "result"}
  BY DEF IInv, TypeOK, Runs
<1>1. CASE MeasuresDocument \/ AnswerArrives
  BY <1>0, <1>1, RenderBesideARun, TheRunAfterARender DEF RunFits
<1>2. CASE Condense
  BY <1>0, <1>2, StartsARun DEF Condense, TypeOK, RunFits
<1>3. CASE Selects
  <2>1. run'.for = run.for
    BY <1>0, <1>3 DEF Selects
  <2>2. run'.pc = "generating" => run'.pairs = Selectable(store)
    BY <1>0, <1>3 DEF Selects
  <2>3. run.pc = "sent" /\ store' = store
    BY <1>3 DEF Selects
  <2> QED
    BY <1>0, <2>1, <2>2, <2>3, HistoryIsNatural DEF RunFits
<1>4. CASE Generates
  BY <1>0, <1>4 DEF Generates, RunFits
<1>5. CASE RunFails
  BY <1>0, <1>5 DEF RunFails, RunFits
<1>6. CASE Condensed \/ Declined \/ Failed
  <2>1. NoRun \in Runs /\ NoRun.pc = "idle"
    BY DEF NoRun, Runs, Breakdowns
  <2>2. pane \in Panes
    BY <1>0 DEF TypeOK
  <2> QED
    BY <1>0, <1>6, <2>1, <2>2, RenderAtAnEnd, TheRunAfterARender DEF RunFits
<1>7. CASE Remembers
  <2>1. store'.pairs >= store.pairs
    <3>1. PICK n \in {0, 1} : store' = [store EXCEPT !.pairs = @ + n, !.remembered = @ + n]
      BY <1>7 DEF Remembers
    <3>2. store'.pairs = store.pairs + n
      BY <1>0, <3>1 DEF Stores
    <3> QED
      BY <1>0, <3>2 DEF Stores
  <2>2. run' = run /\ run.pairs \in Nat /\ store.pairs \in Nat /\ store'.pairs \in Nat
    BY <1>0, <1>7, TypeStep DEF Remembers, Runs, Stores, TypeOK
  <2> QED
    BY <1>0, <2>1, <2>2 DEF RunFits
<1>8. CASE Types \/ Asks \/ Measures \/ TurnFails \/ UNCHANGED vars
  BY <1>0, <1>8 DEF Types, Asks, Measures, TurnFails, vars, RunFits
<1> QED
  BY <1>1, <1>2, <1>3, <1>4, <1>5, <1>6, <1>7, <1>8 DEF Next

\* Steps keep a spoiled measurement disarmed.
LEMMA SpoiledStep ==
  ASSUME IInv, [Next]_vars
  PROVE  SpoiledIsDisarmed'
<1>0. /\ TypeOK /\ SpoiledIsDisarmed /\ run \in Runs /\ pane \in Panes /\ autos \in Fired
      /\ meter \in Meters
      /\ DOMAIN meter = {"breakdown", "busy", "disarmed", "firedFor", "outcome", "failure"}
  BY DEF IInv, TypeOK, Meters
<1>1. CASE MeasuresDocument \/ AnswerArrives
  <2>1. PICK m \in Meters, p \in Panes :
          AfterEffects(m, p, run) /\ m.disarmed = meter.disarmed /\ spoiled' = spoiled
    BY <1>1, RenderBesideARun
  <2>2. meter'.disarmed = m.disarmed
    BY <1>0, <2>1, EffectsLemma
  <2> QED
    BY <1>0, <2>1, <2>2 DEF SpoiledIsDisarmed
<1>2. CASE Condensed \/ Declined \/ Failed
  <2>1. PICK m \in Meters : AfterEffects(m, pane, NoRun) /\ (spoiled' => m.disarmed)
    BY <1>2, RenderAtAnEnd
  <2>2. NoRun \in Runs
    BY DEF NoRun, Runs, Breakdowns
  <2>3. meter'.disarmed = m.disarmed
    BY <1>0, <2>1, <2>2, EffectsLemma
  <2> QED
    BY <2>1, <2>3 DEF SpoiledIsDisarmed
<1>3. CASE Condense
  <2>1. meter'.disarmed = meter.disarmed
    BY <1>0, <1>3 DEF Condense
  <2> QED
    BY <1>0, <1>3, <2>1 DEF Condense, SpoiledIsDisarmed
<1>4. CASE \/ Types \/ Asks \/ Measures \/ Remembers \/ TurnFails
           \/ Selects \/ Generates \/ RunFails \/ UNCHANGED vars
  BY <1>0, <1>4 DEF Types, Asks, Measures, Remembers, TurnFails, Selects, Generates, RunFails,
                    vars, SpoiledIsDisarmed
<1> QED
  BY <1>1, <1>2, <1>3, <1>4 DEF Next

\* Steps leave the meter busy exactly with the run, and no effect undone.
LEMMA EffectsStep ==
  ASSUME IInv, [Next]_vars
  PROVE  BusyIsTheRun' /\ EffectsHaveRun'
<1>0. /\ TypeOK /\ BusyIsTheRun /\ EffectsHaveRun /\ IdsTellApart
      /\ run \in Runs /\ pane \in Panes /\ autos \in Fired /\ meter \in Meters
      /\ DOMAIN meter = {"breakdown", "busy", "disarmed", "firedFor", "outcome", "failure"}
  BY DEF IInv, TypeOK, Meters
<1>1. CASE MeasuresDocument \/ AnswerArrives
  <2>1. PICK m \in Meters, p \in Panes :
          /\ AfterEffects(m, p, run)
          /\ m.outcome = meter.outcome /\ m.busy = meter.busy
          /\ \/ m.breakdown = meter.breakdown
             \/ Measuring /\ m.breakdown = turn.breakdown
             \/ m.breakdown = NoBreakdown
    BY <1>1, RenderBesideARun
  <2>2. ASSUME run.pc # "idle"
        PROVE  ~Reclaiming(m)
    <3>1. CASE m.breakdown = meter.breakdown
      BY <1>0, <2>1, <2>2, <3>1 DEF EffectsHaveRun, Reclaiming, OutcomeIsForThisTurn
    <3>2. CASE Measuring /\ m.breakdown = turn.breakdown
      <4>1. meter.outcome.for < turn.breakdown.id
        BY <1>0, <3>2 DEF IdsTellApart
      <4>2. meter.outcome.for \in Int /\ turn.breakdown.id \in Int
        BY <1>0, <3>2, SizesAssumption DEF IdsTellApart, Meters
      <4> QED
        BY <2>1, <3>2, <4>1, <4>2 DEF Reclaiming, OutcomeIsForThisTurn
    <3>3. CASE m.breakdown = NoBreakdown
      BY <1>0, <2>1, <3>3 DEF IdsTellApart, Reclaiming, OutcomeIsForThisTurn, NoBreakdown, Meters
    <3> QED
      BY <2>1, <3>1, <3>2, <3>3
  <2>3. m.busy <=> run.pc # "idle"
    BY <1>0, <2>1 DEF BusyIsTheRun
  <2> QED
    BY <1>0, <2>1, <2>2, <2>3, EffectsPreserve
<1>2. CASE Condensed \/ Declined \/ Failed
  <2>1. PICK m \in Meters : AfterEffects(m, pane, NoRun) /\ m.busy = FALSE
    BY <1>2, RenderAtAnEnd
  <2>2. NoRun \in Runs /\ NoRun.pc = "idle"
    BY DEF NoRun, Runs, Breakdowns
  <2> QED
    BY <1>0, <2>1, <2>2, EffectsPreserve
<1>3. CASE Condense
  <2>1. /\ meter' = [meter EXCEPT !.busy = TRUE, !.failure = NoFailure]
        /\ pane' = pane /\ run'.pc = "sent"
        /\ meter.breakdown # NoBreakdown /\ ~OutcomeIsForThisTurn(meter)
    BY <1>0, <1>3, StartsARun DEF Condense
  <2>2. /\ meter'.breakdown = meter.breakdown /\ meter'.outcome = meter.outcome
        /\ meter'.firedFor = meter.firedFor
    BY <1>0, <2>1
  <2>3. meter'.busy = TRUE
    BY <1>0, <2>1
  <2>4. /\ Shown(meter', pane') = Shown(meter, pane) /\ Live(meter', pane') = Live(meter, pane)
        /\ Reclaiming(meter') <=> Reclaiming(meter)
    BY <2>1, <2>2, ShownDepends
  <2>5. ~Reclaiming(meter) /\ Shown(meter, pane) = Live(meter, pane)
    BY <1>0, <2>1, ShownIsAMeasurement DEF Reclaiming
  <2>6. ~Sees(meter', pane')
    BY <1>0, <2>2, <2>4 DEF Sees, EffectsHaveRun
  <2> QED
    BY <2>1, <2>2, <2>3, <2>4, <2>5, <2>6 DEF BusyIsTheRun, EffectsHaveRun, Sees
<1>4. CASE Types
  <2>1. /\ UNCHANGED <<meter, run>>
        /\ pane'.live = pane.live /\ pane'.cut = pane.cut
    BY <1>0, <1>4 DEF Types, Panes
  <2>2. Live(meter', pane') = Live(meter, pane) /\ Shown(meter', pane') = Shown(meter, pane)
          /\ (Reclaiming(meter') <=> Reclaiming(meter))
    BY <2>1 DEF Live, Shown, Reclaiming
  <2> QED
    BY <1>0, <2>1, <2>2 DEF BusyIsTheRun, EffectsHaveRun, Sees
<1>5. CASE Selects \/ Generates \/ RunFails
  <2>1. UNCHANGED <<meter, pane>> /\ run.pc # "idle" /\ run'.pc # "idle"
    <3>1. DOMAIN run = {"pc", "automatic", "for", "target", "pairs", "result"}
      BY <1>0 DEF Runs
    <3> QED
      BY <1>5, <3>1 DEF Selects, Generates, RunFails
  <2> QED
    BY <1>0, <2>1 DEF BusyIsTheRun, EffectsHaveRun, Sees, Live, Shown, Reclaiming, OutcomeIsForThisTurn
<1>6. CASE Asks \/ Measures \/ Remembers \/ TurnFails \/ UNCHANGED vars
  <2>1. UNCHANGED <<meter, pane, run>>
    BY <1>6 DEF Asks, Measures, Remembers, TurnFails, vars
  <2> QED
    BY <1>0, <2>1 DEF BusyIsTheRun, EffectsHaveRun, Sees, Live, Shown, Reclaiming, OutcomeIsForThisTurn
<1> QED
  BY <1>1, <1>2, <1>3, <1>4, <1>5, <1>6 DEF Next

\* The newest id is the one of the turn on its way, and an id says which breakdown.
LEMMA IdsStep ==
  ASSUME IInv, [Next]_vars
  PROVE  IdsTellApart'
<1>0. /\ TypeOK /\ StoreFits /\ RunFits /\ IdsTellApart
      /\ run \in Runs /\ pane \in Panes /\ autos \in Fired /\ meter \in Meters /\ turn \in Turns
      /\ Issued \in Nat /\ meter.breakdown.id \in Nat /\ run.for.id \in Nat /\ meter.outcome.for \in Nat
      /\ left.turns \in Nat /\ left' \in Lefts /\ left'.turns \in Nat /\ MaxTurns \in Nat
      /\ DOMAIN left = {"turns", "runs", "typings", "faults"}
  <2>1. TypeOK /\ StoreFits /\ RunFits /\ IdsTellApart /\ TypeOK'
    BY TypeStep DEF IInv
  <2>2. left.turns \in 0 .. MaxTurns /\ MaxTurns \in Nat
    BY <2>1, SizesAssumption DEF TypeOK, Lefts
  <2>3. \A b \in Breakdowns : b.id \in Nat
    BY SizesAssumption DEF Breakdowns, Measurements, NoBreakdown
  <2> QED
    BY <2>1, <2>2, <2>3 DEF TypeOK, Meters, Runs, Issued, Lefts
<1>1. CASE MeasuresDocument \/ AnswerArrives
  <2>1. PICK m \in Meters, p \in Panes :
          /\ AfterEffects(m, p, run)
          /\ m.outcome = meter.outcome
          /\ \/ m.breakdown = meter.breakdown /\ UNCHANGED <<turn, left>>
             \/ /\ Measuring /\ turn' = NoTurn /\ UNCHANGED left
                /\ m.breakdown = turn.breakdown
             \/ /\ turn.pc = "answered" /\ turn' = NoTurn /\ UNCHANGED left
                /\ m.breakdown = NoBreakdown
    BY <1>1, RenderBesideARun
  <2>2. /\ meter'.breakdown = m.breakdown /\ meter'.outcome = meter.outcome
        /\ run' = run \/ (run'.pc = "sent" /\ run'.for = m.breakdown /\ m.breakdown # NoBreakdown)
    BY <1>0, <2>1, EffectsLemma, TheRunAfterARender
  <2>3. CASE m.breakdown = meter.breakdown /\ UNCHANGED <<turn, left>>
    BY <1>0, <2>2, <2>3 DEF IdsTellApart, Measuring, Issued
  <2>4. CASE /\ Measuring /\ turn' = NoTurn /\ UNCHANGED left
             /\ m.breakdown = turn.breakdown
    <3>1. ~Measuring' /\ turn'.pc = "idle" /\ Issued' = Issued
      BY <2>4 DEF Measuring, NoTurn, Issued
    <3> QED
      BY <1>0, <2>2, <2>4, <3>1 DEF IdsTellApart
  <2>5. CASE /\ turn.pc = "answered" /\ turn' = NoTurn /\ UNCHANGED left
             /\ m.breakdown = NoBreakdown
    <3>1. ~Measuring' /\ turn'.pc = "idle" /\ Issued' = Issued /\ NoBreakdown.id = 0 /\ run' = run
      BY <2>2, <2>5 DEF Measuring, NoTurn, Issued, NoBreakdown
    <3>2. run.pc # "idle" => run.for.id # 0
      BY <1>0 DEF RunFits, Runs, Breakdowns, Measurements
    <3> QED
      BY <1>0, <2>2, <2>5, <3>1, <3>2 DEF IdsTellApart
  <2> QED
    BY <2>1, <2>3, <2>4, <2>5
<1>2. CASE Condensed \/ Declined \/ Failed
  <2>1. PICK m \in Meters :
          /\ AfterEffects(m, pane, NoRun) /\ m.breakdown = meter.breakdown
          /\ run.pc \in {"condensed", "nothing", "refused", "failed"}
          /\ run.pc = "failed" => m.outcome = NoOutcome
          /\ run.pc # "failed" => /\ m.outcome.for = run.for.id
                                  /\ m.outcome.reclaimed =
                                       IF run.pc = "condensed" THEN run.result ELSE 0
          /\ UNCHANGED <<turn, left>>
    BY <1>2, RenderAtAnEnd
  <2>2. NoRun \in Runs /\ NoRun.for.id = 0 /\ NoRun.pc = "idle"
    BY DEF NoRun, Runs, Breakdowns, NoBreakdown
  <2>3. /\ meter'.breakdown = meter.breakdown /\ meter'.outcome = m.outcome
        /\ run' = NoRun \/ run'.for = meter.breakdown
    BY <1>0, <2>1, <2>2, EffectsLemma, TheRunAfterARender
  <2>4. /\ m.outcome.for \in {0, run.for.id}
        /\ m.outcome.reclaimed > 0 => m.outcome.for > 0
    <3>1. run.for.id > 0
      BY <1>0, <2>1 DEF RunFits, Runs, Breakdowns, Measurements
    <3>2. CASE run.pc = "failed"
      BY <2>1, <3>2 DEF NoOutcome
    <3>3. CASE run.pc # "failed"
      BY <2>1, <3>1, <3>3
    <3> QED
      BY <3>2, <3>3
  <2> QED
    BY <1>0, <2>1, <2>2, <2>3, <2>4 DEF IdsTellApart, Measuring, Issued
<1>3. CASE Condense
  <2>1. /\ meter'.breakdown = meter.breakdown /\ meter'.outcome = meter.outcome
        /\ run'.for = meter.breakdown /\ UNCHANGED turn /\ left'.turns = left.turns
    <3>1. DOMAIN meter = {"breakdown", "busy", "disarmed", "firedFor", "outcome", "failure"}
      BY <1>0 DEF Meters
    <3>2. meter' = [meter EXCEPT !.busy = TRUE, !.failure = NoFailure]
            /\ run' = Starts(meter, pane, FALSE) /\ meter.breakdown # NoBreakdown
            /\ UNCHANGED turn /\ left' = [left EXCEPT !.runs = @ - 1]
      BY <1>3 DEF Condense
    <3>3. Starts(meter, pane, FALSE).for = meter.breakdown
      BY <1>0, <3>2, StartsARun
    <3>4. left'.turns = left.turns
      BY <1>0, <3>2
    <3> QED
      BY <3>1, <3>2, <3>3, <3>4
  <2> QED
    BY <1>0, <2>1 DEF IdsTellApart, Measuring, Issued
<1>4. CASE Asks
  <2>1. /\ Issued' = Issued + 1 /\ turn'.pc = "sent" /\ turn'.breakdown = NoBreakdown
        /\ turn.pc = "idle" /\ UNCHANGED <<run, meter>>
    BY <1>0, <1>4 DEF Asks, Issued
  <2> QED
    BY <1>0, <2>1 DEF IdsTellApart, Measuring
<1>5. CASE Measures
  <2>0. turn.pc = "sent"
    BY <1>5, Zenon DEF Measures
  <2>1. turn.pc = "sent" /\ turn.doc \in Documents /\ Issued \in 1 .. MaxTurns
    BY <1>0, <2>0, TurnsAreCounted DEF Turns, NoTurn
  <2>2. DOMAIN turn = {"pc", "doc", "breakdown"}
    BY <1>0, <2>1 DEF Turns, NoTurn
  <2>3. UNCHANGED <<run, meter>> /\ left'.turns = left.turns /\ turn'.pc = "measured"
    BY <1>0, <1>5, <2>2 DEF Measures
  <2>4. turn'.breakdown = NoBreakdown \/ turn'.breakdown.id = Issued
    <3>1. CASE turn.doc = 0
      BY <1>0, <1>5, <2>1, <2>2, <3>1 DEF Measures, IdsTellApart
    <3>2. CASE turn.doc # 0
      <4>1. PICK failing, hist :
              /\ hist \in HistoriesOf(store, failing)
              /\ turn'.breakdown = Measured(Issued, store, turn.doc, hist, failing)
        BY <1>5, <2>2, <3>2 DEF Measures, Issued
      <4> QED
        BY <1>0, <2>1, <4>1, MeasuredIsAMeasurement
    <3> QED
      BY <3>1, <3>2
  <2> QED
    BY <1>0, <2>1, <2>3, <2>4 DEF IdsTellApart, Measuring, Issued
<1>6. CASE Remembers
  <2>1. DOMAIN turn = {"pc", "doc", "breakdown"}
    BY <1>0, <1>6 DEF Remembers, Turns, NoTurn
  <2>2. /\ turn.pc = "measured" /\ turn'.pc = "answered" /\ turn'.breakdown = turn.breakdown
        /\ UNCHANGED <<run, meter, left>>
    BY <1>6, <2>1 DEF Remembers
  <2> QED
    BY <1>0, <2>2 DEF IdsTellApart, Measuring, Issued
<1>7. CASE TurnFails
  BY <1>0, <1>7 DEF TurnFails, IdsTellApart, Measuring, Issued, NoTurn
<1>8. CASE Selects \/ Generates \/ RunFails
  <2>1. DOMAIN run = {"pc", "automatic", "for", "target", "pairs", "result"}
    BY <1>0 DEF Runs
  <2>2. run.pc # "idle" /\ run'.for = run.for /\ UNCHANGED <<turn, meter, left>>
    BY <1>8, <2>1 DEF Selects, Generates, RunFails
  <2> QED
    BY <1>0, <2>2 DEF IdsTellApart, Measuring, Issued
<1>9. CASE Types
  <2>1. UNCHANGED <<turn, run, meter>> /\ left'.turns = left.turns
    BY <1>0, <1>9 DEF Types
  <2> QED
    BY <1>0, <2>1 DEF IdsTellApart, Measuring, Issued
<1>10. CASE UNCHANGED vars
  BY <1>0, <1>10 DEF vars, IdsTellApart, Measuring, Issued
<1> QED
  BY <1>1, <1>2, <1>3, <1>4, <1>5, <1>6, <1>7, <1>8, <1>9, <1>10 DEF Next

-----------------------------------------------------------------------------
(* The gauge and the store. *)

\* A pair remembered adds as much to the history as it takes from what a breakdown
\* must say (memory_writer).
LEMMA SinceIsKept ==
  ASSUME TypeOK, StoreFits, Remembers, NEW b \in Measurements
  PROVE  /\ Since(b, store') = Since(b, store) /\ Condensations(store') = Condensations(store)
<1>1. PICK n \in {0, 1} : store' = [store EXCEPT !.pairs = @ + n, !.remembered = @ + n]
  BY DEF Remembers
<1>2. /\ store'.pairs = store.pairs + n /\ store'.remembered = store.remembered + n
      /\ Segmented(store') = Segmented(store) /\ Condensations(store') = Condensations(store)
  <2>1. store'.pairs = store.pairs + n /\ store'.remembered = store.remembered + n
          /\ store'.totals = store.totals
    BY <1>1 DEF TypeOK, Stores
  <2> QED
    BY <2>1 DEF Segmented, Condensations
<1>3. /\ store.pairs \in Int /\ Segmented(store) \in Int /\ store.remembered \in Int
      /\ b.remembered \in Int /\ Pair \in Int
  BY HistoryIsNatural, SizesAssumption DEF TypeOK, Stores, Measurements
<1>4. \A x, y \in Int : x * (y + n) = x * y + x * n
  OBVIOUS
<1>5. Pair * (store.pairs + n) = Pair * store.pairs + Pair * n
  BY <1>3, <1>4
<1>6. /\ (store.remembered + n) - b.remembered = (store.remembered - b.remembered) + n
      /\ store.remembered - b.remembered \in Int
  BY <1>3
<1>7. Pair * ((store.remembered + n) - b.remembered) =
        Pair * (store.remembered - b.remembered) + Pair * n
  BY <1>3, <1>4, <1>6
<1>8. \A x, y \in Int : x * y \in Int
  OBVIOUS
<1>9. /\ Pair * store.pairs \in Int /\ Pair * n \in Int
      /\ Pair * (store.remembered - b.remembered) \in Int
  BY <1>3, <1>6, <1>8
<1> DEFINE a == Pair * store.pairs
           c == Pair * n
           d == Pair * (store.remembered - b.remembered)
<1>10. /\ Since(b, store') = ((a + c) + Segmented(store)) - (d + c)
       /\ Since(b, store) = (a + Segmented(store)) - d
  BY <1>2, <1>5, <1>7 DEF AllOf, Since
<1>11. a \in Int /\ c \in Int /\ d \in Int
  BY <1>9
<1> HIDE DEF a, c, d
<1> QED
  BY <1>2, <1>3, <1>10, <1>11

\* A condensation takes from the history what it says it reclaimed (compact_conversation).
LEMMA SinceTheCondensation ==
  ASSUME IInv, Generates, run'.pc = "condensed", NEW b \in Measurements
  PROVE  /\ Since(b, store') = Since(b, store) - run'.result
         /\ Condensations(store') = Condensations(store) + 1 /\ run'.for = run.for
<1>0. TypeOK /\ StoreFits /\ run \in Runs /\ store \in Stores /\ Pair \in Int
  BY SizesAssumption DEF IInv, TypeOK
<1>1. PICK size \in Segments :
        /\ run' = [run EXCEPT !.pc = "condensed", !.result = Pair * run.pairs - size]
        /\ store' = [store EXCEPT !.pairs = @ - run.pairs,
                                  !.totals = Append(@, Segmented(store) + size)]
  <2>1. DOMAIN run = {"pc", "automatic", "for", "target", "pairs", "result"}
    BY <1>0 DEF Runs
  <2> QED
    BY <2>1 DEF Generates
<1>2. /\ store'.pairs = store.pairs - run.pairs /\ store'.remembered = store.remembered
      /\ Segmented(store') = Segmented(store) + size
      /\ Condensations(store') = Condensations(store) + 1
  <2>1. /\ store'.pairs = store.pairs - run.pairs /\ store'.remembered = store.remembered
        /\ store'.totals = Append(store.totals, Segmented(store) + size) /\ size \in Nat
    BY <1>0, <1>1, SizesAssumption DEF Stores
  <2> QED
    BY <1>0, <2>1, OneMoreSegment
<1>3. run'.result = Pair * run.pairs - size /\ run'.for = run.for
  BY <1>0, <1>1 DEF Runs
<1>4. /\ store.pairs \in Int /\ Segmented(store) \in Int /\ store.remembered \in Int
      /\ run.pairs \in Int /\ b.remembered \in Int /\ size \in Int
  BY <1>0, HistoryIsNatural, SizesAssumption DEF Stores, Runs, Measurements
<1>5. \A x, y, z \in Int : x * (y - z) = x * y - x * z /\ x * y \in Int
  OBVIOUS
<1>6. Pair * (store.pairs - run.pairs) = Pair * store.pairs - Pair * run.pairs
  BY <1>0, <1>4, <1>5
<1> DEFINE a == Pair * store.pairs
           c == Pair * run.pairs
           d == Pair * (store.remembered - b.remembered)
<1>7. a \in Int /\ c \in Int /\ d \in Int
  <2>1. store.remembered - b.remembered \in Int
    BY <1>4
  <2> QED
    BY <1>0, <1>4, <1>5, <2>1
<1>8. /\ Since(b, store') = ((a - c) + (Segmented(store) + size)) - d
      /\ Since(b, store) = (a + Segmented(store)) - d
      /\ run'.result = c - size
  BY <1>2, <1>3, <1>6 DEF AllOf, Since
<1> HIDE DEF a, c, d
<1> QED
  BY <1>2, <1>3, <1>4, <1>7, <1>8

\* Nothing a breakdown accounts for changes while the store and the run do not.
LEMMA AccountsAreKept ==
  ASSUME NEW b, NEW s, NEW r, NEW q, Accounts(b, s, r), q.pc = "condensed" => q = r
  PROVE  Accounts(b, s, q)
  BY DEF Accounts

\* Steps keep the gauge's account of the store.
LEMMA GaugeStep ==
  ASSUME IInv, [Next]_vars
  PROVE  GaugeAccounts'
<1>0. /\ TypeOK /\ StoreFits /\ RunFits /\ IdsTellApart /\ EffectsHaveRun /\ GaugeAccounts
      /\ Condensations(store) \in Nat
      /\ run \in Runs /\ pane \in Panes /\ autos \in Fired /\ meter \in Meters /\ turn \in Turns
      /\ store \in Stores
  BY HistoryIsNatural DEF IInv, TypeOK
<1>1. CASE MeasuresDocument \/ AnswerArrives
  <2>1. PICK m \in Meters, p \in Panes :
          /\ AfterEffects(m, p, run)
          /\ m.outcome = meter.outcome
          /\ \/ m.breakdown = meter.breakdown /\ UNCHANGED turn
             \/ Measuring /\ turn' = NoTurn /\ m.breakdown = turn.breakdown
             \/ turn' = NoTurn /\ m.breakdown = NoBreakdown
          /\ UNCHANGED store
    BY <1>1, RenderBesideARun
  <2>2. /\ meter'.breakdown = m.breakdown /\ meter'.outcome = meter.outcome
        /\ run' = run \/ (run'.pc = "sent" /\ run'.for = m.breakdown /\ m.breakdown # NoBreakdown)
    BY <1>0, <2>1, EffectsLemma, TheRunAfterARender
  <2>3. \A b : Accounts(b, store, run) => Accounts(b, store', run')
    BY <2>1, <2>2 DEF Accounts
  <2>4. m.breakdown # NoBreakdown => Accounts(m.breakdown, store', run')
    BY <1>0, <2>1, <2>3 DEF GaugeAccounts
  <2>5. Measuring' => Accounts(turn'.breakdown, store', run')
    BY <1>0, <2>1, <2>3 DEF GaugeAccounts, Measuring, NoTurn
  <2>6. /\ run'.pc # "idle" => Accounts(run'.for, store', run')
        /\ run'.pc = "condensed" => run'.for.condensed < Condensations(store')
    BY <1>0, <2>1, <2>2, <2>3, <2>4 DEF GaugeAccounts
  <2>7. ASSUME meter'.breakdown # NoBreakdown, Reclaiming(meter')
        PROVE  m.breakdown = meter.breakdown /\ Reclaiming(meter)
    <3>1. meter.outcome.for = m.breakdown.id
      BY <2>2, <2>7 DEF Reclaiming, OutcomeIsForThisTurn
    <3>2. ~(Measuring /\ m.breakdown = turn.breakdown)
      BY <1>0, <3>1, SizesAssumption DEF IdsTellApart, Meters
    <3> QED
      BY <2>1, <2>2, <2>7, <3>2 DEF Reclaiming, OutcomeIsForThisTurn
  <2> QED
    BY <1>0, <2>1, <2>2, <2>4, <2>5, <2>6, <2>7 DEF GaugeAccounts
<1>2. CASE Condensed \/ Declined \/ Failed
  <2>1. PICK m \in Meters :
          /\ AfterEffects(m, pane, NoRun) /\ m.breakdown = meter.breakdown
          /\ run.pc \in {"condensed", "nothing", "refused", "failed"}
          /\ run.pc = "failed" => m.outcome = NoOutcome
          /\ run.pc # "failed" => /\ m.outcome.for = run.for.id
                                  /\ m.outcome.reclaimed =
                                       IF run.pc = "condensed" THEN run.result ELSE 0
          /\ UNCHANGED <<store, turn>>
    BY <1>2, RenderAtAnEnd
  <2>2. NoRun \in Runs /\ NoRun.pc = "idle"
    BY DEF NoRun, Runs, Breakdowns
  <2>3. /\ meter'.breakdown = meter.breakdown /\ meter'.outcome = m.outcome
        /\ \/ run'.pc = "idle"
           \/ run'.pc = "sent" /\ run'.for = meter.breakdown /\ meter.breakdown # NoBreakdown
    BY <1>0, <2>1, <2>2, EffectsLemma, TheRunAfterARender
  <2>4. \A b : Accounts(b, store, run) => Accounts(b, store', run')
    BY <2>1, <2>3 DEF Accounts
  <2>5. ASSUME Reclaiming(meter')
        PROVE  /\ run.pc = "condensed" /\ meter'.outcome.reclaimed = run.result
               /\ meter.breakdown = run.for
    <3>1. meter'.outcome # NoOutcome /\ meter'.outcome.reclaimed # 0
      BY <2>5 DEF Reclaiming, OutcomeIsForThisTurn, NoOutcome
    <3>2. run.pc = "condensed" /\ meter'.outcome.reclaimed = run.result
            /\ meter'.outcome.for = run.for.id
      BY <2>1, <2>3, <3>1
    <3>3. run.for.id = meter.breakdown.id
      BY <2>3, <2>5, <3>2 DEF Reclaiming, OutcomeIsForThisTurn
    <3> QED
      BY <1>0, <3>2, <3>3 DEF IdsTellApart
  <2>6. Reclaiming(meter') => /\ meter'.breakdown.condensed < Condensations(store')
                              /\ OffBy(meter'.breakdown, store', meter'.outcome.reclaimed)
    BY <1>0, <2>1, <2>3, <2>5 DEF GaugeAccounts, Accounts
  <2> QED
    BY <1>0, <2>1, <2>3, <2>4, <2>6 DEF GaugeAccounts, Measuring
<1>3. CASE Condense
  <2>1. /\ meter'.breakdown = meter.breakdown /\ meter'.outcome = meter.outcome
        /\ run'.for = meter.breakdown /\ run'.pc = "sent" /\ meter.breakdown # NoBreakdown
        /\ UNCHANGED <<store, turn>>
    <3>1. DOMAIN meter = {"breakdown", "busy", "disarmed", "firedFor", "outcome", "failure"}
      BY <1>0 DEF Meters
    <3>2. meter' = [meter EXCEPT !.busy = TRUE, !.failure = NoFailure]
            /\ run' = Starts(meter, pane, FALSE) /\ meter.breakdown # NoBreakdown
            /\ UNCHANGED <<store, turn>>
      BY <1>3 DEF Condense
    <3> QED
      BY <1>0, <3>1, <3>2, StartsARun
  <2>2. \A b : Accounts(b, store, run) => Accounts(b, store', run')
    BY <2>1 DEF Accounts
  <2>3. Reclaiming(meter') <=> Reclaiming(meter)
    BY <2>1 DEF Reclaiming, OutcomeIsForThisTurn
  <2> QED
    BY <1>0, <2>1, <2>2, <2>3 DEF GaugeAccounts, Measuring
<1>4. CASE Measures
  <2>0. turn.pc = "sent"
    BY <1>4, Zenon DEF Measures
  <2>1. turn.pc = "sent" /\ turn.doc \in Documents /\ Issued \in 1 .. MaxTurns
    BY <1>0, <2>0, TurnsAreCounted DEF Turns, NoTurn
  <2>2. DOMAIN turn = {"pc", "doc", "breakdown"}
    BY <1>0, <2>1 DEF Turns, NoTurn
  <2>3. UNCHANGED <<store, run, meter>>
    BY <1>4 DEF Measures
  <2>4. CASE turn.doc = 0
    BY <1>0, <1>4, <2>1, <2>2, <2>3, <2>4 DEF Measures, Measuring, GaugeAccounts, IdsTellApart
  <2>5. CASE turn.doc # 0
    <3>1. PICK failing, hist :
            /\ hist \in HistoriesOf(store, failing)
            /\ turn'.breakdown = Measured(Issued, store, turn.doc, hist, failing)
      BY <1>4, <2>2, <2>5 DEF Measures, Issued
    <3> DEFINE b == Measured(Issued, store, turn.doc, hist, failing)
    <3>2. /\ b.hist = hist /\ b.whole = (hist = AllOf(store))
          /\ b.condensed = Condensations(store) /\ b.remembered = store.remembered
      BY <1>0, <2>1, <3>1, MeasuredIsAMeasurement
    <3>3. turn'.breakdown = b
      BY <3>1
    <3> HIDE DEF b
    <3>4. Since(b, store) = AllOf(store)
      <4>1. AllOf(store) \in Nat /\ store.remembered \in Nat /\ Pair \in Nat
        BY <1>0, HistoryIsNatural, SizesAssumption DEF Stores
      <4>2. store.remembered - b.remembered = 0 /\ Pair * 0 = 0
        BY <3>2, <4>1
      <4>3. Since(b, store) = AllOf(store) - 0
        BY <4>2 DEF Since
      <4> QED
        BY <4>1, <4>3
    <3>5. Accounts(b, store, run)
      <4>1. b.condensed <= Condensations(store) /\ b.condensed # Condensations(store) - 1
        BY <1>0, <3>2
      <4>2. b.whole => b.hist = Since(b, store)
        BY <3>2, <3>4
      <4> QED
        BY <4>1, <4>2 DEF Accounts, OffBy
    <3> QED
      BY <1>0, <2>3, <3>3, <3>5 DEF GaugeAccounts
  <2> QED
    BY <2>4, <2>5
<1>5. CASE Remembers
  <2>1. DOMAIN turn = {"pc", "doc", "breakdown"}
    BY <1>0, <1>5 DEF Remembers, Turns, NoTurn
  <2>2. /\ Measuring' => Measuring
        /\ turn'.breakdown = turn.breakdown /\ UNCHANGED <<run, meter>>
    BY <1>5, <2>1 DEF Remembers, Measuring
  <2>3. \A b \in Measurements : /\ Accounts(b, store, run) => Accounts(b, store', run)
                                /\ b.condensed < Condensations(store) => b.condensed < Condensations(store')
                                /\ \A k : OffBy(b, store, k) => OffBy(b, store', k)
    BY <1>0, <1>5, SinceIsKept DEF Accounts, OffBy
  <2>4. /\ Measuring => turn.breakdown \in Measurements
        /\ meter.breakdown # NoBreakdown => meter.breakdown \in Measurements
        /\ run.pc # "idle" => run.for \in Measurements
    BY <1>0, <2>2 DEF IdsTellApart, Measuring, Turns, NoTurn, Meters, Runs, Breakdowns, RunFits
  <2> QED
    BY <1>0, <2>2, <2>3, <2>4 DEF GaugeAccounts
<1>6. CASE Generates
  <2>1. UNCHANGED <<meter, turn>> /\ run.pc = "generating"
    BY <1>6 DEF Generates
  <2>2. CASE run'.pc = "condensed"
    <3>1. \A b \in Measurements : Accounts(b, store, run) =>
            Accounts(b, store', run') /\ b.condensed < Condensations(store')
      <4> SUFFICES ASSUME NEW b \in Measurements, Accounts(b, store, run)
                   PROVE  Accounts(b, store', run') /\ b.condensed < Condensations(store')
        OBVIOUS
      <4>1. /\ Since(b, store') = Since(b, store) - run'.result
            /\ Condensations(store') = Condensations(store) + 1
        BY <1>6, <2>2, SinceTheCondensation
      <4>2. b.condensed \in Int /\ Condensations(store) \in Int
        BY <1>0 DEF Measurements
      <4>3. /\ b.condensed <= Condensations(store)
            /\ b.whole /\ b.condensed = Condensations(store) => b.hist = Since(b, store)
        BY DEF Accounts
      <4>4. b.condensed < Condensations(store') /\ Condensations(store') - 1 = Condensations(store)
        BY <4>1, <4>2, <4>3
      <4>5. OffBy(b, store', run'.result)
        BY <4>1, <4>3, <4>4 DEF OffBy
      <4> QED
        BY <4>1, <4>2, <4>4, <4>5 DEF Accounts
    <3>2. /\ Measuring => turn.breakdown \in Measurements
          /\ meter.breakdown # NoBreakdown => meter.breakdown \in Measurements
          /\ run.for \in Measurements
      BY <1>0, <2>1 DEF IdsTellApart, Measuring, Turns, NoTurn, Meters, Runs, Breakdowns, RunFits
    <3>3. run'.for = run.for
      BY <1>6, <2>2, <3>2, SinceTheCondensation
    <3>4. ~Reclaiming(meter')
      BY <1>0, <2>1 DEF EffectsHaveRun, Reclaiming, OutcomeIsForThisTurn
    <3> QED
      BY <1>0, <2>1, <3>1, <3>2, <3>3, <3>4 DEF GaugeAccounts, Measuring
  <2>3. CASE run'.pc # "condensed"
    <3>1. store' = store /\ run'.for = run.for
      <4>1. DOMAIN run = {"pc", "automatic", "for", "target", "pairs", "result"}
        BY <1>0 DEF Runs
      <4> QED
        BY <1>6, <2>3, <4>1 DEF Generates
    <3> QED
      BY <1>0, <2>1, <2>3, <3>1 DEF GaugeAccounts, Measuring, Accounts, Reclaiming, OutcomeIsForThisTurn
  <2> QED
    BY <2>2, <2>3
<1>7. CASE Selects \/ RunFails
  <2>1. /\ UNCHANGED <<store, meter, turn>> /\ run.pc # "idle"
        /\ run'.for = run.for /\ run'.pc # "condensed"
    <3>1. DOMAIN run = {"pc", "automatic", "for", "target", "pairs", "result"}
      BY <1>0 DEF Runs
    <3> QED
      BY <1>7, <3>1 DEF Selects, RunFails
  <2> QED
    BY <1>0, <2>1 DEF GaugeAccounts, Measuring, Accounts, Reclaiming, OutcomeIsForThisTurn
<1>8. CASE Types \/ Asks \/ TurnFails \/ UNCHANGED vars
  <2>1. UNCHANGED <<store, run, meter>> /\ (turn' = turn \/ ~Measuring')
    BY <1>8 DEF Types, Asks, TurnFails, vars, Measuring, NoTurn
  <2> QED
    BY <1>0, <2>1 DEF GaugeAccounts, Measuring, Accounts, Reclaiming, OutcomeIsForThisTurn
<1> QED
  BY <1>1, <1>2, <1>3, <1>4, <1>5, <1>6, <1>7, <1>8 DEF Next

-----------------------------------------------------------------------------
(* The theorems. *)

\* The initial state satisfies the invariant.
LEMMA InitIInv == Init => IInv
<1> SUFFICES ASSUME Init
             PROVE  IInv
  OBVIOUS
<1>1. TypeOK
  BY InitTypes
<1>2. /\ meter.breakdown = NoBreakdown /\ meter.busy = FALSE /\ meter.outcome = NoOutcome
      /\ run = NoRun /\ turn = NoTurn /\ spoiled = FALSE /\ left.turns = MaxTurns
  BY DEF Init
<1>3. /\ NoRun.pc = "idle" /\ NoRun.for = NoBreakdown /\ NoBreakdown.id = 0 /\ NoTurn.pc = "idle"
      /\ NoOutcome.for = 0 /\ NoOutcome.reclaimed = 0
  BY DEF NoRun, NoTurn, NoBreakdown, NoOutcome
<1>7. StoreFits
  <2>1. store.totals = <<0>>
    BY DEF Init
  <2> QED
    BY <2>1 DEF StoreFits, Segmented
<1>4. RunFits /\ BusyIsTheRun /\ SpoiledIsDisarmed
  BY <1>2, <1>3 DEF RunFits, BusyIsTheRun, SpoiledIsDisarmed
<1>5. IdsTellApart
  BY <1>2, <1>3, SizesAssumption DEF IdsTellApart, Measuring, Issued
<1>6. EffectsHaveRun /\ GaugeAccounts
  BY <1>2, <1>3 DEF EffectsHaveRun, GaugeAccounts, Sees, Measuring
<1> QED
  BY <1>1, <1>4, <1>5, <1>6, <1>7 DEF IInv

\* Everything the meter, the chat and the backend keep stays of its type, and the
\* invariant the other theorems stand on holds throughout.
THEOREM Invariance == Spec => []IInv
<1>1. ASSUME IInv, [Next]_vars
      PROVE  IInv'
  BY <1>1, TypeStep, StoreStep, RunFitsStep, IdsStep, EffectsStep, SpoiledStep, GaugeStep DEF IInv
<1> QED
  BY <1>1, InitIInv, PTL DEF Spec

\* However a run ends, the pane is not left busy without one, nor free beside one:
\* the busy flag of runCompaction, its three ends and the auto-fire effect.
THEOREM BusyIsTheRunAlways == Spec => []BusyIsTheRun
<1>1. IInv => BusyIsTheRun
  BY DEF IInv
<1> QED
  BY <1>1, Invariance, PTL

\* What the gauge shows after a condensation of a conversation that was measured whole,
\* beneath every window and with no read failing, is the history the store really holds,
\* the pairs remembered since the measurement aside (withReclaimedHistory).
THEOREM GaugeFollows == Spec => []GaugeFollowsTheStore
<1>1. ASSUME IInv
      PROVE  GaugeFollowsTheStore
  <2> DEFINE b == meter.breakdown
  <2> SUFFICES ASSUME b # NoBreakdown, Reclaiming(meter), b.whole,
                      b.condensed >= Condensations(store) - 1
               PROVE  Shown(meter, pane).hist = Greatest(0, Since(b, store))
    BY DEF GaugeFollowsTheStore, Adjusted, Reclaiming, Since
  <2>0. TypeOK /\ StoreFits /\ GaugeAccounts
    BY <1>1 DEF IInv
  <2>1. Shown(meter, pane).hist = Greatest(0, b.hist - meter.outcome.reclaimed)
    BY <2>0, ShownIsAMeasurement DEF TypeOK
  <2>2. b.condensed \in Int /\ Condensations(store) \in Int
    BY <2>0, HistoryIsNatural DEF TypeOK, Meters, Breakdowns, Measurements
  <2>3. b.condensed < Condensations(store) /\ OffBy(b, store, meter.outcome.reclaimed)
    BY <2>0 DEF GaugeAccounts
  <2>4. b.condensed = Condensations(store) - 1
    BY <2>2, <2>3
  <2> QED
    BY <2>1, <2>3, <2>4 DEF OffBy
<1> QED
  BY <1>1, Invariance, PTL

\* "Skipped, not deferred into a late fire": no step fires an automatic run beside
\* another run, at the end of one, or after an automatic run ended badly.
THEOREM NothingIsUnasked == Spec => NothingUnasked
<1>1. ASSUME IInv, [Next]_vars, run.pc # "idle" \/ spoiled
      PROVE  autos' = autos
  <2>0. /\ TypeOK /\ BusyIsTheRun /\ SpoiledIsDisarmed /\ run \in Runs /\ autos \in Fired
    BY <1>1 DEF IInv, TypeOK
  <2>1. CASE MeasuresDocument \/ AnswerArrives
    <3>1. PICK m \in Meters, p \in Panes :
            AfterEffects(m, p, run) /\ m.busy = meter.busy /\ m.disarmed = meter.disarmed
      BY <1>1, <2>1, RenderBesideARun
    <3>2. ~Fires(m, p)
      BY <1>1, <2>0, <3>1 DEF Fires, BusyIsTheRun, SpoiledIsDisarmed
    <3> QED
      BY <2>0, <3>1, <3>2, EffectsLemma
  <2>2. CASE Condensed \/ Declined \/ Failed
    <3>1. PICK m \in Meters :
            /\ AfterEffects(m, pane, NoRun)
            /\ m.breakdown = meter.breakdown /\ m.firedFor = meter.firedFor
            /\ run.pc \in {"condensed", "nothing", "refused", "failed"}
      BY <1>1, <2>2, RenderAtAnEnd
    <3>2. ~Fires(m, pane)
      BY <1>1, <3>1, NothingFiresAtAnEnd DEF Fires
    <3> QED
      BY <3>1, <3>2 DEF AfterEffects
  <2>3. CASE \/ Types \/ Condense \/ Asks \/ Measures \/ Remembers \/ TurnFails
             \/ Selects \/ Generates \/ RunFails \/ UNCHANGED vars
    BY <2>3 DEF Types, Condense, Asks, Measures, Remembers, TurnFails, Selects, Generates,
                RunFails, vars
  <2> QED
    BY <1>1, <2>1, <2>2, <2>3 DEF Next
<1>2. IInv /\ [Next]_vars => [run.pc # "idle" \/ spoiled => autos' = autos]_vars
  BY <1>1
<1> QED
  BY <1>2, Invariance, PTL DEF Spec, NothingUnasked

\* However a run ends while a measurement is on screen, its end is shown on it, an
\* error never beneath an older note: no automatic run can start in the step that ends
\* one and wipe it (shownFor, compactErrorFor).
THEOREM EndsAreShown == Spec => EveryEndIsShown
<1>1. ASSUME IInv, [Next]_vars, Ends, meter.breakdown # NoBreakdown
      PROVE  EndShown
  <2>0. /\ TypeOK /\ run \in Runs /\ autos \in Fired /\ pane \in Panes /\ BusyIsTheRun
        /\ DOMAIN run = {"pc", "automatic", "for", "target", "pairs", "result"}
        /\ run.pc \in {"nothing", "refused", "condensed", "failed"} /\ run'.pc \in {"idle", "sent"}
    BY <1>1 DEF IInv, TypeOK, Runs, Ends
  <2>1. CASE Condensed \/ Declined \/ Failed
    <3>1. PICK m \in Meters :
            /\ AfterEffects(m, pane, NoRun)
            /\ m.breakdown = meter.breakdown /\ m.firedFor = meter.firedFor
            /\ run.pc = "failed" => m.outcome = NoOutcome /\ m.failure.shown = meter.breakdown.id
            /\ run.pc # "failed" => m.outcome.shown = meter.breakdown.id
      BY <1>1, <2>1, RenderAtAnEnd
    <3>2. ~Fires(m, pane)
      BY <1>1, <2>0, <3>1, NothingFiresAtAnEnd DEF Fires
    <3>3. NoRun \in Runs
      BY DEF NoRun, Runs, Breakdowns
    <3>4. /\ meter'.breakdown = m.breakdown /\ meter'.outcome = m.outcome
          /\ meter'.failure = m.failure
      BY <2>0, <3>1, <3>2, <3>3, EffectsLemma
    <3> QED
      BY <1>1, <3>1, <3>4 DEF EndShown
  <2>2. CASE MeasuresDocument \/ AnswerArrives
    <3>1. PICK m \in Meters, p \in Panes : AfterEffects(m, p, run) /\ m.busy = meter.busy
      BY <1>1, <2>2, RenderBesideARun
    <3>2. ~Fires(m, p)
      BY <1>1, <2>0, <3>1 DEF Fires, BusyIsTheRun
    <3>3. run' = run
      BY <3>1, <3>2 DEF AfterEffects
    <3> QED
      BY <2>0, <3>3
  <2>3. CASE Selects \/ Generates \/ Condense
    BY <2>0, <2>3 DEF Selects, Generates, Condense, BusyIsTheRun
  <2>4. CASE RunFails
    BY <2>0, <2>4 DEF RunFails
  <2>5. CASE Types \/ Asks \/ Measures \/ Remembers \/ TurnFails \/ UNCHANGED vars
    BY <2>0, <2>5 DEF Types, Asks, Measures, Remembers, TurnFails, vars
  <2> QED
    BY <1>1, <2>1, <2>2, <2>3, <2>4, <2>5 DEF Next
<1>2. IInv /\ [Next]_vars => [Ends /\ meter.breakdown # NoBreakdown => EndShown]_vars
  BY <1>1
<1> QED
  BY <1>2, Invariance, PTL DEF Spec, EveryEndIsShown

=============================================================================
