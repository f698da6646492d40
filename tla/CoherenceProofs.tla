-------------------------- MODULE CoherenceProofs ---------------------------
(***************************************************************************)
(* Proofs that the accounts that describe the same thing agree: the three  *)
(* vectors of a tournament with each other, the counters with what they    *)
(* count, and a tournament with its Entry accounts.                        *)
(*                                                                         *)
(* CohInv is the inductive invariant.  Filled and Phased speak of the      *)
(* Tournament account alone, Linked of the account and its entries.  When  *)
(* close_reveal may be given another tournament's entry (ForeignRefund),   *)
(* Linked holds until the reveal phase ends, which is all that the start   *)
(* of the matches needs; otherwise it holds throughout.                    *)
(***************************************************************************)
EXTENDS LifecycleProofs

\* The owners of the open entries, and those of them with a strategy.
Open(en) == {p \in Players : en[p].open}
Shown(en) == {p \in Players : en[p].open /\ en[p].revealed}

Early == {"Registration", "Reveal"}

\* The three vectors agree with each other and with the counters.
Filled(tr) ==
    /\ Len(tr.scores) = Len(tr.players) /\ Len(tr.strategies) = Len(tr.players)
    /\ Len(tr.players) <= U16Max
    /\ tr.participant_count = Cardinality(ActiveSlots(tr))
    /\ tr.pool = tr.participant_count * tr.stake
    /\ \A i \in Slots(tr) : tr.players[i + 1] = NoPlayer => tr.strategies[i + 1] = Unrevealed

\* The schedule is one the pairing is defined for, and every participant can play.
Scheduled(tr) ==
    /\ tr.participant_count >= 2 /\ tr.participant_count % 2 = 0
    /\ tr.randomness_seed \in Seeds
    /\ tr.matches_per_player \in 1..(tr.participant_count - 1)
    /\ tr.matches_total = CalculateMatchCount(tr.participant_count, tr.matches_per_player)
    /\ \A i \in ActiveSlots(tr) : tr.strategies[i + 1] # Unrevealed

\* What a tournament has reached in each phase.
Phased(tr) ==
    /\ tr.state = "Absent" => tr.players = << >>
    /\ tr.state \in Live => tr.claims_processed = 0
    /\ tr.state \in Early => tr.matches_completed = 0
    /\ tr.state = "Reveal" => tr.participant_count >= 2
    /\ tr.state = "Running" => tr.matches_completed <= tr.matches_total
    /\ tr.state \in {"Running", "Payout"} => Scheduled(tr)

\* Entry e of player p describes slot e.index.
Owns(tr, e, p) ==
    /\ e.index \in Slots(tr)
    /\ tr.players[e.index + 1] = p
    /\ tr.scores[e.index + 1] = e.score
    /\ tr.strategies[e.index + 1] = IF e.revealed THEN e.strategy ELSE Unrevealed

\* The entries en are those of tournament tr.
Linked(tr, en) ==
    /\ \A p \in Players : en[p].open => Owns(tr, en[p], p)
    /\ tr.entries_remaining = Cardinality(Open(en))
    /\ tr.state \in Live =>
          /\ \A i \in ActiveSlots(tr) :
                en[tr.players[i + 1]].open /\ en[tr.players[i + 1]].index = i
          /\ tr.reveals_completed = Cardinality(Shown(en))
          /\ tr.entries_remaining = tr.participant_count

\* Tournament tr and its entries en agree.
Coherent(tr, en) ==
    /\ Filled(tr)
    /\ Phased(tr)
    /\ tr.state \in Early \/ ~ForeignRefund => Linked(tr, en)

CohInv == \A t \in TournamentIds : Coherent(tournament[t], entry[t])

-----------------------------------------------------------------------------
(***************************************************************************)
(* Counting                                                                *)
(***************************************************************************)
\* One element more, one element less.
LEMMA CountStep ==
    ASSUME NEW S, IsFiniteSet(S), NEW x
    PROVE  /\ Cardinality(S) \in Nat
           /\ x \notin S => Cardinality(S \cup {x}) = Cardinality(S) + 1
           /\ x \in S => Cardinality(S \ {x}) = Cardinality(S) - 1
  BY FS_CardinalityType, FS_AddElement, FS_RemoveElement

LEMMA OpenFinite ==
    ASSUME NEW en
    PROVE  IsFiniteSet(Open(en)) /\ IsFiniteSet(Shown(en)) /\ Shown(en) \subseteq Open(en)
<1>1. Open(en) \in SUBSET Players /\ Shown(en) \in SUBSET Players
  BY DEF Open, Shown
<1>2. IsFiniteSet(Players)
  BY ActorsAssumption
<1>3. IsFiniteSet(Open(en)) /\ IsFiniteSet(Shown(en))
  BY <1>1, <1>2, FS_Subset
<1> QED
  BY <1>3 DEF Open, Shown

LEMMA ActiveFinite ==
    ASSUME NEW tr, Len(tr.players) \in Nat
    PROVE  /\ IsFiniteSet(ActiveSlots(tr)) /\ Cardinality(ActiveSlots(tr)) \in Nat
           /\ Cardinality(ActiveSlots(tr)) <= Len(tr.players)
<1> DEFINE m == Len(tr.players) - 1
<1>0. 0 \in Int /\ m \in Int /\ m >= -1
  OBVIOUS
<1>1. IsFiniteSet(Slots(tr)) /\ Cardinality(Slots(tr)) = Len(tr.players)
  <2>1. IsFiniteSet(0..m) /\ Cardinality(0..m) = IF 0 > m THEN 0 ELSE m - 0 + 1
    BY ONLY <1>0, FS_Interval
  <2>2. Slots(tr) = 0..m
    BY DEF Slots
  <2>3. (IF 0 > m THEN 0 ELSE m - 0 + 1) = Len(tr.players)
    OBVIOUS
  <2> QED
    BY ONLY <2>1, <2>2, <2>3
<1>2. ActiveSlots(tr) \in SUBSET Slots(tr)
  BY DEF ActiveSlots
<1> QED
  BY <1>1, <1>2, FS_Subset, FS_CardinalityType

\* A new entry.
LEMMA OpenAdded ==
    ASSUME NEW en \in [Players -> EntryType], NEW p \in Players, ~en[p].open,
           NEW e, e.open, ~e.revealed
    PROVE  LET new == [en EXCEPT ![p] = e]
           IN  /\ Cardinality(Open(new)) = Cardinality(Open(en)) + 1
               /\ Shown(new) = Shown(en)
<1> DEFINE new == [en EXCEPT ![p] = e]
<1>1. \A q \in Players : new[q] = IF q = p THEN e ELSE en[q]
  OBVIOUS
<1> HIDE DEF new
<1>2. Open(new) = Open(en) \cup {p} /\ p \notin Open(en) /\ Shown(new) = Shown(en)
  BY <1>1 DEF Open, Shown
<1> QED
  BY <1>2, OpenFinite, CountStep DEF new

\* A closed entry.
LEMMA OpenClosed ==
    ASSUME NEW en \in [Players -> EntryType], NEW p \in Players, en[p].open,
           NEW e, ~e.open
    PROVE  LET new == [en EXCEPT ![p] = e]
           IN  /\ Cardinality(Open(new)) = Cardinality(Open(en)) - 1
               /\ en[p].revealed => Cardinality(Shown(new)) = Cardinality(Shown(en)) - 1
               /\ ~en[p].revealed => Shown(new) = Shown(en)
<1> DEFINE new == [en EXCEPT ![p] = e]
<1>1. \A q \in Players : new[q] = IF q = p THEN e ELSE en[q]
  OBVIOUS
<1> HIDE DEF new
<1>2. Open(new) = Open(en) \ {p} /\ p \in Open(en)
  BY <1>1 DEF Open
<1>3. en[p].revealed => Shown(new) = Shown(en) \ {p} /\ p \in Shown(en)
  BY <1>1 DEF Shown
<1>4. ~en[p].revealed => Shown(new) = Shown(en)
  BY <1>1 DEF Shown
<1> QED
  BY <1>2, <1>3, <1>4, OpenFinite, CountStep DEF new

\* An entry that got its strategy.
LEMMA OpenShown ==
    ASSUME NEW en \in [Players -> EntryType], NEW p \in Players, en[p].open,
           ~en[p].revealed, NEW e, e.open, e.revealed
    PROVE  LET new == [en EXCEPT ![p] = e]
           IN  /\ Open(new) = Open(en)
               /\ Cardinality(Shown(new)) = Cardinality(Shown(en)) + 1
<1> DEFINE new == [en EXCEPT ![p] = e]
<1>1. \A q \in Players : new[q] = IF q = p THEN e ELSE en[q]
  OBVIOUS
<1> HIDE DEF new
<1>2. Open(new) = Open(en) /\ Shown(new) = Shown(en) \cup {p} /\ p \notin Shown(en)
  BY <1>1 DEF Open, Shown
<1> QED
  BY <1>2, OpenFinite, CountStep DEF new

\* Vectors by slot: a slot pushed, a slot overwritten.
LEMMA SlotPushed ==
    ASSUME NEW S, NEW s \in Seq(S), NEW e \in S
    PROVE  /\ Len(Append(s, e)) = Len(s) + 1
           /\ \A i \in 0..(Len(s) - 1) : Append(s, e)[i + 1] = s[i + 1]
           /\ Append(s, e)[Len(s) + 1] = e
<1>1. Len(s) \in Nat
  OBVIOUS
<1>2. \A i \in 0..(Len(s) - 1) : i + 1 \in 1..Len(s)
  BY <1>1
<1> QED
  BY <1>2, AppendProperties

LEMMA SlotWritten ==
    ASSUME NEW S, NEW s \in Seq(S), NEW e \in S, NEW i \in 0..(Len(s) - 1)
    PROVE  /\ Len([s EXCEPT ![i + 1] = e]) = Len(s)
           /\ \A j \in 0..(Len(s) - 1) :
                 [s EXCEPT ![i + 1] = e][j + 1] = IF j = i THEN e ELSE s[j + 1]
<1>1. Len(s) \in Nat
  OBVIOUS
<1>2. \A j \in 0..(Len(s) - 1) : j + 1 \in 1..Len(s) /\ (j + 1 = i + 1 <=> j = i)
  BY <1>1
<1>3. /\ Len([s EXCEPT ![i + 1] = e]) = Len(s)
      /\ \A j \in 1..Len(s) : [s EXCEPT ![i + 1] = e][j] = IF j = i + 1 THEN e ELSE s[j]
  BY <1>2, ExceptSeq
<1> QED
  BY <1>2, <1>3

-----------------------------------------------------------------------------
(***************************************************************************)
(* The vectors and the counters of a Tournament account                    *)
(***************************************************************************)
\* An update that pushes a slot for p, empties slot i, or gives it a strategy.
PushesSlot(new, tr, p) ==
    /\ new.players = Append(tr.players, p)
    /\ new.scores = Append(tr.scores, 0)
    /\ new.strategies = Append(tr.strategies, Unrevealed)
    /\ new.participant_count = tr.participant_count + 1
    /\ new.pool = tr.pool + tr.stake /\ new.stake = tr.stake

EmptiesSlot(new, tr, i) ==
    /\ new.players = [tr.players EXCEPT ![i + 1] = NoPlayer]
    /\ new.scores = tr.scores
    /\ new.strategies = [tr.strategies EXCEPT ![i + 1] = Unrevealed]
    /\ new.participant_count = tr.participant_count - 1
    /\ new.pool = tr.pool - tr.stake /\ new.stake = tr.stake

FillsSlot(new, tr, i, strategy) ==
    /\ SameStakes(new, tr) /\ SameTerms(new, tr) /\ SamePhase(new, tr)
    /\ new.players = tr.players /\ new.scores = tr.scores
    /\ new.strategies = [tr.strategies EXCEPT ![i + 1] = strategy]

\* A slot that is not a hole holds a player.
LEMMA SlotPlayer ==
    ASSUME NEW tr \in TournamentType, NEW i \in ActiveSlots(tr)
    PROVE  tr.players[i + 1] \in Players /\ i \in Slots(tr) /\ i \in Nat
<1>1. tr.players \in Seq(Players \cup {NoPlayer}) /\ Len(tr.players) \in Nat
  BY Fields
<1>2. i \in Slots(tr) /\ tr.players[i + 1] # NoPlayer
  BY DEF ActiveSlots
<1>3. i \in Nat /\ i + 1 \in 1..Len(tr.players)
  BY ONLY <1>1, <1>2 DEF Slots
<1> QED
  BY ONLY <1>1, <1>2, <1>3

LEMMA FilledSame ==
    ASSUME NEW tr, NEW new, Filled(tr), SameStakes(new, tr), SameTerms(new, tr),
           new.players = tr.players, new.strategies = tr.strategies,
           Len(new.scores) = Len(tr.scores)
    PROVE  Filled(new)
  BY DEF Filled, SameStakes, SameTerms, ActiveSlots, Slots

\* No slot at all.
LEMMA FilledEmpty ==
    ASSUME NEW new, new.players = << >>, new.scores = << >>, new.strategies = << >>,
           new.participant_count = 0, new.pool = 0, new.stake \in Nat
    PROVE  Filled(new)
<1>1. Slots(new) = {} /\ ActiveSlots(new) = {}
  BY DEF Slots, ActiveSlots
<1>2. Cardinality({}) = 0
  BY FS_EmptySet
<1> QED
  BY <1>1, <1>2, AmountsAssumption DEF Filled

\* One more slot, taken by p.
LEMMA FilledEntered ==
    ASSUME NEW tr \in TournamentType, NEW new, NEW p \in Players,
           Filled(tr), Len(tr.players) < U16Max, PushesSlot(new, tr, p)
    PROVE  /\ Filled(new)
           /\ Slots(new) = Slots(tr) \cup {Len(tr.players)}
           /\ ActiveSlots(new) = ActiveSlots(tr) \cup {Len(tr.players)}
           /\ Len(tr.players) \notin Slots(tr)
<1> DEFINE n == Len(tr.players)
<1>0. /\ new.players = Append(tr.players, p)
      /\ new.scores = Append(tr.scores, 0)
      /\ new.strategies = Append(tr.strategies, Unrevealed)
  BY DEF PushesSlot
<1>a. /\ new.participant_count = tr.participant_count + 1
      /\ new.pool = tr.pool + tr.stake /\ new.stake = tr.stake
  BY DEF PushesSlot
<1>1. /\ tr.players \in Seq(Players \cup {NoPlayer}) /\ tr.scores \in Seq(Nat)
      /\ tr.strategies \in Seq(0..Custom \cup {Unrevealed})
      /\ n \in Nat /\ tr.participant_count \in Nat /\ tr.stake \in Nat /\ U16Max \in Nat
  BY Fields, AmountsAssumption
<1>2. /\ Len(tr.scores) = n /\ Len(tr.strategies) = n
      /\ tr.participant_count = Cardinality(ActiveSlots(tr))
      /\ tr.pool = tr.participant_count * tr.stake
      /\ \A i \in 0..(n - 1) :
            tr.players[i + 1] = NoPlayer => tr.strategies[i + 1] = Unrevealed
  BY DEF Filled, Slots
<1>3. /\ Len(new.players) = n + 1
      /\ \A i \in 0..(n - 1) : new.players[i + 1] = tr.players[i + 1]
      /\ new.players[n + 1] = p
  BY ONLY <1>0, <1>1, SlotPushed, p \in Players, SMTT(40)
<1>4. Len(new.scores) = n + 1
  BY ONLY <1>0, <1>1, <1>2, SlotPushed, SMTT(40)
<1>5. /\ Len(new.strategies) = n + 1
      /\ \A i \in 0..(n - 1) : new.strategies[i + 1] = tr.strategies[i + 1]
      /\ new.strategies[n + 1] = Unrevealed
  BY ONLY <1>0, <1>1, <1>2, SlotPushed, SMTT(40)
<1>6. Slots(new) = Slots(tr) \cup {n} /\ n \notin Slots(tr)
  BY <1>1, <1>3 DEF Slots
<1>7. ActiveSlots(new) = ActiveSlots(tr) \cup {n}
  <2>1. p # NoPlayer
    BY ActorsAssumption
  <2> QED
    BY <1>3, <1>6, <2>1 DEF ActiveSlots, Slots
<1>8. new.participant_count = Cardinality(ActiveSlots(new))
  <2>1. IsFiniteSet(ActiveSlots(tr)) /\ n \notin ActiveSlots(tr)
    BY <1>1, <1>6, ActiveFinite DEF ActiveSlots
  <2> QED
    BY <1>a, <1>2, <1>7, <2>1, CountStep
<1>9. new.pool = new.participant_count * new.stake
  <2>1. (tr.participant_count + 1) * tr.stake = tr.participant_count * tr.stake + tr.stake
    BY ONLY <1>1, MulStep
  <2> QED
    BY <1>a, <1>2, <2>1
<1>10. \A i \in Slots(new) : new.players[i + 1] = NoPlayer => new.strategies[i + 1] = Unrevealed
  BY <1>2, <1>3, <1>5, <1>6, SMTT(40) DEF Slots
<1>11. n + 1 <= U16Max
  BY <1>1
<1>12. Filled(new)
  BY ONLY <1>3, <1>4, <1>5, <1>8, <1>9, <1>10, <1>11 DEF Filled
<1> QED
  BY <1>6, <1>7, <1>12

\* A slot that becomes a hole.
LEMMA FilledHole ==
    ASSUME NEW tr \in TournamentType, NEW new, NEW i \in ActiveSlots(tr), Filled(tr),
           EmptiesSlot(new, tr, i)
    PROVE  /\ Filled(new)
           /\ Slots(new) = Slots(tr)
           /\ ActiveSlots(new) = ActiveSlots(tr) \ {i}
           /\ \A j \in Slots(tr) \ {i} : /\ new.players[j + 1] = tr.players[j + 1]
                                         /\ new.strategies[j + 1] = tr.strategies[j + 1]
<1> DEFINE n == Len(tr.players)
<1>0. /\ new.players = [tr.players EXCEPT ![i + 1] = NoPlayer]
      /\ new.scores = tr.scores
      /\ new.strategies = [tr.strategies EXCEPT ![i + 1] = Unrevealed]
  BY DEF EmptiesSlot
<1>a. /\ new.participant_count = tr.participant_count - 1 /\ new.scores = tr.scores
      /\ new.pool = tr.pool - tr.stake /\ new.stake = tr.stake
  BY DEF EmptiesSlot
<1>1. /\ tr.players \in Seq(Players \cup {NoPlayer})
      /\ tr.strategies \in Seq(0..Custom \cup {Unrevealed})
      /\ n \in Nat /\ tr.participant_count \in Nat /\ tr.stake \in Nat
  BY Fields
<1>2. /\ Len(tr.scores) = n /\ Len(tr.strategies) = n /\ n <= U16Max
      /\ tr.participant_count = Cardinality(ActiveSlots(tr))
      /\ tr.pool = tr.participant_count * tr.stake
      /\ \A j \in 0..(n - 1) :
            tr.players[j + 1] = NoPlayer => tr.strategies[j + 1] = Unrevealed
  BY DEF Filled, Slots
<1>3. i \in 0..(n - 1) /\ i \in ActiveSlots(tr)
  BY DEF ActiveSlots, Slots
<1>4. /\ Len(new.players) = n
      /\ \A j \in 0..(n - 1) :
            new.players[j + 1] = IF j = i THEN NoPlayer ELSE tr.players[j + 1]
  BY ONLY <1>0, <1>1, <1>3, SlotWritten
<1>5. /\ Len(new.strategies) = n
      /\ \A j \in 0..(n - 1) :
            new.strategies[j + 1] = IF j = i THEN Unrevealed ELSE tr.strategies[j + 1]
  BY ONLY <1>0, <1>1, <1>2, <1>3, SlotWritten
<1>6. Slots(new) = Slots(tr)
  BY <1>4 DEF Slots
<1>7. ActiveSlots(new) = ActiveSlots(tr) \ {i}
  BY <1>3, <1>4, <1>6 DEF ActiveSlots, Slots
<1>8. new.participant_count = Cardinality(ActiveSlots(new)) /\ tr.participant_count >= 1
  <2>1. IsFiniteSet(ActiveSlots(tr))
    BY <1>1, ActiveFinite
  <2>2. Cardinality(ActiveSlots(new)) = Cardinality(ActiveSlots(tr)) - 1
    BY <1>3, <1>7, <2>1, CountStep
  <2>3. Cardinality(ActiveSlots(tr)) # 0
    BY <1>3, <2>1, FS_EmptySet
  <2> QED
    BY <1>a, <1>1, <1>2, <2>2, <2>3
<1>9. new.pool = new.participant_count * new.stake
  BY <1>a, <1>1, <1>2, <1>8, MulStep
<1>10. \A j \in Slots(new) : new.players[j + 1] = NoPlayer => new.strategies[j + 1] = Unrevealed
  BY <1>2, <1>4, <1>5, <1>6 DEF Slots
<1>11. \A j \in Slots(tr) \ {i} : /\ new.players[j + 1] = tr.players[j + 1]
                                  /\ new.strategies[j + 1] = tr.strategies[j + 1]
  BY <1>4, <1>5 DEF Slots
<1> QED
  BY <1>a, <1>2, <1>4, <1>5, <1>6, <1>7, <1>8, <1>9, <1>10, <1>11 DEF Filled

\* A slot that gets its strategy.
LEMMA FilledRevealed ==
    ASSUME NEW tr \in TournamentType, NEW new, NEW i \in ActiveSlots(tr), Filled(tr),
           NEW strategy \in 0..Custom,
           FillsSlot(new, tr, i, strategy)
    PROVE  /\ Filled(new)
           /\ \A j \in Slots(tr) :
                 new.strategies[j + 1] = IF j = i THEN strategy ELSE tr.strategies[j + 1]
<1> DEFINE n == Len(tr.players)
<1>0. new.strategies = [tr.strategies EXCEPT ![i + 1] = strategy]
  BY DEF FillsSlot
<1>a. /\ new.players = tr.players /\ new.scores = tr.scores
      /\ SameStakes(new, tr) /\ SameTerms(new, tr)
  BY DEF FillsSlot
<1>1. tr.strategies \in Seq(0..Custom \cup {Unrevealed}) /\ Len(tr.strategies) = n
  BY Fields DEF Filled
<1>2. i \in 0..(n - 1) /\ tr.players[i + 1] # NoPlayer
  BY DEF ActiveSlots, Slots
<1>3. /\ Len(new.strategies) = n
      /\ \A j \in 0..(n - 1) :
            new.strategies[j + 1] = IF j = i THEN strategy ELSE tr.strategies[j + 1]
  BY ONLY <1>0, <1>1, <1>2, SlotWritten, strategy \in 0..Custom
<1>4. Slots(new) = Slots(tr) /\ ActiveSlots(new) = ActiveSlots(tr)
  BY <1>a DEF Slots, ActiveSlots
<1> QED
  BY <1>a, <1>2, <1>3, <1>4 DEF Filled, Slots, SameStakes, SameTerms

-----------------------------------------------------------------------------
(***************************************************************************)
(* A tournament and its entries                                            *)
(***************************************************************************)
\* An open entry owns a slot that is not a hole.
LEMMA OwnedActive ==
    ASSUME NEW tr, NEW en, Linked(tr, en), NEW p \in Players, en[p].open
    PROVE  en[p].index \in ActiveSlots(tr) /\ Owns(tr, en[p], p)
  BY ActorsAssumption DEF Linked, Owns, ActiveSlots

LEMMA LinkedSame ==
    ASSUME NEW tr, NEW new, NEW en, Linked(tr, en), SameSlots(new, tr),
           new.entries_remaining = tr.entries_remaining,
           new.reveals_completed = tr.reveals_completed,
           new.participant_count = tr.participant_count,
           new.state \in Live => tr.state \in Live
    PROVE  Linked(new, en)
<1>1. /\ new.players = tr.players /\ new.scores = tr.scores
      /\ new.strategies = tr.strategies
  BY DEF SameSlots
<1>2. Slots(new) = Slots(tr) /\ ActiveSlots(new) = ActiveSlots(tr)
  BY <1>1, Zenon DEF Slots, ActiveSlots
<1>3. \A p : Owns(tr, en[p], p) => Owns(new, en[p], p)
  BY <1>1, <1>2 DEF Owns
<1>4. \A p \in Players : en[p].open => Owns(new, en[p], p)
  BY <1>3, Zenon DEF Linked
<1>5. new.entries_remaining = Cardinality(Open(en))
  BY DEF Linked
<1>6. new.state \in Live =>
          /\ \A i \in ActiveSlots(new) : en[new.players[i + 1]].open
                                         /\ en[new.players[i + 1]].index = i
          /\ new.reveals_completed = Cardinality(Shown(en))
          /\ new.entries_remaining = new.participant_count
  <2> SUFFICES ASSUME new.state \in Live
               PROVE  /\ \A i \in ActiveSlots(tr) : en[tr.players[i + 1]].open
                                                     /\ en[tr.players[i + 1]].index = i
                      /\ tr.reveals_completed = Cardinality(Shown(en))
                      /\ tr.entries_remaining = tr.participant_count
    BY <1>1, <1>2, Zenon
  <2> QED BY Zenon DEF Linked
<1> QED BY <1>4, <1>5, <1>6, Zenon DEF Linked

LEMMA LinkedEmpty ==
    ASSUME NEW new, NEW en, Open(en) = {}, new.players = << >>,
           new.entries_remaining = 0, new.participant_count = 0,
           new.reveals_completed = 0
    PROVE  Linked(new, en)
<1>1. Shown(en) = {} /\ Cardinality({}) = 0
  BY FS_EmptySet DEF Open, Shown
<1>2. ActiveSlots(new) = {}
  BY DEF ActiveSlots, Slots
<1> QED
  BY <1>1, <1>2 DEF Linked, Open

\* enter_tournament
LEMMA LinkedEntered ==
    ASSUME NEW tr \in TournamentType, NEW new, NEW p \in Players, NEW e,
           NEW en \in [Players -> EntryType],
           Filled(tr), Linked(tr, en), tr.state \in Live, Len(tr.players) < U16Max,
           ~en[p].open, e.open, ~e.revealed, e.index = Len(tr.players), e.score = 0,
           PushesSlot(new, tr, p),
           new.entries_remaining = tr.entries_remaining + 1,
           new.reveals_completed = tr.reveals_completed
    PROVE  Linked(new, [en EXCEPT ![p] = e])
<1> DEFINE n == Len(tr.players)
           ne == [en EXCEPT ![p] = e]
<1>0. /\ new.players = Append(tr.players, p)
      /\ new.scores = Append(tr.scores, 0)
      /\ new.strategies = Append(tr.strategies, Unrevealed)
  BY DEF PushesSlot
<1>1. /\ tr.players \in Seq(Players \cup {NoPlayer}) /\ tr.scores \in Seq(Nat)
      /\ tr.strategies \in Seq(0..Custom \cup {Unrevealed}) /\ n \in Nat
  BY Fields
<1>2. Len(tr.scores) = n /\ Len(tr.strategies) = n
  BY DEF Filled
<1>3. /\ \A i \in 0..(n - 1) : new.players[i + 1] = tr.players[i + 1]
      /\ new.players[n + 1] = p
  BY ONLY <1>0, <1>1, SlotPushed, p \in Players
<1>4. /\ \A i \in 0..(n - 1) : new.scores[i + 1] = tr.scores[i + 1]
      /\ new.scores[n + 1] = 0
  BY ONLY <1>0, <1>1, <1>2, SlotPushed
<1>5. /\ \A i \in 0..(n - 1) : new.strategies[i + 1] = tr.strategies[i + 1]
      /\ new.strategies[n + 1] = Unrevealed
  BY ONLY <1>0, <1>1, <1>2, SlotPushed
<1>6. /\ Slots(new) = Slots(tr) \cup {n} /\ n \notin Slots(tr)
      /\ ActiveSlots(new) = ActiveSlots(tr) \cup {n}
  BY FilledEntered
<1>7. \A q \in Players : ne[q] = IF q = p THEN e ELSE en[q]
  OBVIOUS
<1>8. Cardinality(Open(ne)) = Cardinality(Open(en)) + 1 /\ Shown(ne) = Shown(en)
  BY OpenAdded
<1> HIDE DEF ne
<1>9. ASSUME NEW q \in Players, ne[q].open PROVE Owns(new, ne[q], q)
  <2>1. CASE q = p
    <3>1. ne[q] = e /\ e.index = n /\ e.score = 0 /\ ~e.revealed /\ n \in Slots(new)
      BY <1>6, <1>7, <2>1
    <3> QED
      BY ONLY <1>3, <1>4, <1>5, <2>1, <3>1 DEF Owns
  <2>2. CASE q # p
    <3>1. ne[q] = en[q] /\ Owns(tr, en[q], q)
      BY <1>7, <1>9, <2>2 DEF Linked
    <3>2. en[q].index \in 0..(n - 1)
      BY <3>1 DEF Owns, Slots
    <3> QED
      BY ONLY <1>3, <1>4, <1>5, <1>6, <3>1, <3>2, SMTT(40) DEF Owns
  <2> QED
    BY <2>1, <2>2
<1>10. ASSUME NEW i \in ActiveSlots(new)
       PROVE  ne[new.players[i + 1]].open /\ ne[new.players[i + 1]].index = i
  <2>1. CASE i = n
    BY <1>3, <1>7, <2>1
  <2>2. CASE i # n
    <3>1. i \in ActiveSlots(tr) /\ i \in 0..(n - 1)
      BY <1>6, <2>2 DEF ActiveSlots, Slots
    <3> DEFINE q == tr.players[i + 1]
    <3>2. q \in Players
      BY <1>1, <3>1 DEF ActiveSlots
    <3>3. new.players[i + 1] = q /\ en[q].open /\ en[q].index = i
      BY <1>3, <3>1 DEF Linked
    <3>4. q # p
      BY <3>3
    <3> QED
      BY <1>7, <3>2, <3>3, <3>4
  <2> QED
    BY <2>1, <2>2
<1> QED
  BY <1>8, <1>9, <1>10, ZenonT(60) DEF Linked, ne, PushesSlot

\* reveal_strategy and forfeit_unrevealed
LEMMA LinkedRevealed ==
    ASSUME NEW tr \in TournamentType, NEW new, NEW p \in Players, NEW e,
           NEW en \in [Players -> EntryType], NEW strategy \in 0..Custom,
           Filled(tr), Linked(tr, en),
           en[p].open, ~en[p].revealed, e.open, e.revealed, e.strategy = strategy,
           e.index = en[p].index, e.score = en[p].score,
           FillsSlot(new, tr, en[p].index, strategy),
           new.entries_remaining = tr.entries_remaining,
           new.reveals_completed = tr.reveals_completed + 1
    PROVE  Linked(new, [en EXCEPT ![p] = e]) /\ Filled(new)
<1> DEFINE i == en[p].index
           ne == [en EXCEPT ![p] = e]
<1>0. /\ new.players = tr.players /\ new.scores = tr.scores
      /\ SamePhase(new, tr) /\ SameStakes(new, tr)
  BY DEF FillsSlot
<1>1. i \in ActiveSlots(tr) /\ Owns(tr, en[p], p)
  BY OwnedActive
<1>2. /\ Filled(new)
      /\ \A j \in Slots(tr) :
            new.strategies[j + 1] = IF j = i THEN strategy ELSE tr.strategies[j + 1]
  BY <1>1, FilledRevealed
<1>3. \A q \in Players : ne[q] = IF q = p THEN e ELSE en[q]
  OBVIOUS
<1>4. Open(ne) = Open(en) /\ Cardinality(Shown(ne)) = Cardinality(Shown(en)) + 1
  BY OpenShown
<1>5. Slots(new) = Slots(tr) /\ ActiveSlots(new) = ActiveSlots(tr)
  BY <1>0 DEF Slots, ActiveSlots
<1> HIDE DEF ne
<1>6. ASSUME NEW q \in Players, ne[q].open PROVE Owns(new, ne[q], q)
  <2>1. CASE q = p
    BY <1>0, <1>1, <1>2, <1>3, <1>5, <2>1 DEF Owns
  <2>2. CASE q # p
    <3>1. ne[q] = en[q] /\ Owns(tr, en[q], q)
      BY <1>3, <1>6, <2>2 DEF Linked
    <3>2. en[q].index # i
      BY <1>1, <2>2, <3>1 DEF Owns
    <3> QED
      BY <1>0, <1>2, <1>5, <3>1, <3>2 DEF Owns
  <2> QED
    BY <2>1, <2>2
<1>7. ASSUME tr.state \in Live, NEW j \in ActiveSlots(new)
      PROVE  ne[new.players[j + 1]].open /\ ne[new.players[j + 1]].index = j
  <2>1. j \in ActiveSlots(tr) /\ tr.players[j + 1] \in Players
    BY <1>5, <1>7, SlotPlayer
  <2>2. en[tr.players[j + 1]].open /\ en[tr.players[j + 1]].index = j
    BY <1>7, <2>1 DEF Linked
  <2> QED
    BY <1>0, <1>3, <2>1, <2>2
<1> QED
  BY <1>0, <1>2, <1>4, <1>6, <1>7 DEF Linked, SamePhase, SameStakes, ne

\* claim_refund, and the refund of the last player in close_reveal
LEMMA LinkedHole ==
    ASSUME NEW tr \in TournamentType, NEW new, NEW p \in Players,
           NEW en \in [Players -> EntryType], NEW e,
           Filled(tr), Linked(tr, en), tr.state \in Live, en[p].open, ~e.open,
           EmptiesSlot(new, tr, en[p].index),
           new.entries_remaining = tr.entries_remaining - 1,
           new.reveals_completed = IF en[p].revealed THEN tr.reveals_completed - 1
                                   ELSE tr.reveals_completed
    PROVE  Linked(new, [en EXCEPT ![p] = e]) /\ Filled(new)
<1> DEFINE i == en[p].index
           ne == [en EXCEPT ![p] = e]
<1>0. new.scores = tr.scores /\ new.participant_count = tr.participant_count - 1
  BY DEF EmptiesSlot
<1>1. i \in ActiveSlots(tr) /\ Owns(tr, en[p], p)
  BY OwnedActive
<1>2. /\ Filled(new) /\ Slots(new) = Slots(tr)
      /\ ActiveSlots(new) = ActiveSlots(tr) \ {i}
      /\ \A j \in Slots(tr) \ {i} : /\ new.players[j + 1] = tr.players[j + 1]
                                    /\ new.strategies[j + 1] = tr.strategies[j + 1]
  BY <1>1, FilledHole
<1>3. \A q \in Players : ne[q] = IF q = p THEN e ELSE en[q]
  OBVIOUS
<1>4. /\ Cardinality(Open(ne)) = Cardinality(Open(en)) - 1
      /\ en[p].revealed => Cardinality(Shown(ne)) = Cardinality(Shown(en)) - 1
      /\ ~en[p].revealed => Shown(ne) = Shown(en)
  BY OpenClosed
<1> HIDE DEF ne
<1>5. ASSUME NEW q \in Players, ne[q].open PROVE Owns(new, ne[q], q)
  <2>1. q # p /\ ne[q] = en[q] /\ Owns(tr, en[q], q)
    BY <1>3, <1>5 DEF Linked
  <2>2. en[q].index # i
    BY <1>1, <2>1 DEF Owns
  <2> QED
    BY <1>0, <1>2, <2>1, <2>2 DEF Owns
<1>6. ASSUME NEW j \in ActiveSlots(new)
      PROVE  ne[new.players[j + 1]].open /\ ne[new.players[j + 1]].index = j
  <2> DEFINE q == tr.players[j + 1]
  <2>1. j \in ActiveSlots(tr) /\ j # i /\ q \in Players /\ new.players[j + 1] = q
    BY <1>2, <1>6, SlotPlayer
  <2>2. en[q].open /\ en[q].index = j
    BY <2>1 DEF Linked
  <2>3. q # p
    BY <2>1, <2>2
  <2> QED
    BY <1>3, <2>1, <2>2, <2>3
<1> QED
  BY <1>0, <1>2, <1>4, <1>5, <1>6 DEF Linked, ne

\* claim_payout and close_entry
LEMMA LinkedClosed ==
    ASSUME NEW tr \in TournamentType, NEW new, NEW p \in Players,
           NEW en \in [Players -> EntryType], NEW e,
           Linked(tr, en), en[p].open, ~e.open,
           SameSlots(new, tr), new.state \notin Live,
           new.entries_remaining = tr.entries_remaining - 1
    PROVE  Linked(new, [en EXCEPT ![p] = e])
<1> DEFINE ne == [en EXCEPT ![p] = e]
<1>1. \A q \in Players : ne[q] = IF q = p THEN e ELSE en[q]
  OBVIOUS
<1>2. Cardinality(Open(ne)) = Cardinality(Open(en)) - 1
  BY OpenClosed
<1> HIDE DEF ne
<1>3. ASSUME NEW q \in Players, ne[q].open PROVE Owns(new, ne[q], q)
  BY <1>1, <1>3 DEF Linked, Owns, SameSlots, Slots
<1> QED
  BY <1>2, <1>3 DEF Linked, ne

-----------------------------------------------------------------------------
(***************************************************************************)
(* The start of the matches                                                *)
(***************************************************************************)
\* The matches per player are between one and everybody else.
LEMMA EffectiveKRange ==
    ASSUME NEW n \in Nat, n >= 2, NEW config_k \in Nat
    PROVE  EffectiveK(n, config_k) \in 1..(n - 1)
  BY DEF EffectiveK, Greater, Lesser

\* An even field always has a match to play.
LEMMA MatchCountPositive ==
    ASSUME NEW n \in Nat, n >= 2, n % 2 = 0, NEW k \in 1..(n - 1)
    PROVE  CalculateMatchCount(n, k) > 0
<1>1. CalculateMatchCount(n, k) \in Nat
  BY MatchCountNat
<1>2. CASE RoundRobin(n, k)
  <2>1. PairCount(n) \in Nat /\ PairCount(n) >= 1
    <3> DEFINE product == n * (n - 1)
    <3>1. product \in Nat /\ product >= 2
      BY SMTT(30)
    <3> HIDE DEF product
    <3>2. product \div 2 \in Nat /\ product \div 2 >= 1
      BY <3>1
    <3> QED
      BY <3>2 DEF PairCount, product
  <2>2. CeilDiv(k, n - 1) \in Nat /\ CeilDiv(k, n - 1) >= 1
    <3> DEFINE d == n - 1
    <3>1. d \in Nat /\ d >= 1 /\ k \in Nat /\ k >= 1
      OBVIOUS
    <3> HIDE DEF d
    <3> DEFINE a == k + d - 1
               q == a \div d
    <3>2. a \in Nat /\ a >= d
      BY <3>1
    <3> HIDE DEF a
    <3>3. q \in Nat /\ a < (q + 1) * d
      BY <3>1, <3>2
    <3>4. q # 0
      BY <3>1, <3>2, <3>3
    <3> QED
      BY <3>3, <3>4 DEF CeilDiv, a, d
  <2>3. \A x \in Nat, y \in Nat : x >= 1 /\ y >= 1 => x * y >= 1
    OBVIOUS
  <2>4. PairCount(n) * CeilDiv(k, n - 1) >= 1
    BY ONLY <2>1, <2>2, <2>3
  <2>5. CalculateMatchCount(n, k) = PairCount(n) * CeilDiv(k, n - 1)
    BY <1>2 DEF CalculateMatchCount
  <2> QED
    BY <1>1, <2>4, <2>5
<1>3. CASE ~RoundRobin(n, k)
  <2>1. CalculateMatchCount(n, k) = OffsetsToUse(n, k) * n
    BY <1>3 DEF CalculateMatchCount
  <2>2. OffsetsToUse(n, k) \in Nat /\ OffsetsToUse(n, k) >= 1
    <3>1. CeilDiv(k, 2) \in Nat /\ CeilDiv(k, 2) >= 1
      BY DEF CeilDiv
    <3>2. n >= 4
      BY <1>3 DEF RoundRobin
    <3>3. Available(n) \in Nat /\ Available(n) >= 1
      BY <3>2 DEF Available
    <3> QED
      BY <3>1, <3>3 DEF OffsetsToUse, Lesser
  <2>3. \A x \in Nat, y \in Nat : x >= 1 /\ y >= 1 => x * y >= 1
    OBVIOUS
  <2>4. OffsetsToUse(n, k) * n >= 1
    BY <2>2, <2>3
  <2> QED
    BY <1>1, <2>1, <2>4
<1> QED
  BY <1>2, <1>3

\* When the count of reveals has reached the count of participants, every slot
\* that is not a hole has its strategy.
LEMMA AllRevealed ==
    ASSUME NEW tr \in TournamentType, NEW en \in [Players -> EntryType],
           Linked(tr, en), tr.state \in Live,
           tr.reveals_completed = tr.participant_count
    PROVE  /\ \A p \in Players : en[p].open => en[p].revealed
           /\ \A i \in ActiveSlots(tr) : tr.strategies[i + 1] # Unrevealed
<1>1. IsFiniteSet(Open(en)) /\ Shown(en) \in SUBSET Open(en)
  BY OpenFinite
<1>2. Cardinality(Open(en)) = Cardinality(Shown(en))
  BY DEF Linked
<1>3. Open(en) = Shown(en)
  BY <1>1, <1>2, FS_Subset
<1>4. \A p \in Players : en[p].open => en[p].revealed
  BY <1>3 DEF Open, Shown
<1>5. ASSUME NEW i \in ActiveSlots(tr) PROVE tr.strategies[i + 1] # Unrevealed
  <2> DEFINE p == tr.players[i + 1]
  <2>1. p \in Players
    BY SlotPlayer
  <2>2. en[p].open /\ en[p].index = i
    BY DEF Linked
  <2>3. Owns(tr, en[p], p) /\ en[p].revealed
    BY <1>4, <2>1, <2>2 DEF Linked
  <2>4. en[p].strategy \in 0..Custom
    BY <2>1 DEF EntryType
  <2>5. en[p].strategy # Unrevealed
    BY <2>4 DEF Custom, Unrevealed
  <2> QED
    BY <2>2, <2>3, <2>5 DEF Owns
<1> QED
  BY <1>4, <1>5

\* The tail of close_reveal, for an even field with strategies.
LEMMA StartedPhased ==
    ASSUME NEW tr \in TournamentType, NEW seed \in Seeds, Filled(tr),
           tr.participant_count >= 2, tr.participant_count % 2 = 0,
           tr.matches_completed = 0, tr.claims_processed = 0,
           \A i \in ActiveSlots(tr) : tr.strategies[i + 1] # Unrevealed
    PROVE  LET new == Started(tr, seed)
           IN  Filled(new) /\ Phased(new) /\ new.state = "Running"
<1> DEFINE new == Started(tr, seed)
           n == tr.participant_count
           k == EffectiveK(n, tr.matches_per_player)
<1>1. n \in Nat /\ tr.matches_per_player \in Nat
  BY Fields
<1>2. /\ new.state = "Running" /\ SameTerms(new, tr) /\ SameStakes(new, tr)
      /\ SameSlots(new, tr) /\ new.claims_processed = tr.claims_processed
      /\ new.matches_completed = tr.matches_completed
      /\ new.matches_per_player = k
      /\ new.matches_total = CalculateMatchCount(n, k)
      /\ new.randomness_seed = seed
  BY <1>1, StartedFields
<1>3. k \in 1..(n - 1)
  BY <1>1, EffectiveKRange
<1> HIDE DEF new, k
<1>4. Filled(new)
  BY <1>2, FilledSame DEF SameSlots
<1>5. Scheduled(new)
  <2>1. ActiveSlots(new) = ActiveSlots(tr) /\ new.strategies = tr.strategies
    BY <1>2 DEF SameSlots, ActiveSlots, Slots
  <2>2. new.participant_count = n
    BY <1>2 DEF SameStakes
  <2> QED
    BY <1>2, <1>3, <2>1, <2>2 DEF Scheduled
<1>6. Phased(new)
  <2>1. CalculateMatchCount(n, k) \in Nat
    <3>1. k \in Nat
      BY <1>1, <1>3
    <3> QED
      BY ONLY <1>1, <3>1, MatchCountNat
  <2>2. new.matches_completed <= new.matches_total /\ new.claims_processed = 0
    BY <1>2, <2>1
  <2> QED
    BY <1>2, <1>5, <2>2 DEF Phased, Early
<1> QED
  BY <1>2, <1>4, <1>6 DEF new

-----------------------------------------------------------------------------
(***************************************************************************)
(* A batch of matches keeps the scores of slots and entries equal          *)
(***************************************************************************)
Owned(tr, en) == \A p \in Players : en[p].open => Owns(tr, en[p], p)

\* Slot i has its entry.
Found(tr, en, i) == en[tr.players[i + 1]].open /\ en[tr.players[i + 1]].index = i

\* Playable, of a tournament and its entries within a batch.
MatchReady(tr, en, m) ==
    /\ PairingOption(tr, m) # {}
    /\ \A pair \in PairingOption(tr, m) :
          /\ pair[1] \in Slots(tr) /\ pair[2] \in Slots(tr)
          /\ ~Skipped(tr, pair) => Found(tr, en, pair[1]) /\ Found(tr, en, pair[2])

\* A score added to one slot.
LEMMA AddScoreAt ==
    ASSUME NEW scores \in Seq(Nat), NEW i \in 0..(Len(scores) - 1), NEW x \in Nat,
           NEW j \in 0..(Len(scores) - 1)
    PROVE  AddScore(scores, i, x)[j + 1] =
               IF j = i THEN scores[j + 1] + x ELSE scores[j + 1]
<1>1. Len(scores) \in Nat
  OBVIOUS
<1>2. i + 1 \in 1..Len(scores)
  BY <1>1
<1>3. scores[i + 1] + x \in Nat
  BY <1>2
<1>4. AddScore(scores, i, x) = [scores EXCEPT ![i + 1] = scores[i + 1] + x]
  BY DEF AddScore
<1> QED
  BY ONLY <1>3, <1>4, SlotWritten, scores \in Seq(Nat), i \in 0..(Len(scores) - 1),
          j \in 0..(Len(scores) - 1)

\* The scores of the entries after a match.
LEMMA PlayedEntriesScore ==
    ASSUME NEW tr, NEW en \in [Players -> EntryType], NEW score \in Nat \X Nat,
           NEW p \in Players
    PROVE  LET pa == tr.players[NextPair(tr)[1] + 1]
               pb == tr.players[NextPair(tr)[2] + 1]
           IN  PlayedEntries(tr, en, score)[p].score =
                   (en[p].score + (IF p = pa THEN score[1] ELSE 0))
                       + (IF p = pb THEN score[2] ELSE 0)
<1> DEFINE pa == tr.players[NextPair(tr)[1] + 1]
           pb == tr.players[NextPair(tr)[2] + 1]
           mid == AddResult(en, pa, score[1])
<1>1. score[1] \in Nat /\ score[2] \in Nat /\ en[p].score \in Nat
  BY DEF EntryType
<1>2. /\ mid \in [Players -> EntryType]
      /\ mid[p].score = IF p = pa THEN en[p].score + score[1] ELSE en[p].score
  BY <1>1, AddResultType, AddResultScored
<1>3. PlayedEntries(tr, en, score) = AddResult(mid, pb, score[2])
  BY DEF PlayedEntries
<1> HIDE DEF mid, pa, pb
<1>4. AddResult(mid, pb, score[2])[p].score =
          IF p = pb THEN mid[p].score + score[2] ELSE mid[p].score
  BY <1>1, <1>2, AddResultScored
<1>5. PlayedEntries(tr, en, score)[p].score =
          (en[p].score + (IF p = pa THEN score[1] ELSE 0))
              + (IF p = pb THEN score[2] ELSE 0)
  BY <1>1, <1>2, <1>3, <1>4
<1> QED
  BY <1>5 DEF pa, pb

\* The scores of the slots after a match.
LEMMA PlayedScoresAt ==
    ASSUME NEW tr, NEW score \in Nat \X Nat, tr.scores \in Seq(Nat),
           NextPair(tr)[1] \in 0..(Len(tr.scores) - 1),
           NextPair(tr)[2] \in 0..(Len(tr.scores) - 1),
           NEW j \in 0..(Len(tr.scores) - 1)
    PROVE  PlayedScores(tr, score)[j + 1] =
               (tr.scores[j + 1] + (IF j = NextPair(tr)[1] THEN score[1] ELSE 0))
                   + (IF j = NextPair(tr)[2] THEN score[2] ELSE 0)
<1> DEFINE a == NextPair(tr)[1]
           b == NextPair(tr)[2]
           mid == AddScore(tr.scores, a, score[1])
           n == Len(tr.scores)
<1>1. /\ score[1] \in Nat /\ score[2] \in Nat /\ n \in Nat /\ tr.scores \in Seq(Nat)
      /\ a \in 0..(n - 1) /\ b \in 0..(n - 1) /\ j \in 0..(n - 1)
  OBVIOUS
<1>2. PlayedScores(tr, score) = AddScore(mid, b, score[2])
  BY DEF PlayedScores
<1> HIDE DEF a, b
<1>3. mid \in Seq(Nat) /\ Len(mid) = n
  BY ONLY <1>1, AddScoreType
<1>5. mid[j + 1] = IF j = a THEN tr.scores[j + 1] + score[1] ELSE tr.scores[j + 1]
  BY ONLY <1>1, AddScoreAt, SMTT(40)
<1>4. tr.scores[j + 1] \in Nat
  <2>1. j + 1 \in 1..Len(tr.scores)
    BY <1>1
  <2> QED
    BY <2>1, SMTT(40)
<1> HIDE DEF mid
<1>6. AddScore(mid, b, score[2])[j + 1] =
          IF j = b THEN mid[j + 1] + score[2] ELSE mid[j + 1]
  <2>1. mid \in Seq(Nat) /\ score[2] \in Nat
    BY <1>1, <1>3
  <2>2. b \in 0..(Len(mid) - 1) /\ j \in 0..(Len(mid) - 1)
    BY <1>1, <1>3
  <2> QED
    BY ONLY <2>1, <2>2, AddScoreAt, SMTT(40)
<1>7. PlayedScores(tr, score)[j + 1] =
          (tr.scores[j + 1] + (IF j = a THEN score[1] ELSE 0))
              + (IF j = b THEN score[2] ELSE 0)
  <2> DEFINE old == tr.scores[j + 1]
             middle == mid[j + 1]
             new == PlayedScores(tr, score)[j + 1]
             x == score[1]
             y == score[2]
  <2>1. /\ old \in Nat /\ x \in Nat /\ y \in Nat
        /\ middle = IF j = a THEN old + x ELSE old
        /\ new = IF j = b THEN middle + y ELSE middle
    BY ONLY <1>1, <1>2, <1>4, <1>5, <1>6
  <2> HIDE DEF old, middle, new, x, y
  <2>2. new = (old + (IF j = a THEN x ELSE 0)) + (IF j = b THEN y ELSE 0)
    BY ONLY <2>1
  <2> QED
    BY ONLY <2>2 DEF old, new, x, y
<1> QED
  BY <1>7 DEF a, b

\* One match.
LEMMA PlayMatchOwned ==
    ASSUME NEW b, Batch(b), NEW score \in Nat \X Nat,
           MatchReady(b.tr, b.en, b.tr.matches_completed), Owned(b.tr, b.en)
    PROVE  Owned(PlayMatch(b, score).tr, PlayMatch(b, score).en)
<1> DEFINE tr == b.tr
           en == b.en
           new == PlayMatch(b, score)
           i == NextPair(tr)[1]
           j == NextPair(tr)[2]
<1>1. /\ tr \in TournamentType /\ en \in [Players -> EntryType]
      /\ Len(tr.scores) = Len(tr.players) /\ tr.scores \in Seq(Nat)
  BY Fields DEF Batch, Sound
<1>2. /\ i \in Slots(tr) /\ j \in Slots(tr)
      /\ ~Skipped(tr, NextPair(tr)) => Found(tr, en, i) /\ Found(tr, en, j)
  <2>1. NextPair(tr) \in PairingOption(tr, tr.matches_completed)
    BY DEF MatchReady, NextPair
  <2> QED
    BY <2>1 DEF MatchReady
<1>3. /\ ScoredOnly(new.tr, tr)
      /\ Skipped(tr, NextPair(tr)) => new.tr.scores = tr.scores /\ new.en = en
      /\ ~Skipped(tr, NextPair(tr)) => /\ new.tr.scores = PlayedScores(tr, score)
                                       /\ new.en = PlayedEntries(tr, en, score)
  BY <1>1, PlayMatchCases
<1> HIDE DEF new
<1>4. new.tr.players = tr.players /\ new.tr.strategies = tr.strategies
      /\ Slots(new.tr) = Slots(tr)
  BY <1>3 DEF ScoredOnly, Slots
<1>5. CASE Skipped(tr, NextPair(tr))
  BY <1>3, <1>4, <1>5 DEF Owned, Owns, new
<1>6. CASE ~Skipped(tr, NextPair(tr))
  <2> SUFFICES ASSUME NEW p \in Players, new.en[p].open PROVE Owns(new.tr, new.en[p], p)
    BY DEF Owned, new
  <2> DEFINE k == en[p].index
  <2>1. SameButScore(new.en[p], en[p])
    BY <1>1, <1>3, <1>6, PlayedEntriesScored
  <2>2. Owns(tr, en[p], p) /\ en[p].open
    BY <2>1 DEF Owned, SameButScore
  <2>3. /\ k \in Slots(tr) /\ tr.players[k + 1] = p /\ tr.scores[k + 1] = en[p].score
        /\ k \in 0..(Len(tr.scores) - 1)
        /\ i \in 0..(Len(tr.scores) - 1) /\ j \in 0..(Len(tr.scores) - 1)
    BY <1>1, <1>2, <2>2, SMTT(40) DEF Owns, Slots
  <2>4. (p = tr.players[i + 1] <=> k = i) /\ (p = tr.players[j + 1] <=> k = j)
    BY <1>2, <1>6, <2>3 DEF Found
  <2>5. new.en[p].score = (en[p].score + (IF p = tr.players[i + 1] THEN score[1] ELSE 0))
                              + (IF p = tr.players[j + 1] THEN score[2] ELSE 0)
    BY <1>1, <1>3, <1>6, PlayedEntriesScore, SMTT(40)
  <2>6. new.tr.scores[k + 1] = (tr.scores[k + 1] + (IF k = i THEN score[1] ELSE 0))
                                   + (IF k = j THEN score[2] ELSE 0)
    <3>1. new.tr.scores = PlayedScores(tr, score)
      BY <1>3, <1>6
    <3>2. PlayedScores(tr, score)[k + 1] =
              (tr.scores[k + 1] + (IF k = i THEN score[1] ELSE 0))
                  + (IF k = j THEN score[2] ELSE 0)
      BY ONLY <1>1, <2>3, PlayedScoresAt, score \in Nat \X Nat
    <3> QED
      BY ONLY <3>1, <3>2
  <2> HIDE DEF i, j, tr, en
  <2>7. new.tr.scores[k + 1] = new.en[p].score
    BY <2>3, <2>4, <2>5, <2>6
  <2> QED
    BY <1>4, <2>1, <2>2, <2>7 DEF Owns, SameButScore
<1> QED
  BY <1>5, <1>6

\* A match that is ready stays ready while earlier matches are played.
LEMMA ReadyScored ==
    ASSUME NEW b, NEW c, b.tr \in TournamentType, BatchScored(c, b), NEW m,
           MatchReady(b.tr, b.en, m)
    PROVE  MatchReady(c.tr, c.en, m)
<1> DEFINE tr == b.tr
           en == b.en
<1>1. /\ PairingOption(c.tr, m) = PairingOption(tr, m)
      /\ c.tr.players = tr.players /\ Slots(c.tr) = Slots(tr)
  BY SMTT(40) DEF BatchScored, ScoredOnly, SameStakes, SameSchedule, PairingOption, Slots
<1>2. ASSUME NEW pair \in PairingOption(tr, m), ~Skipped(c.tr, pair)
      PROVE  Found(c.tr, c.en, pair[1]) /\ Found(c.tr, c.en, pair[2])
  <2>1. ~Skipped(tr, pair) /\ pair[1] \in Slots(tr) /\ pair[2] \in Slots(tr)
    BY <1>1, <1>2 DEF Skipped, MatchReady
  <2>2. pair[1] \in ActiveSlots(tr) /\ pair[2] \in ActiveSlots(tr)
    BY <2>1 DEF Skipped, ActiveSlots
  <2>3. tr.players[pair[1] + 1] \in Players /\ tr.players[pair[2] + 1] \in Players
    BY <2>2, SlotPlayer
  <2>4. Found(tr, en, pair[1]) /\ Found(tr, en, pair[2])
    BY <2>1 DEF MatchReady
  <2>5. \A p \in Players : c.en[p].open = en[p].open /\ c.en[p].index = en[p].index
    BY DEF BatchScored, SameButScore
  <2> QED
    BY <1>1, <2>3, <2>4, <2>5 DEF Found
<1> QED
  BY <1>1, <1>2 DEF MatchReady

\* Scores only grow, and only those of open entries.
Gains(new, en) ==
    \A p \in Players : /\ new[p].score >= en[p].score
                       /\ ~en[p].open => new[p].score = en[p].score

LEMMA PlayMatchGains ==
    ASSUME NEW b, Batch(b), NEW score \in Nat \X Nat,
           MatchReady(b.tr, b.en, b.tr.matches_completed)
    PROVE  Gains(PlayMatch(b, score).en, b.en)
<1> DEFINE tr == b.tr
           en == b.en
           new == PlayMatch(b, score)
           pa == tr.players[NextPair(tr)[1] + 1]
           pb == tr.players[NextPair(tr)[2] + 1]
<1>1. tr \in TournamentType /\ en \in [Players -> EntryType]
  BY DEF Batch, Sound
<1>2. /\ Skipped(tr, NextPair(tr)) => new.en = en
      /\ ~Skipped(tr, NextPair(tr)) => new.en = PlayedEntries(tr, en, score)
  BY <1>1, PlayMatchCases, SMTT(40)
<1>3. ~Skipped(tr, NextPair(tr)) => en[pa].open /\ en[pb].open
  <2>1. NextPair(tr) \in PairingOption(tr, tr.matches_completed)
    BY DEF MatchReady, NextPair
  <2> QED
    BY <2>1 DEF MatchReady, Found
<1> HIDE DEF new
<1>4. ASSUME NEW p \in Players
      PROVE  /\ new.en[p].score >= en[p].score
             /\ ~en[p].open => new.en[p].score = en[p].score
  <2>0. en[p].score \in Nat /\ score[1] \in Nat /\ score[2] \in Nat
    BY <1>1 DEF EntryType
  <2>1. CASE Skipped(tr, NextPair(tr))
    BY <1>2, <2>0, <2>1
  <2>2. CASE ~Skipped(tr, NextPair(tr))
    <3>1. new.en[p].score = (en[p].score + (IF p = pa THEN score[1] ELSE 0))
                                + (IF p = pb THEN score[2] ELSE 0)
      BY <1>1, <1>2, <2>2, PlayedEntriesScore
    <3>2. ~en[p].open => p # pa /\ p # pb
      BY <1>3, <2>2
    <3> HIDE DEF tr, en, pa, pb
    <3> QED
      BY <2>0, <3>1, <3>2
  <2> QED
    BY <2>1, <2>2
<1> QED
  BY <1>4 DEF Gains, new

LEMMA GainsTransitive ==
    ASSUME NEW a, NEW b, NEW c, BatchScored(b, a), Gains(b.en, a.en), Gains(c.en, b.en),
           a.en \in [Players -> EntryType], b.en \in [Players -> EntryType],
           c.en \in [Players -> EntryType]
    PROVE  Gains(c.en, a.en)
<1> SUFFICES ASSUME NEW p \in Players
             PROVE  /\ c.en[p].score >= a.en[p].score
                    /\ ~a.en[p].open => c.en[p].score = a.en[p].score
  BY DEF Gains
<1>1. /\ a.en[p].score \in Nat /\ b.en[p].score \in Nat /\ c.en[p].score \in Nat
      /\ b.en[p].open = a.en[p].open
  BY DEF EntryType, BatchScored, SameButScore
<1> QED
  BY <1>1 DEF Gains

\* What holds of the batch after its first j matches.
PlayedSoFar(c, b, done) ==
    /\ Batch(c) /\ BatchScored(c, b)
    /\ Owned(b.tr, b.en) => Owned(c.tr, c.en)
    /\ Gains(c.en, b.en)
    /\ c.tr.matches_completed = b.tr.matches_completed + done

LEMMA PlayBatchOwned ==
    ASSUME NEW b, Batch(b), NEW n \in 1..5, NEW score \in [1..n -> MatchScores],
           \A j \in 1..n : MatchReady(b.tr, b.en, b.tr.matches_completed + j - 1)
    PROVE  PlayedSoFar(PlayBatch(b, score), b, n)
<1> DEFINE Done(j) == IF j <= n THEN j ELSE n
<1>1. b.tr \in TournamentType /\ b.tr.matches_completed \in Nat
  BY Fields DEF Batch, Sound
<1>2. ASSUME NEW c, NEW j \in 1..5, PlayedSoFar(c, b, Done(j - 1))
      PROVE  PlayedSoFar(Played(c, j, score), b, Done(j))
  <2>1. CASE j \in 1..n
    <3> DEFINE new == PlayMatch(c, score[j])
    <3>1. score[j] \in Nat \X Nat /\ Played(c, j, score) = new
      BY <2>1, ArgumentsAssumption DEF Played
    <3>2. Done(j - 1) = j - 1 /\ Done(j) = j
      BY <2>1
    <3>3. /\ Batch(c) /\ BatchScored(c, b)
          /\ Owned(b.tr, b.en) => Owned(c.tr, c.en)
          /\ c.tr.matches_completed = b.tr.matches_completed + j - 1
      BY <1>1, <1>2, <3>2 DEF PlayedSoFar
    <3>4. MatchReady(c.tr, c.en, c.tr.matches_completed)
      BY <1>1, <2>1, <3>3, ReadyScored
    <3>5. /\ Batch(new) /\ BatchScored(new, c)
          /\ Owned(b.tr, b.en) => Owned(new.tr, new.en)
      BY <3>1, <3>3, <3>4, PlayMatchKeeps, PlayMatchScored, PlayMatchOwned
    <3>6. BatchScored(new, b)
      BY <3>3, <3>5, ScoredTransitive
    <3>7. new.tr.matches_completed = c.tr.matches_completed + 1
      BY <3>3, PlayMatchCases DEF Batch, Sound
    <3>8. new.tr.matches_completed = b.tr.matches_completed + Done(j)
      BY <1>1, <3>2, <3>3, <3>7
    <3>9. Gains(new.en, b.en)
      <4>1. /\ b.en \in [Players -> EntryType] /\ c.en \in [Players -> EntryType]
            /\ new.en \in [Players -> EntryType]
        BY <3>3, <3>5 DEF Batch
      <4>2. Gains(new.en, c.en) /\ Gains(c.en, b.en)
        BY <1>2, <3>1, <3>3, <3>4, PlayMatchGains DEF PlayedSoFar
      <4> HIDE DEF new
      <4> QED
        BY <3>3, <4>1, <4>2, GainsTransitive
    <3> QED
      BY <3>1, <3>5, <3>6, <3>8, <3>9 DEF PlayedSoFar
  <2>2. CASE j \notin 1..n
    <3>1. Done(j - 1) = n /\ Done(j) = n /\ Played(c, j, score) = c
      BY <2>2 DEF Played
    <3> QED
      BY <1>2, <3>1
  <2> QED
    BY <2>1, <2>2
<1> DEFINE b1 == Played(b, 1, score)
           b2 == Played(b1, 2, score)
           b3 == Played(b2, 3, score)
           b4 == Played(b3, 4, score)
           b5 == Played(b4, 5, score)
<1>3. PlayedSoFar(b, b, Done(0))
  <2>1. Gains(b.en, b.en)
    BY DEF Gains, Batch, EntryType
  <2> QED
    BY <1>1, <2>1 DEF PlayedSoFar, BatchScored, ScoredOnly, SameButScore, SamePhase,
                SameTerms, SameStakes, SameSchedule, SameResult
<1> HIDE DEF Done
<1>4. PlayedSoFar(b1, b, Done(1))
  BY <1>2, <1>3
<1> HIDE DEF b1
<1>5. PlayedSoFar(b2, b, Done(2))
  BY <1>2, <1>4
<1> HIDE DEF b2
<1>6. PlayedSoFar(b3, b, Done(3))
  BY <1>2, <1>5
<1> HIDE DEF b3
<1>7. PlayedSoFar(b4, b, Done(4))
  BY <1>2, <1>6
<1> HIDE DEF b4
<1>8. PlayedSoFar(b5, b, Done(5))
  BY <1>2, <1>7
<1>9. Done(5) = n
  BY DEF Done
<1> QED
  BY <1>8, <1>9 DEF PlayBatch, b1, b2, b3, b4

\* The entries after a batch.
LEMMA LinkedScored ==
    ASSUME NEW b, NEW c, Linked(b.tr, b.en), BatchScored(c, b), Owned(c.tr, c.en),
           b.tr \in TournamentType
    PROVE  Linked(c.tr, c.en)
<1>1. \A p \in Players : /\ c.en[p].open = b.en[p].open
                         /\ c.en[p].index = b.en[p].index
                         /\ c.en[p].revealed = b.en[p].revealed
  BY DEF BatchScored, SameButScore
<1>2. Open(c.en) = Open(b.en) /\ Shown(c.en) = Shown(b.en)
  BY <1>1 DEF Open, Shown
<1>3. /\ c.tr.players = b.tr.players /\ ActiveSlots(c.tr) = ActiveSlots(b.tr)
      /\ c.tr.entries_remaining = b.tr.entries_remaining
      /\ c.tr.reveals_completed = b.tr.reveals_completed
      /\ c.tr.participant_count = b.tr.participant_count
      /\ c.tr.state = b.tr.state
  BY DEF BatchScored, ScoredOnly, SameStakes, SamePhase, ActiveSlots, Slots
<1>4. \A i \in ActiveSlots(b.tr) : b.tr.players[i + 1] \in Players
  BY SlotPlayer
<1> QED
  BY <1>1, <1>2, <1>3, <1>4 DEF Linked, Owned

-----------------------------------------------------------------------------
(***************************************************************************)
(* Every instruction keeps the accounts coherent                           *)
(***************************************************************************)
\* A step that touches tournament t and its entries only.
LEMMA CohUpdate ==
    ASSUME IInv, CohInv, NEW t \in TournamentIds, NEW new,
           tournament' = [tournament EXCEPT ![t] = new],
           \A u \in TournamentIds \ {t} : entry'[u] = entry[u],
           Coherent(new, entry'[t])
    PROVE  CohInv'
<1>1. tournament \in [TournamentIds -> TournamentType]
  BY DEF IInv, TournamentsSound
<1>2. ASSUME NEW u \in TournamentIds PROVE Coherent(tournament'[u], entry'[u])
  <2>1. CASE u = t
    BY <1>1, <2>1
  <2>2. CASE u # t
    <3>1. tournament'[u] = tournament[u] /\ entry'[u] = entry[u]
      BY <1>1, <2>2
    <3> QED
      BY <3>1 DEF CohInv
  <2> QED
    BY <2>1, <2>2
<1> QED
  BY <1>2 DEF CohInv

LEMMA EntryAt ==
    ASSUME IInv, NEW t \in TournamentIds, NEW p \in Players, NEW e,
           entry' = [entry EXCEPT ![t][p] = e]
    PROVE  /\ entry'[t] = [entry[t] EXCEPT ![p] = e]
           /\ \A u \in TournamentIds \ {t} : entry'[u] = entry[u]
  BY DEF IInv, EntriesTyped

LEMMA CohEntryUpdate ==
    ASSUME IInv, CohInv, NEW t \in TournamentIds, NEW p \in Players, NEW new, NEW e,
           tournament' = [tournament EXCEPT ![t] = new],
           entry' = [entry EXCEPT ![t][p] = e],
           Coherent(new, [entry[t] EXCEPT ![p] = e])
    PROVE  CohInv'
<1>1. /\ entry'[t] = [entry[t] EXCEPT ![p] = e]
      /\ \A u \in TournamentIds \ {t} : entry'[u] = entry[u]
  BY EntryAt
<1>2. Coherent(new, entry'[t])
  BY <1>1
<1> QED
  BY <1>1, <1>2, CohUpdate

LEMMA Known ==
    ASSUME IInv, CohInv, NEW t \in TournamentIds
    PROVE  /\ Sound(tournament[t]) /\ tournament[t] \in TournamentType
           /\ entry[t] \in [Players -> EntryType]
           /\ config \in ConfigType /\ now \in Nat
           /\ Coherent(tournament[t], entry[t])
  BY DEF IInv, TournamentsSound, EntriesTyped, CohInv

LEMMA NoEntryClosed == NoEntry.open = FALSE
  BY DEF NoEntry

LEMMA EnterCoh ==
    ASSUME IInv, CohInv, NEW p \in Players, NEW t \in TournamentIds,
           NEW commitment \in Commitments, EnterTournament(p, t, commitment)
    PROVE  CohInv'
<1> DEFINE tr == tournament[t]
           e == [NoEntry EXCEPT !.open = TRUE, !.index = NextIndex(tr),
                                !.commitment = commitment]
           new == Entered(tr, p)
<1>1. /\ tr.state = "Registration" /\ ~entry[t][p].open
      /\ Len(tr.players) < config.max_participants
      /\ entry' = [entry EXCEPT ![t][p] = e]
      /\ tournament' = [tournament EXCEPT ![t] = new]
  BY DEF EnterTournament
<1>2. /\ tr \in TournamentType /\ entry[t] \in [Players -> EntryType]
      /\ config \in ConfigType /\ Coherent(tr, entry[t])
  BY Known
<1>3. Filled(tr) /\ Phased(tr) /\ Linked(tr, entry[t]) /\ tr.state \in Live
  BY <1>1, <1>2 DEF Coherent, Early, Live
<1>4. Len(tr.players) < U16Max
  <2>1. config.max_participants \in 0..U16Max /\ Len(tr.players) \in Nat
    BY <1>2, Fields DEF ConfigType
  <2> QED
    BY <1>1, <2>1, AmountsAssumption, SMTT(40)
<1>5. /\ e.open /\ ~e.revealed /\ e.index = Len(tr.players) /\ e.score = 0
  BY DEF NoEntry, NextIndex
<1>6. /\ SamePhase(new, tr) /\ PushesSlot(new, tr, p)
      /\ new.entries_remaining = tr.entries_remaining + 1
      /\ new.reveals_completed = tr.reveals_completed
      /\ new.claims_processed = tr.claims_processed
      /\ new.matches_completed = tr.matches_completed
  BY <1>2, EnteredFields, ZenonT(60) DEF PushesSlot, SameTerms
<1> HIDE DEF new, e, tr
<1>7. Filled(new)
  BY <1>2, <1>3, <1>4, <1>6, FilledEntered
<1>8. Linked(new, [entry[t] EXCEPT ![p] = e])
  BY <1>1, <1>2, <1>3, <1>4, <1>5, <1>6, LinkedEntered
<1>9. Phased(new)
  BY <1>1, <1>3, <1>6 DEF Phased, SamePhase, Live, Early
<1>10. Coherent(new, [entry[t] EXCEPT ![p] = e])
  BY <1>7, <1>8, <1>9 DEF Coherent
<1> QED
  BY ONLY IInv, CohInv, <1>1, <1>10, CohEntryUpdate, t \in TournamentIds, p \in Players

\* A strategy written by reveal_strategy or by forfeit_unrevealed.
LEMMA RevealedCoh ==
    ASSUME IInv, CohInv, NEW p \in Players, NEW t \in TournamentIds, NEW e,
           NEW mid \in TournamentType, NEW strategy \in 0..Custom,
           mid \in {tournament[t], Charged(tournament[t])},
           entry[t][p].open, ~entry[t][p].revealed, tournament[t].state = "Reveal",
           e.open, e.revealed, e.strategy = strategy,
           e.index = entry[t][p].index, e.score = entry[t][p].score,
           entry' = [entry EXCEPT ![t][p] = e],
           tournament' = [tournament EXCEPT ![t] =
                             Revealed(mid, entry[t][p].index, strategy)]
    PROVE  CohInv'
<1> DEFINE tr == tournament[t]
           i == entry[t][p].index
           new == Revealed(mid, i, strategy)
<1>1. /\ tr \in TournamentType /\ entry[t] \in [Players -> EntryType]
      /\ Filled(tr) /\ Phased(tr) /\ Linked(tr, entry[t])
  BY Known DEF Coherent, Early
<1>2. /\ SamePhase(mid, tr) /\ SameTerms(mid, tr) /\ SameStakes(mid, tr)
      /\ SameSlots(mid, tr)
      /\ mid.entries_remaining = tr.entries_remaining
      /\ mid.reveals_completed = tr.reveals_completed
      /\ mid.claims_processed = tr.claims_processed
      /\ mid.matches_completed = tr.matches_completed
  BY <1>1, ChargedFields DEF SamePhase, SameTerms, SameStakes, SameSlots
<1>3. /\ SamePhase(new, mid) /\ FillsSlot(new, mid, i, strategy)
      /\ new.entries_remaining = mid.entries_remaining
      /\ new.reveals_completed = mid.reveals_completed + 1
      /\ new.claims_processed = mid.claims_processed
      /\ new.matches_completed = mid.matches_completed
  BY ONLY mid \in TournamentType, RevealedFields DEF FillsSlot
<1> HIDE DEF new
<1>4. Filled(mid) /\ Linked(mid, entry[t])
  BY <1>1, <1>2, FilledSame, LinkedSame DEF SameSlots, SamePhase, SameStakes
<1>5. Linked(new, [entry[t] EXCEPT ![p] = e]) /\ Filled(new)
  BY <1>1, <1>3, <1>4, LinkedRevealed
<1>6. Phased(new)
  <2>1. new.state = "Reveal" /\ new.participant_count = tr.participant_count
    BY <1>2, <1>3 DEF SamePhase, SameStakes, FillsSlot
  <2> QED
    BY <1>1, <1>2, <1>3, <2>1 DEF Phased, Live, Early
<1>7. Coherent(new, [entry[t] EXCEPT ![p] = e])
  BY <1>5, <1>6 DEF Coherent
<1>8. tournament' = [tournament EXCEPT ![t] = new] /\ entry' = [entry EXCEPT ![t][p] = e]
  BY DEF new
<1> QED
  BY ONLY IInv, CohInv, <1>7, <1>8, CohEntryUpdate, t \in TournamentIds, p \in Players

LEMMA RevealStrategyCoh ==
    ASSUME IInv, CohInv, NEW p \in Players, NEW t \in TournamentIds, NEW secret \in Secrets,
           RevealStrategy(p, t, secret)
    PROVE  CohInv'
<1> DEFINE en == entry[t][p]
           e == RevealedEntry(en, secret)
<1>1. /\ en.open /\ ~en.revealed /\ tournament[t].state = "Reveal"
      /\ entry' = [entry EXCEPT ![t][p] = e]
      /\ tournament' = [tournament EXCEPT ![t] =
                            Revealed(tournament[t], en.index, secret.strategy)]
  BY DEF RevealStrategy
<1>2. tournament[t] \in TournamentType /\ en \in EntryType
  BY Known
<1>3. secret.strategy \in 0..Custom
  BY ArgumentsAssumption
<1>4. /\ e.open = en.open /\ e.revealed /\ e.strategy = secret.strategy
      /\ e.index = en.index /\ e.score = en.score
  BY <1>2 DEF RevealedEntry, EntryType
<1> HIDE DEF e
<1> QED
  BY <1>1, <1>2, <1>3, <1>4, RevealedCoh

LEMMA ForfeitCoh ==
    ASSUME IInv, CohInv, NEW p \in Players, NEW t \in TournamentIds, NEW byte \in SlotBytes,
           ForfeitUnrevealed(t, p, byte)
    PROVE  CohInv'
<1> DEFINE en == entry[t][p]
           strategy == ForfeitStrategy(byte)
           e == [en EXCEPT !.strategy = strategy, !.revealed = TRUE]
<1>1. /\ en.open /\ ~en.revealed /\ tournament[t].state = "Reveal"
      /\ entry' = [entry EXCEPT ![t][p] = e]
      /\ tournament' = [tournament EXCEPT ![t] =
                            Revealed(Charged(tournament[t]), en.index, strategy)]
  BY DEF ForfeitUnrevealed
<1>2. Charged(tournament[t]) \in TournamentType /\ en \in EntryType
  <2>1. tournament[t].state \in Live /\ Sound(tournament[t]) /\ config \in ConfigType
    BY <1>1, Known DEF Live
  <2> QED
    BY <2>1, ChargedSound, Known DEF Sound
<1>3. strategy \in 0..Custom
  <2>1. byte \in 0..255
    BY ArgumentsAssumption
  <2> QED
    BY <2>1 DEF ForfeitStrategy, Custom
<1>4. /\ e.open = en.open /\ e.revealed /\ e.strategy = strategy
      /\ e.index = en.index /\ e.score = en.score
  BY <1>2 DEF EntryType
<1> HIDE DEF e, strategy
<1>5. Charged(tournament[t]) \in {tournament[t], Charged(tournament[t])}
  OBVIOUS
<1> QED
  BY <1>1, <1>2, <1>3, <1>4, <1>5, RevealedCoh

\* In registration no entry has a strategy, so the count of reveals stays right.
LEMMA ClaimRefundCoh ==
    ASSUME IInv, CohInv, BindingInv, NEW p \in Players, NEW t \in TournamentIds,
           ClaimRefund(p, t)
    PROVE  CohInv'
<1> DEFINE tr == tournament[t]
           en == entry[t][p]
           new == Refunded(tr, en.index)
<1>1. /\ en.open /\ tr.state = "Registration"
      /\ tournament' = [tournament EXCEPT ![t] = new]
      /\ entry' = [entry EXCEPT ![t][p] = NoEntry]
  BY DEF ClaimRefund
<1>2. /\ tr \in TournamentType /\ entry[t] \in [Players -> EntryType]
      /\ Filled(tr) /\ Phased(tr) /\ Linked(tr, entry[t]) /\ tr.state \in Live
  BY <1>1, Known DEF Coherent, Early, Live
<1>3. ~en.revealed
  BY <1>1 DEF BindingInv, OpenEntries
<1>4. /\ SamePhase(new, tr) /\ EmptiesSlot(new, tr, en.index)
      /\ new.entries_remaining = tr.entries_remaining - 1
      /\ new.reveals_completed = tr.reveals_completed
      /\ new.claims_processed = tr.claims_processed
      /\ new.matches_completed = tr.matches_completed
  BY <1>2, RefundedFields DEF EmptiesSlot, SameTerms
<1> HIDE DEF new, tr
<1>5. Linked(new, [entry[t] EXCEPT ![p] = NoEntry]) /\ Filled(new)
  BY <1>1, <1>2, <1>3, <1>4, NoEntryClosed, LinkedHole
<1>6. Phased(new)
  BY <1>1, <1>2, <1>4 DEF Phased, SamePhase, Live, Early
<1>7. Coherent(new, [entry[t] EXCEPT ![p] = NoEntry])
  BY <1>5, <1>6 DEF Coherent
<1> QED
  BY ONLY IInv, CohInv, <1>1, <1>7, CohEntryUpdate, t \in TournamentIds, p \in Players

\* A tournament in payout, after one of its entries was closed.
LEMMA PaidCoh ==
    ASSUME IInv, CohInv, NEW p \in Players, NEW t \in TournamentIds, NEW new,
           entry[t][p].open, tournament[t].state = "Payout",
           SamePhase(new, tournament[t]), SameTerms(new, tournament[t]),
           SameStakes(new, tournament[t]), SameSchedule(new, tournament[t]),
           SameSlots(new, tournament[t]),
           new.entries_remaining = tournament[t].entries_remaining - 1,
           tournament' = [tournament EXCEPT ![t] = new],
           entry' = [entry EXCEPT ![t][p] = NoEntry]
    PROVE  CohInv'
<1> DEFINE tr == tournament[t]
<1>1. /\ tr \in TournamentType /\ entry[t] \in [Players -> EntryType]
      /\ Filled(tr) /\ Phased(tr) /\ (~ForeignRefund => Linked(tr, entry[t]))
  BY Known DEF Coherent
<1>2. Filled(new)
  BY <1>1, FilledSame DEF SameSlots
<1>3. new.state = "Payout"
  BY DEF SamePhase
<1>4. ~ForeignRefund => Linked(new, [entry[t] EXCEPT ![p] = NoEntry])
  <2>1. new.state \notin Live
    BY <1>3 DEF Live
  <2> QED
    BY <1>1, <2>1, NoEntryClosed, LinkedClosed
<1>5. Phased(new)
  <2>1. Scheduled(tr)
    BY <1>1 DEF Phased
  <2>2. Scheduled(new)
    BY <2>1 DEF Scheduled, SameStakes, SameSchedule, SameSlots, ActiveSlots, Slots
  <2> QED
    BY <1>3, <2>2 DEF Phased, Live, Early
<1>6. Coherent(new, [entry[t] EXCEPT ![p] = NoEntry])
  BY <1>2, <1>3, <1>4, <1>5 DEF Coherent, Early
<1> QED
  BY <1>6, CohEntryUpdate

LEMMA ClaimPayoutCoh ==
    ASSUME IInv, CohInv, NEW p \in Players, NEW t \in TournamentIds, ClaimPayout(p, t)
    PROVE  CohInv'
<1> DEFINE new == Claimed(tournament[t])
<1>1. /\ entry[t][p].open /\ tournament[t].state = "Payout"
      /\ tournament' = [tournament EXCEPT ![t] = new]
      /\ entry' = [entry EXCEPT ![t][p] = NoEntry]
  BY DEF ClaimPayout
<1>2. tournament[t] \in TournamentType
  BY Known
<1>3. /\ SamePhase(new, tournament[t]) /\ SameTerms(new, tournament[t])
      /\ SameStakes(new, tournament[t]) /\ SameSchedule(new, tournament[t])
      /\ SameSlots(new, tournament[t])
      /\ new.entries_remaining = tournament[t].entries_remaining - 1
  BY ONLY <1>2, ClaimedFields
<1> HIDE DEF new
<1> QED
  BY <1>1, <1>3, PaidCoh

LEMMA CloseEntryCoh ==
    ASSUME IInv, CohInv, NEW p \in Players, NEW t \in TournamentIds, CloseEntry(t, p)
    PROVE  CohInv'
<1> DEFINE new == EntryClosed(tournament[t], entry[t][p])
<1>1. /\ entry[t][p].open /\ tournament[t].state = "Payout"
      /\ tournament' = [tournament EXCEPT ![t] = new]
      /\ entry' = [entry EXCEPT ![t][p] = NoEntry]
  BY DEF CloseEntry
<1>2. tournament[t] \in TournamentType
  BY Known
<1>3. /\ SamePhase(new, tournament[t]) /\ SameTerms(new, tournament[t])
      /\ SameStakes(new, tournament[t]) /\ SameSchedule(new, tournament[t])
      /\ SameSlots(new, tournament[t])
      /\ new.entries_remaining = tournament[t].entries_remaining - 1
  BY ONLY <1>2, EntryClosedFields
<1> HIDE DEF new
<1> QED
  BY <1>1, <1>3, PaidCoh

\* The quorum, at least two, is what the later phases rest on.
LEMMA CloseRegistrationCoh ==
    ASSUME IInv, LifeInv, CohInv, NEW t \in TournamentIds, CloseRegistration(t)
    PROVE  CohInv'
<1> DEFINE tr == tournament[t]
           mid == Charged(tr)
           new == Locked(mid, now + tr.reveal_duration)
<1>1. /\ tr.state = "Registration" /\ tr.participant_count >= config.min_participants
      /\ tournament' = [tournament EXCEPT ![t] = new] /\ entry' = entry
  BY DEF CloseRegistration, Locked, QuorumReached
<1>2. /\ tr \in TournamentType /\ Sound(tr) /\ config \in ConfigType /\ tr.state \in Live
      /\ Filled(tr) /\ Phased(tr) /\ Linked(tr, entry[t])
  BY <1>1, Known DEF Coherent, Early, Live
<1>3. mid \in TournamentType
  BY <1>2, ChargedSound DEF Sound
<1>4. /\ SameTerms(mid, tr) /\ SameStakes(mid, tr) /\ SameSlots(mid, tr)
      /\ mid.entries_remaining = tr.entries_remaining
      /\ mid.reveals_completed = tr.reveals_completed
      /\ mid.claims_processed = tr.claims_processed
      /\ mid.matches_completed = tr.matches_completed
  BY <1>2, ChargedFields
<1> HIDE DEF mid
<1>5. /\ SameTerms(new, mid) /\ SameStakes(new, mid) /\ SameSlots(new, mid)
      /\ new.entries_remaining = mid.entries_remaining
      /\ new.reveals_completed = mid.reveals_completed
      /\ new.claims_processed = mid.claims_processed
      /\ new.matches_completed = mid.matches_completed
      /\ new.state = "Reveal"
  BY <1>3, LockedFields
<1> HIDE DEF new
<1>6. SameTerms(new, tr) /\ SameStakes(new, tr) /\ SameSlots(new, tr)
  BY <1>4, <1>5 DEF SameTerms, SameStakes, SameSlots
<1>7. Filled(new)
  BY <1>2, <1>6, FilledSame DEF SameSlots
<1>8. Linked(new, entry[t])
  BY <1>2, <1>4, <1>5, <1>6, LinkedSame DEF SameStakes
<1>9. tr.participant_count >= 2
  <2>1. config.initialized
    BY <1>2, LiveIsCurrent
  <2>2. config.min_participants >= 2
    BY <2>1 DEF LifeInv, ConfigChecked
  <2>3. config.min_participants \in Nat /\ tr.participant_count \in Nat
    BY <1>2, Fields DEF ConfigType
  <2> QED
    BY <1>1, <2>2, <2>3
<1>10. Phased(new)
  BY <1>1, <1>2, <1>4, <1>5, <1>6, <1>9 DEF Phased, SameStakes, Live, Early
<1>11. Coherent(new, entry'[t])
  BY <1>1, <1>7, <1>8, <1>10 DEF Coherent
<1> QED
  BY <1>1, <1>11, CohUpdate

LEMMA CloseRevealEvenCoh ==
    ASSUME IInv, CohInv, NEW t \in TournamentIds, NEW seed \in Seeds,
           CloseRevealEven(t, seed)
    PROVE  CohInv'
<1> DEFINE tr == tournament[t]
           mid == Charged(tr)
           new == Started(mid, seed)
<1>1. /\ tournament' = [tournament EXCEPT ![t] = new] /\ entry' = entry
      /\ tr \in TournamentType /\ mid \in TournamentType
      /\ tr.state = "Reveal" /\ tr.reveals_completed = tr.participant_count
      /\ tr.participant_count % 2 = 0
  BY CloseRevealEvenUpdate
<1>2. /\ entry[t] \in [Players -> EntryType] /\ tr.state \in Live
      /\ Filled(tr) /\ Phased(tr) /\ Linked(tr, entry[t])
  BY <1>1, Known DEF Coherent, Early, Live
<1>3. /\ SameTerms(mid, tr) /\ SameStakes(mid, tr) /\ SameSlots(mid, tr)
      /\ mid.entries_remaining = tr.entries_remaining
      /\ mid.reveals_completed = tr.reveals_completed
      /\ mid.claims_processed = tr.claims_processed
      /\ mid.matches_completed = tr.matches_completed
  BY <1>1, ChargedFields
<1>4. \A i \in ActiveSlots(tr) : tr.strategies[i + 1] # Unrevealed
  BY <1>1, <1>2, AllRevealed
<1> HIDE DEF mid
<1>5. /\ Filled(mid) /\ mid.participant_count >= 2 /\ mid.participant_count % 2 = 0
      /\ mid.matches_completed = 0 /\ mid.claims_processed = 0
  <2>1. Filled(mid)
    BY <1>2, <1>3, FilledSame DEF SameSlots
  <2> QED
    BY <1>1, <1>2, <1>3, <2>1 DEF SameStakes, Phased, Live, Early
<1>6. \A i \in ActiveSlots(mid) : mid.strategies[i + 1] # Unrevealed
  BY <1>3, <1>4 DEF SameSlots, ActiveSlots, Slots
<1>7. Filled(new) /\ Phased(new) /\ new.state = "Running"
  BY <1>1, <1>5, <1>6, StartedPhased
<1>8. /\ SameSlots(new, mid) /\ SameStakes(new, mid)
      /\ new.entries_remaining = mid.entries_remaining
      /\ new.reveals_completed = mid.reveals_completed
  BY <1>1, StartedFields
<1> HIDE DEF new
<1>9. Linked(new, entry[t])
  <2>1. SameSlots(new, tr) /\ new.participant_count = tr.participant_count
    BY <1>3, <1>8 DEF SameSlots, SameStakes
  <2> QED
    BY <1>2, <1>3, <1>8, <2>1, LinkedSame
<1>10. Coherent(new, entry'[t])
  BY <1>1, <1>7, <1>9 DEF Coherent
<1> QED
  BY <1>1, <1>10, CohUpdate

\* The tournament of close_reveal with an odd field, after the refund and before
\* the start: an even field of at least two, all with strategies.
LEMMA LastRefundedReady ==
    ASSUME NEW tr \in TournamentType, NEW en \in [Players -> EntryType],
           Filled(tr), Phased(tr), Linked(tr, en), tr.state = "Reveal",
           tr.reveals_completed = tr.participant_count, tr.participant_count % 2 = 1,
           NEW last \in ActiveSlots(tr), NEW less, EmptiesSlot(less, tr, last)
    PROVE  /\ Filled(less)
           /\ less.participant_count >= 2 /\ less.participant_count % 2 = 0
           /\ \A i \in ActiveSlots(less) : less.strategies[i + 1] # Unrevealed
           /\ en[tr.players[last + 1]].open /\ en[tr.players[last + 1]].index = last
           /\ en[tr.players[last + 1]].revealed
<1>1. tr.state \in Live
  BY DEF Live
<1>2. /\ \A p \in Players : en[p].open => en[p].revealed
      /\ \A i \in ActiveSlots(tr) : tr.strategies[i + 1] # Unrevealed
  BY <1>1, AllRevealed
<1>3. /\ Filled(less) /\ ActiveSlots(less) = ActiveSlots(tr) \ {last}
      /\ \A j \in Slots(tr) \ {last} : less.strategies[j + 1] = tr.strategies[j + 1]
  BY FilledHole
<1>4. \A i \in ActiveSlots(less) : less.strategies[i + 1] # Unrevealed
  BY <1>2, <1>3 DEF ActiveSlots
<1>5. less.participant_count >= 2 /\ less.participant_count % 2 = 0
  <2> DEFINE n == tr.participant_count
  <2>1. n \in Nat /\ n >= 2 /\ n % 2 = 1
    BY Fields DEF Phased
  <2>2. less.participant_count = n - 1
    BY DEF EmptiesSlot
  <2> HIDE DEF n
  <2>3. n # 2
    BY <2>1
  <2> QED
    BY <2>1, <2>2, <2>3
<1>6. /\ en[tr.players[last + 1]].open /\ en[tr.players[last + 1]].index = last
      /\ tr.players[last + 1] \in Players
  BY <1>1, SlotPlayer DEF Linked
<1> QED
  BY <1>2, <1>3, <1>4, <1>5, <1>6

LEMMA CloseRevealOddCoh ==
    ASSUME IInv, LifeInv, CohInv, NEW t \in TournamentIds, NEW seed \in Seeds,
           NEW r \in (IF ForeignRefund THEN TournamentIds ELSE {t}),
           CloseRevealOdd(t, seed, r)
    PROVE  CohInv'
<1> DEFINE tr == tournament[t]
           mid == Charged(tr)
<1>0. r \in TournamentIds /\ (~ForeignRefund => r = t)
  OBVIOUS
<1>1. PICK last \in LastActive(tr) :
         LET less == LastRefunded(mid, last)
             new  == Started(less, seed)
             p    == tr.players[last + 1]
         IN  /\ tournament' = [tournament EXCEPT ![t] = new]
             /\ p \in Players
             /\ entry' = [entry EXCEPT ![r][p] = NoEntry]
             /\ tr \in TournamentType /\ mid \in TournamentType
             /\ Refunded(mid, last) \in TournamentType /\ less \in TournamentType
             /\ tr.state = "Reveal" /\ tr.reveals_completed = tr.participant_count
             /\ tr.participant_count % 2 = 1
  BY <1>0, CloseRevealOddUpdate
<1> DEFINE less == LastRefunded(mid, last)
           new  == Started(less, seed)
           p    == tr.players[last + 1]
<1>2. /\ tournament' = [tournament EXCEPT ![t] = new]
      /\ p \in Players
      /\ entry' = [entry EXCEPT ![r][p] = NoEntry]
      /\ tr \in TournamentType /\ mid \in TournamentType
      /\ Refunded(mid, last) \in TournamentType /\ less \in TournamentType
      /\ tr.state = "Reveal" /\ tr.reveals_completed = tr.participant_count
      /\ tr.participant_count % 2 = 1
  BY ONLY <1>1
<1>3. /\ entry[t] \in [Players -> EntryType] /\ tr.state \in Live
      /\ Filled(tr) /\ Phased(tr) /\ Linked(tr, entry[t])
  BY <1>2, Known DEF Coherent, Early, Live
<1>4. /\ SameTerms(mid, tr) /\ SameStakes(mid, tr) /\ SameSlots(mid, tr)
      /\ mid.state = tr.state
      /\ mid.entries_remaining = tr.entries_remaining
      /\ mid.reveals_completed = tr.reveals_completed
      /\ mid.claims_processed = tr.claims_processed
      /\ mid.matches_completed = tr.matches_completed
  BY <1>2, ChargedFields DEF SamePhase
<1> HIDE DEF mid
<1>5. /\ EmptiesSlot(less, mid, last)
      /\ less.state = mid.state
      /\ less.entries_remaining = mid.entries_remaining - 1
      /\ less.reveals_completed = mid.reveals_completed - 1
      /\ less.claims_processed = mid.claims_processed
      /\ less.matches_completed = mid.matches_completed
  BY ONLY <1>2, LastRefundedFields DEF EmptiesSlot, SameTerms, SamePhase
<1> HIDE DEF less
<1>6. /\ SameSlots(new, less) /\ SameStakes(new, less)
      /\ new.entries_remaining = less.entries_remaining
      /\ new.reveals_completed = less.reveals_completed
  BY ONLY <1>2, StartedFields
<1>7. Filled(mid) /\ Phased(mid) /\ Linked(mid, entry[t])
  <2>1. Filled(mid)
    BY <1>3, <1>4, FilledSame DEF SameSlots
  <2>2. Phased(mid)
    BY <1>2, <1>3, <1>4 DEF Phased, SameStakes
  <2>3. Linked(mid, entry[t])
    BY <1>3, <1>4, LinkedSame DEF SameStakes
  <2> QED
    BY <2>1, <2>2, <2>3
<1>8. last \in ActiveSlots(mid) /\ mid.players[last + 1] = p /\ mid.state = "Reveal"
      /\ mid.reveals_completed = mid.participant_count /\ mid.participant_count % 2 = 1
  BY <1>2, <1>4 DEF LastActive, SameSlots, SameStakes, ActiveSlots, Slots
<1>9. /\ Filled(less) /\ less.participant_count >= 2 /\ less.participant_count % 2 = 0
      /\ \A i \in ActiveSlots(less) : less.strategies[i + 1] # Unrevealed
      /\ entry[t][p].open /\ entry[t][p].index = last /\ entry[t][p].revealed
  BY <1>2, <1>3, <1>5, <1>7, <1>8, LastRefundedReady
<1>10. less.matches_completed = 0 /\ less.claims_processed = 0
  BY <1>2, <1>3, <1>4, <1>5 DEF Phased, Live, Early
<1>11. Filled(new) /\ Phased(new) /\ new.state = "Running"
  BY <1>2, <1>9, <1>10, StartedPhased
<1>12. ASSUME ~ForeignRefund PROVE Linked(new, entry'[t])
  <2> HIDE DEF p, tr, new
  <2>1. entry'[t] = [entry[t] EXCEPT ![p] = NoEntry]
    <3>1. entry' = [entry EXCEPT ![t][p] = NoEntry] /\ p \in Players
      BY <1>0, <1>2, <1>12
    <3> QED
      BY <3>1, EntryAt, ZenonT(60)
  <2>2. Linked(less, [entry[t] EXCEPT ![p] = NoEntry])
    <3>1. /\ mid \in TournamentType /\ p \in Players
          /\ entry[t] \in [Players -> EntryType] /\ ~NoEntry.open
          /\ Filled(mid) /\ Linked(mid, entry[t]) /\ mid.state \in Live
          /\ entry[t][p].open /\ EmptiesSlot(less, mid, entry[t][p].index)
          /\ less.entries_remaining = mid.entries_remaining - 1
          /\ less.reveals_completed = IF entry[t][p].revealed
                                      THEN mid.reveals_completed - 1
                                      ELSE mid.reveals_completed
      BY <1>2, <1>3, <1>4, <1>5, <1>7, <1>9, NoEntryClosed
    <3> QED
      BY ONLY <3>1, LinkedHole
  <2>3. new.state \in Live => less.state \in Live
    BY <1>3, <1>4, <1>5
  <2> QED
    BY <1>6, <2>1, <2>2, <2>3, LinkedSame DEF SameStakes, new
<1>13. Coherent(new, entry'[t])
  BY <1>11, <1>12 DEF Coherent, Early
<1> HIDE DEF new, p, tr
<1>14. ASSUME NEW u \in TournamentIds PROVE Coherent(tournament'[u], entry'[u])
  <2>0. tournament \in [TournamentIds -> TournamentType]
    BY DEF IInv, TournamentsSound
  <2>1. CASE u = t
    BY <1>2, <1>13, <2>0, <2>1
  <2>2. CASE u # t /\ u # r
    <3>1. tournament'[u] = tournament[u] /\ entry'[u] = entry[u]
      BY <1>0, <1>2, <2>0, <2>2, EntryAt
    <3> QED
      BY <3>1 DEF CohInv
  <2>3. CASE u # t /\ u = r
    <3>1. tournament'[u] = tournament[u] /\ ForeignRefund
      BY <1>0, <1>2, <2>0, <2>3
    <3>2. tournament[u].state \notin Early
      BY <1>3, <2>3, LiveIsCurrent DEF Early, Live, tr
    <3> QED
      BY <3>1, <3>2 DEF CohInv, Coherent
  <2> QED
    BY <2>1, <2>2, <2>3
<1> QED
  BY <1>14 DEF CohInv

\* What run_matches does: a batch of matches of tournament t, none beyond the
\* last of the schedule.
LEMMA RunMatchesPlayed ==
    ASSUME IInv, NEW t \in TournamentIds, RunMatches(t)
    PROVE  LET tr == tournament[t]
           IN  \E new : \E count \in 1..5 :
                 /\ tournament' = [tournament EXCEPT ![t] = new.tr]
                 /\ entry' = [entry EXCEPT ![t] = new.en]
                 /\ tr.state = "Running"
                 /\ BatchScored(new, [tr |-> tr, en |-> entry[t]])
                 /\ Sound(new.tr) /\ Gains(new.en, entry[t])
                 /\ Owned(tr, entry[t]) => Owned(new.tr, new.en)
                 /\ new.tr.matches_completed = tr.matches_completed + count
                 /\ new.tr.matches_completed <= tr.matches_total
<1> DEFINE tr == tournament[t]
           left == tr.matches_total - tr.matches_completed
           count == Lesser(MatchesPerTx, left)
           b == [tr |-> Charged(tr), en |-> entry[t]]
<1>1. /\ Sound(tr) /\ tr \in TournamentType /\ config \in ConfigType
      /\ entry[t] \in [Players -> EntryType]
  BY DEF IInv, TournamentsSound, EntriesTyped
<1>2. /\ tr.state = "Running" /\ count > 0
      /\ \A j \in 1..count : Playable(t, tr.matches_completed + j - 1)
  BY DEF RunMatches
<1>3. PICK score \in [1..count -> MatchScores] :
          /\ tournament' = [tournament EXCEPT ![t] = PlayBatch(b, score).tr]
          /\ entry' = [entry EXCEPT ![t] = PlayBatch(b, score).en]
  BY DEF RunMatches
<1>4. count \in 1..5 /\ count <= left /\ left \in Int
  <2>1. tr.matches_total \in Nat /\ tr.matches_completed \in Nat
    BY <1>1, Fields
  <2>2. left \in Int /\ count > 0 /\ MatchesPerTx \in 1..5
    BY <1>2, <2>1, AmountsAssumption
  <2> HIDE DEF left
  <2> QED
    BY ONLY <2>2 DEF Lesser
<1> HIDE DEF count
<1>5. Batch(b)
  <2>1. Sound(Charged(tr)) /\ Charged(tr).state \in Live
    BY <1>1, <1>2, ChargedSound DEF Live
  <2> QED
    BY <1>1, <2>1 DEF Batch
<1>6. BatchScored(b, [tr |-> tr, en |-> entry[t]])
      /\ b.tr.scores = tr.scores /\ b.tr.matches_completed = tr.matches_completed
      /\ b.en = entry[t]
  <2>1. ScoredOnly(Charged(tr), tr) /\ Charged(tr).scores = tr.scores
        /\ Charged(tr).matches_completed = tr.matches_completed
    BY <1>1, ChargedFields DEF ScoredOnly, SameSlots
  <2> QED
    BY <2>1 DEF BatchScored, SameButScore
<1>7. ASSUME NEW j \in 1..count
      PROVE  MatchReady(b.tr, b.en, b.tr.matches_completed + j - 1)
  <2> DEFINE m == tr.matches_completed + j - 1
             a == [tr |-> tr, en |-> entry[t]]
  <2>1. MatchReady(a.tr, a.en, m)
    BY <1>2 DEF Playable, MatchReady, Found, EntryFound
  <2>2. a.tr \in TournamentType
    BY <1>1
  <2> HIDE DEF a, m, b
  <2>3. MatchReady(b.tr, b.en, m)
    BY <1>6, <2>1, <2>2, ReadyScored DEF a
  <2> QED
    BY <1>6, <2>3, SMTT(40) DEF m
<1> DEFINE new == PlayBatch(b, score)
<1> HIDE DEF b
<1>8. PlayedSoFar(new, b, count)
  BY <1>4, <1>5, <1>7, PlayBatchOwned
<1> HIDE DEF new
<1>9. /\ BatchScored(new, [tr |-> tr, en |-> entry[t]])
      /\ new.tr.matches_completed = tr.matches_completed + count
      /\ Sound(new.tr)
  BY <1>6, <1>8, ScoredTransitive DEF PlayedSoFar, Batch
<1>10. Owned(tr, entry[t]) => Owned(new.tr, new.en)
  <2>1. Owned(tr, entry[t]) => Owned(b.tr, b.en)
    BY <1>6 DEF Owned, Owns, BatchScored, ScoredOnly, Slots
  <2> QED
    BY <1>8, <2>1, SMTT(40) DEF PlayedSoFar
<1>11. Gains(new.en, entry[t])
  BY <1>6, <1>8 DEF PlayedSoFar
<1>12. new.tr.matches_completed <= tr.matches_total
  <2>1. tr.matches_total \in Nat /\ tr.matches_completed \in Nat
    BY <1>1, Fields
  <2> QED
    BY <1>4, <1>9, <2>1, SMTT(40)
<1>13. /\ tournament' = [tournament EXCEPT ![t] = new.tr]
       /\ entry' = [entry EXCEPT ![t] = new.en]
  BY <1>3 DEF new
<1> HIDE DEF tr
<1> QED
  BY <1>2, <1>4, <1>9, <1>10, <1>11, <1>12, <1>13 DEF tr

LEMMA RunMatchesCoh ==
    ASSUME IInv, CohInv, NEW t \in TournamentIds, RunMatches(t)
    PROVE  CohInv'
<1> DEFINE tr == tournament[t]
<1>1. /\ Sound(tr) /\ tr \in TournamentType
      /\ entry[t] \in [Players -> EntryType] /\ Coherent(tr, entry[t])
  BY Known
<1>2. PICK new :
         /\ tournament' = [tournament EXCEPT ![t] = new.tr]
         /\ entry' = [entry EXCEPT ![t] = new.en]
         /\ tr.state = "Running"
         /\ BatchScored(new, [tr |-> tr, en |-> entry[t]])
         /\ Sound(new.tr)
         /\ Owned(tr, entry[t]) => Owned(new.tr, new.en)
         /\ new.tr.matches_completed <= tr.matches_total
  BY RunMatchesPlayed
<1>3. ScoredOnly(new.tr, tr)
  BY <1>2 DEF BatchScored
<1>4. Filled(new.tr)
  <2>1. Len(new.tr.scores) = Len(tr.scores)
    BY <1>1, <1>2, <1>3 DEF Sound, ScoredOnly
  <2> QED
    BY <1>1, <1>3, <2>1, FilledSame DEF ScoredOnly, Coherent
<1>5. Phased(new.tr)
  <2>1. Scheduled(tr) /\ tr.claims_processed = 0 /\ new.tr.state = "Running"
    BY <1>1, <1>2, <1>3 DEF Coherent, Phased, Live, ScoredOnly, SamePhase
  <2>2. Scheduled(new.tr)
    BY <1>3, <2>1 DEF Scheduled, ScoredOnly, SameStakes, SameSchedule, ActiveSlots, Slots
  <2>3. new.tr.matches_completed <= new.tr.matches_total
    BY <1>2, <1>3 DEF ScoredOnly, SameSchedule
  <2>4. new.tr.claims_processed = 0
    BY <1>3, <2>1 DEF ScoredOnly
  <2> QED
    BY <2>1, <2>2, <2>3, <2>4 DEF Phased, Early
<1>6. ASSUME ~ForeignRefund PROVE Linked(new.tr, new.en)
  <2> DEFINE a == [tr |-> tr, en |-> entry[t]]
  <2>1. Linked(a.tr, a.en) /\ a.tr \in TournamentType /\ Owned(tr, entry[t])
    BY <1>1, <1>6 DEF Coherent, Linked, Owned
  <2>2. BatchScored(new, a)
    BY <1>2
  <2> HIDE DEF a
  <2> QED
    BY <1>2, <2>1, <2>2, LinkedScored
<1>7. Coherent(new.tr, new.en)
  <2>1. new.tr.state = "Running"
    BY <1>2, <1>3 DEF ScoredOnly, SamePhase
  <2> QED
    BY <1>4, <1>5, <1>6, <2>1 DEF Coherent, Early
<1>8. entry'[t] = new.en /\ \A u \in TournamentIds \ {t} : entry'[u] = entry[u]
  BY <1>2 DEF IInv, EntriesTyped
<1>9. Coherent(new.tr, entry'[t])
  BY <1>7, <1>8
<1> QED
  BY <1>2, <1>8, <1>9, CohUpdate

\* A tournament without slots and entries.
LEMMA EmptyCoherent ==
    ASSUME NEW new, NEW en, new.players = << >>, new.scores = << >>,
           new.strategies = << >>, new.participant_count = 0, new.pool = 0,
           new.stake \in Nat, new.entries_remaining = 0, new.reveals_completed = 0,
           new.claims_processed = 0, new.matches_completed = 0,
           new.state \in {"Absent", "Registration"},
           new.state = "Registration" \/ ~ForeignRefund => Open(en) = {}
    PROVE  Coherent(new, en)
<1>1. Filled(new)
  BY FilledEmpty
<1>2. Phased(new)
  BY DEF Phased, Early
<1> QED
  BY <1>1, <1>2, LinkedEmpty DEF Coherent, Early

LEMMA FinalizeCoh ==
    ASSUME IInv, LifeInv, BindingInv, CohInv, NEW t \in TournamentIds,
           FinalizeTournament(t)
    PROVE  CohInv'
<1> DEFINE tr == tournament[t]
           next == config.current_tournament_id + 1
           fresh == NewTournament(config)
<1>1. /\ tr \in TournamentType /\ tr.state = "Running" /\ next # t
      /\ next \in TournamentIds /\ tournament[next].state = "Absent" /\ entry' = entry
  BY FinalizeUpdate
<1>2. PICK threshold : tournament' = [tournament EXCEPT
                           ![t] = Finalized(tr, threshold),
                           ![next] = fresh]
  BY FinalizeUpdate
<1> DEFINE done == Finalized(tr, threshold)
<1>3. /\ Coherent(tr, entry[t]) /\ config \in ConfigType
      /\ tournament \in [TournamentIds -> TournamentType]
      /\ config.current_tournament_id \in Nat
  BY Known DEF IInv, TournamentsSound, ConfigType, TournamentIds
<1>4. Coherent(fresh, entry[next])
  <2>1. Open(entry[next]) = {}
    BY <1>1, <1>3 DEF BindingInv, OpenEntries, Open
  <2>2. Sound(fresh)
    BY <1>3, NewTournamentSound DEF IInv
  <2>3. fresh.stake \in Nat
    BY <2>2, Fields DEF Sound
  <2>4. /\ fresh.state = "Registration" /\ fresh.players = << >> /\ fresh.scores = << >>
        /\ fresh.strategies = << >> /\ fresh.pool = 0 /\ fresh.participant_count = 0
        /\ fresh.entries_remaining = 0 /\ fresh.reveals_completed = 0
        /\ fresh.claims_processed = 0 /\ fresh.matches_completed = 0
    BY <1>3, NewFields
  <2> HIDE DEF fresh
  <2> QED
    BY <2>1, <2>3, <2>4, EmptyCoherent
<1>5. Coherent(done, entry[t])
  <2>1. /\ done.state = "Payout" /\ SameTerms(done, tr) /\ SameStakes(done, tr)
        /\ SameSchedule(done, tr) /\ SameSlots(done, tr)
        /\ done.entries_remaining = tr.entries_remaining
    BY <1>1, FinalizedFields
  <2> HIDE DEF done
  <2>2. Filled(done)
    BY <1>3, <2>1, FilledSame DEF Coherent, SameSlots
  <2>3. Scheduled(tr)
    BY <1>1, <1>3 DEF Coherent, Phased
  <2>4. Scheduled(done)
    BY <2>1, <2>3 DEF Scheduled, SameStakes, SameSchedule, SameSlots, ActiveSlots, Slots
  <2>5. Phased(done)
    BY <2>1, <2>4 DEF Phased, Live, Early
  <2>6. ASSUME ~ForeignRefund PROVE Linked(done, entry[t])
    <3>1. Linked(tr, entry[t])
      BY <1>3, <2>6 DEF Coherent
    <3> QED
      BY <2>1, <3>1 DEF Linked, Live, Owns, SameSlots, Slots
  <2> QED
    BY <2>1, <2>2, <2>5, <2>6 DEF Coherent, Early
<1> HIDE DEF done, fresh
<1>6. ASSUME NEW u \in TournamentIds PROVE Coherent(tournament'[u], entry'[u])
  <2>1. tournament'[u] = IF u = next THEN fresh ELSE IF u = t THEN done
                         ELSE tournament[u]
    BY <1>1, <1>2, <1>3 DEF done
  <2> QED
    BY <1>1, <1>4, <1>5, <2>1 DEF CohInv
<1> QED
  BY <1>6 DEF CohInv

LEMMA CloseTournamentCoh ==
    ASSUME IInv, CohInv, NEW t \in TournamentIds, CloseTournament(t)
    PROVE  CohInv'
<1>1. /\ tournament[t].state = "Payout" /\ tournament[t].entries_remaining = 0
      /\ tournament' = [tournament EXCEPT ![t] = NoTournament]
      /\ entry' = entry
  BY DEF CloseTournament, Closable
<1>2. ASSUME ~ForeignRefund PROVE Open(entry[t]) = {}
  <2>1. Cardinality(Open(entry[t])) = 0
    BY <1>1, <1>2 DEF CohInv, Coherent, Linked
  <2> QED
    BY <2>1, OpenFinite, FS_EmptySet
<1>3. Coherent(NoTournament, entry[t])
  <2> DEFINE new == NoTournament
  <2>1. /\ new.state = "Absent" /\ new.players = << >> /\ new.scores = << >>
        /\ new.strategies = << >> /\ new.pool = 0 /\ new.participant_count = 0
        /\ new.entries_remaining = 0 /\ new.reveals_completed = 0 /\ new.stake = 0
        /\ new.claims_processed = 0 /\ new.matches_completed = 0
    BY DEF NoTournament
  <2> HIDE DEF new
  <2>2. Coherent(new, entry[t])
    BY <1>2, <2>1, EmptyCoherent
  <2> QED
    BY <2>2 DEF new
<1>4. Coherent(NoTournament, entry'[t])
  BY <1>1, <1>3
<1> QED
  BY <1>1, <1>4, CohUpdate

LEMMA InitializeConfigCoh ==
    ASSUME IInv, IInv', LifeInv, BindingInv, CohInv, NEW params \in InitParams,
           InitializeConfig(params)
    PROVE  CohInv'
<1> DEFINE fresh == NewTournament(config')
<1>1. /\ ~config.initialized /\ entry' = entry
      /\ tournament' = [tournament EXCEPT ![0] = fresh]
  BY DEF InitializeConfig
<1>2. 0 \in TournamentIds
  BY AmountsAssumption DEF TournamentIds
<1>3. Open(entry[0]) = {}
  <2>1. config.current_tournament_id = 0 /\ tournament[0].state = "Absent"
    BY <1>1, <1>2 DEF LifeInv, Dormant
  <2> QED
    BY <1>2, <2>1 DEF BindingInv, OpenEntries, Open
<1>4. /\ fresh.state = "Registration" /\ fresh.players = << >> /\ fresh.scores = << >>
      /\ fresh.strategies = << >> /\ fresh.pool = 0 /\ fresh.participant_count = 0
      /\ fresh.entries_remaining = 0 /\ fresh.reveals_completed = 0
      /\ fresh.claims_processed = 0 /\ fresh.matches_completed = 0
  BY NewFields DEF IInv
<1>5. fresh.stake \in Nat
  <2>1. fresh \in TournamentType
    BY <1>1, <1>2 DEF IInv, TournamentsSound
  <2> QED
    BY <2>1, Fields
<1> HIDE DEF fresh
<1>6. Coherent(fresh, entry[0])
  BY <1>3, <1>4, <1>5, EmptyCoherent
<1> QED
  BY <1>1, <1>2, <1>6, CohUpdate

LEMMA CohInit == Init => CohInv
<1> SUFFICES ASSUME Init, NEW t \in TournamentIds PROVE Coherent(tournament[t], entry[t])
  BY DEF CohInv
<1> DEFINE new == tournament[t]
<1>1. new = NoTournament
  BY DEF Init
<1>2. /\ new.state = "Absent" /\ new.players = << >> /\ new.scores = << >>
      /\ new.strategies = << >> /\ new.pool = 0 /\ new.participant_count = 0
      /\ new.entries_remaining = 0 /\ new.reveals_completed = 0 /\ new.stake = 0
      /\ new.claims_processed = 0 /\ new.matches_completed = 0
  BY <1>1 DEF NoTournament
<1>3. Open(entry[t]) = {}
  BY NoEntryClosed DEF Init, Open
<1> HIDE DEF new
<1>4. Coherent(new, entry[t])
  BY <1>2, <1>3, EmptyCoherent
<1> QED
  BY <1>4 DEF new

LEMMA NextCoh ==
    IInv /\ LifeInv /\ BindingInv /\ CohInv /\ IInv' /\ [Next]_vars => CohInv'
<1> SUFFICES ASSUME IInv, LifeInv, BindingInv, CohInv, IInv', [Next]_vars PROVE CohInv'
  OBVIOUS
<1>a. ASSUME tournament' = tournament, entry' = entry PROVE CohInv'
  BY <1>a DEF CohInv
<1>1. CASE Tick
  BY <1>a, <1>1 DEF Tick
<1>2. ASSUME NEW params \in InitParams, InitializeConfig(params) PROVE CohInv'
  BY <1>2, InitializeConfigCoh
<1>3. ASSUME NEW params \in ConfigUpdates, UpdateConfig(params) PROVE CohInv'
  BY <1>a, <1>3 DEF UpdateConfig
<1>4. CASE WithdrawFees
  BY <1>a, <1>4 DEF WithdrawFees
<1>5. ASSUME NEW t \in TournamentIds, NEW p \in Players, PlayerStep(t, p) PROVE CohInv'
  BY <1>5, EnterCoh, RevealStrategyCoh, ClaimRefundCoh, ClaimPayoutCoh, ForfeitCoh
  DEF PlayerStep
<1>6. ASSUME NEW t \in TournamentIds, NEW p \in Players, CloseEntry(t, p) PROVE CohInv'
  BY <1>6, CloseEntryCoh
<1>7. ASSUME NEW t \in TournamentIds, CloseRegistration(t) PROVE CohInv'
  BY <1>7, CloseRegistrationCoh
<1>8. ASSUME NEW t \in TournamentIds, CloseReveal(t) PROVE CohInv'
  <2>1. PICK seed \in Seeds :
           \/ CloseRevealEven(t, seed)
           \/ \E r \in (IF ForeignRefund THEN TournamentIds ELSE {t}) :
                  CloseRevealOdd(t, seed, r)
    BY <1>8 DEF CloseReveal
  <2> QED
    BY <2>1, CloseRevealEvenCoh, CloseRevealOddCoh
<1>9. ASSUME NEW t \in TournamentIds, RunMatches(t) PROVE CohInv'
  BY <1>9, RunMatchesCoh
<1>10. ASSUME NEW t \in TournamentIds, FinalizeTournament(t) PROVE CohInv'
  BY <1>10, FinalizeCoh
<1>11. ASSUME NEW t \in TournamentIds, CloseTournament(t) PROVE CohInv'
  BY <1>11, CloseTournamentCoh
<1>12. CASE UNCHANGED vars
  BY <1>a, <1>12 DEF vars
<1> QED
  BY <1>1, <1>2, <1>3, <1>4, <1>5, <1>6, <1>7, <1>8, <1>9, <1>10, <1>11, <1>12
  DEF Next, PlayerStep

LEMMA SpecCoh == Spec => [](IInv /\ LifeInv /\ BindingInv /\ CohInv)
<1>1. IInv /\ LifeInv /\ [Next]_vars => IInv'
  BY NextIInv
<1> QED
  BY <1>1, CohInit, NextCoh, SpecBinding, PTL DEF Spec

-----------------------------------------------------------------------------
(***************************************************************************)
(* What follows, in every tournament, from the accounts' agreement         *)
(***************************************************************************)
\* Past registration there are at least two participants, and the matches start
\* with an even number of them, all with a strategy and at least one match to
\* play: close_reveal and finalize_tournament never meet an empty tournament,
\* whichever entry account close_reveal is given.
THEOREM RunningIsReady == Spec => []RunningReady
<1>1. IInv /\ CohInv => RunningReady
  <2> SUFFICES ASSUME IInv, CohInv, NEW t \in TournamentIds
               PROVE  LET tr == tournament[t]
                      IN  /\ tr.state \in {"Reveal", "Running"} => tr.participant_count >= 2
                          /\ tr.state = "Running" =>
                                /\ tr.participant_count % 2 = 0
                                /\ tr.matches_total > 0
                                /\ tr.matches_completed <= tr.matches_total
                                /\ \A i \in ActiveSlots(tr) : tr.strategies[i + 1] # Unrevealed
    BY DEF RunningReady
  <2> DEFINE tr == tournament[t]
  <2>1. Phased(tr) /\ tr \in TournamentType
    BY Known DEF Coherent
  <2>2. ASSUME Scheduled(tr) PROVE tr.matches_total > 0
    BY <2>1, <2>2, Fields, MatchCountPositive DEF Scheduled
  <2> HIDE DEF tr
  <2>3. tr.state \in {"Reveal", "Running"} => tr.participant_count >= 2
    BY <2>1 DEF Phased, Scheduled
  <2>4. tr.state = "Running" =>
            /\ tr.participant_count % 2 = 0 /\ tr.matches_total > 0
            /\ tr.matches_completed <= tr.matches_total
            /\ \A i \in ActiveSlots(tr) : tr.strategies[i + 1] # Unrevealed
    BY <2>1, <2>2 DEF Phased, Scheduled
  <2> QED
    BY <2>3, <2>4 DEF tr
<1> QED
  BY <1>1, SpecCoh, PTL

\* The replay of the frontend, which sees strategy bytes only, drops exactly the
\* matches run_matches skipped by the players' keys, in every tournament whose
\* matches were started.
THEOREM ReplayIsFaithful == Spec => []ReplayShowsPlayed
<1>1. IInv /\ CohInv => ReplayShowsPlayed
  <2> SUFFICES ASSUME IInv, CohInv, NEW t \in TournamentIds,
                      tournament[t].state \in {"Running", "Payout"},
                      NEW m \in 0..(tournament[t].matches_total - 1),
                      NEW pair \in PairingOption(tournament[t], m)
               PROVE  Replayed(tournament[t], pair) <=> ~Skipped(tournament[t], pair)
    BY DEF ReplayShowsPlayed
  <2> DEFINE tr == tournament[t]
             n == tr.participant_count
             k == tr.matches_per_player
  <2>1. tr \in TournamentType /\ Filled(tr) /\ Scheduled(tr)
    BY Known DEF Coherent, Phased
  <2>2. n \in 2..U16Max /\ n <= Len(tr.players) /\ Len(tr.players) \in Nat /\ n \in Nat
    <3>1. n \in Nat /\ Len(tr.players) \in Nat /\ n >= 2 /\ Len(tr.players) <= U16Max
      BY <2>1, Fields DEF Scheduled, Filled
    <3>2. n <= Len(tr.players)
      BY <2>1, <3>1, ActiveFinite DEF Filled
    <3> QED
      BY <3>1, <3>2, AmountsAssumption
  <2>3. /\ k \in 1..(n - 1) /\ tr.randomness_seed \in Seeds
        /\ m \in 0..(CalculateMatchCount(n, k) - 1)
    BY <2>1 DEF Scheduled
  <2>4. pair \in PairingOf(n, k, tr.randomness_seed, m)
    BY DEF PairingOption
  <2> HIDE DEF n, k
  <2>5. pair \in Pairs(n)
    BY <2>2, <2>3, <2>4, PairingAssumption
  <2>6. pair[1] \in Slots(tr) /\ pair[2] \in Slots(tr)
    BY <2>2, <2>5 DEF Pairs, Slots
  <2>7. ASSUME NEW i \in Slots(tr)
        PROVE  tr.players[i + 1] = NoPlayer <=> tr.strategies[i + 1] = Unrevealed
    BY <2>1 DEF Filled, Scheduled, ActiveSlots
  <2> HIDE DEF tr
  <2>8. Replayed(tr, pair) <=> ~Skipped(tr, pair)
    BY <2>6, <2>7 DEF Replayed, Skipped
  <2> QED
    BY <2>8 DEF tr
<1> QED
  BY <1>1, SpecCoh, PTL

-----------------------------------------------------------------------------
(***************************************************************************)
(* What follows when close_reveal is given an entry of its own tournament. *)
(* (Given another tournament's entry it closes the wrong account, and the  *)
(* three properties below fail.)                                           *)
(***************************************************************************)
LEMMA AllLinked ==
    ASSUME ~ForeignRefund, CohInv, NEW t \in TournamentIds
    PROVE  Linked(tournament[t], entry[t]) /\ Open(entry[t]) = OpenEntries(t)
  BY DEF CohInv, Coherent, Open, OpenEntries

\* The players, scores and strategies of a tournament are those of its Entry
\* accounts, slot by slot: enter_tournament, claim_refund, the two reveals,
\* close_reveal, run_matches and the closing of entries keep both copies equal
\* in every order of transactions, provided close_reveal is given an entry of its
\* own tournament, which the code does not check.
THEOREM SlotsAreEntries == ~ForeignRefund => (Spec => []SlotsMatchEntries)
<1> SUFFICES ASSUME ~ForeignRefund PROVE Spec => []SlotsMatchEntries
  OBVIOUS
<1>1. IInv /\ CohInv => SlotsMatchEntries
  <2> SUFFICES ASSUME IInv, CohInv PROVE SlotsMatchEntries
    OBVIOUS
  <2>1. ASSUME NEW t \in TournamentIds
        PROVE  LET tr == tournament[t]
               IN  /\ Len(tr.scores) = Len(tr.players)
                   /\ Len(tr.strategies) = Len(tr.players)
                   /\ \A p \in OpenEntries(t) :
                         LET en == entry[t][p]
                         IN  /\ en.index \in Slots(tr)
                             /\ tr.players[en.index + 1] = p
                             /\ tr.scores[en.index + 1] = en.score
                             /\ tr.strategies[en.index + 1] =
                                    IF en.revealed THEN en.strategy ELSE Unrevealed
                   /\ tr.state \in Live => \A i \in ActiveSlots(tr) : EntryFound(t, i)
    <3>1. Filled(tournament[t]) /\ Linked(tournament[t], entry[t])
      BY AllLinked DEF CohInv, Coherent
    <3>2. \A p \in OpenEntries(t) : Owns(tournament[t], entry[t][p], p)
      BY <3>1 DEF Linked, OpenEntries
    <3>3. tournament[t].state \in Live =>
              \A i \in ActiveSlots(tournament[t]) : EntryFound(t, i)
      BY <3>1 DEF Linked, EntryFound
    <3> QED
      BY <3>1, <3>2, <3>3 DEF Filled, Owns
  <2> QED
    BY <2>1 DEF SlotsMatchEntries
<1> QED
  BY <1>1, SpecCoh, PTL

\* The counters the phase changes are decided on are right in every reachable
\* state: participants, open entries and reveals are counted once each, and the
\* pool is the stakes of the participants, provided close_reveal is given an entry
\* of its own tournament.
THEOREM CountersCount == ~ForeignRefund => (Spec => []CountersMatch)
<1> SUFFICES ASSUME ~ForeignRefund PROVE Spec => []CountersMatch
  OBVIOUS
<1>1. IInv /\ CohInv => CountersMatch
  <2> SUFFICES ASSUME IInv, CohInv PROVE CountersMatch
    OBVIOUS
  <2>1. ASSUME NEW t \in TournamentIds
        PROVE  LET tr == tournament[t]
               IN  /\ tr.entries_remaining = Cardinality(OpenEntries(t))
                   /\ tr.pool = tr.participant_count * tr.stake
                   /\ tr.participant_count = Cardinality(ActiveSlots(tr))
                   /\ tr.state \in Live =>
                         tr.reveals_completed =
                             Cardinality({p \in OpenEntries(t) : entry[t][p].revealed})
    <3>1. Filled(tournament[t]) /\ Linked(tournament[t], entry[t])
          /\ Open(entry[t]) = OpenEntries(t)
      BY AllLinked DEF CohInv, Coherent
    <3>2. Shown(entry[t]) = {p \in OpenEntries(t) : entry[t][p].revealed}
      BY DEF Shown, OpenEntries
    <3> QED
      BY <3>1, <3>2 DEF Filled, Linked
  <2> QED
    BY <2>1 DEF CountersMatch
<1> QED
  BY <1>1, SpecCoh, PTL

\* close_tournament, which looks at the counter entries_remaining only, never
\* leaves an open entry behind, provided close_reveal was given entries of its own
\* tournament.
THEOREM NobodyIsOrphaned == ~ForeignRefund => (Spec => []NoOrphanEntries)
<1> SUFFICES ASSUME ~ForeignRefund PROVE Spec => []NoOrphanEntries
  OBVIOUS
<1>1. IInv /\ CohInv => NoOrphanEntries
  <2> SUFFICES ASSUME IInv, CohInv, NEW t \in TournamentIds,
                      tournament[t].state = "Absent"
               PROVE  OpenEntries(t) = {}
    BY DEF NoOrphanEntries
  <2>1. /\ Linked(tournament[t], entry[t]) /\ Phased(tournament[t])
        /\ tournament[t] \in TournamentType
    BY AllLinked, Known DEF Coherent
  <2>2. tournament[t].players = << >>
    BY <2>1 DEF Phased
  <2>3. Slots(tournament[t]) = {}
    BY <2>2 DEF Slots
  <2> QED
    BY <2>1, <2>3 DEF Linked, Owns, OpenEntries
<1> QED
  BY <1>1, SpecCoh, PTL

=============================================================================
