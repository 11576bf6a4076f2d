----------------------------- MODULE FilingProofs ----------------------------
(***************************************************************************)
(* Proofs about the jobs that read filings: the weekly sweep               *)
(* (FilingSweep), the evening's alerts (EveningAlerts) and the moonshots   *)
(* (MoonshotBasket), for any stocks, share classes, workers, sweeps, days  *)
(* and filings, whatever is read, fails, is refused or is killed.          *)
(*                                                                         *)
(* Two items of a sweep are for one document only under --recheck-drops,   *)
(* and then the reader model reads both: so no result can take the place   *)
(* of a better one, and a row once stored stays good until the sweep ends. *)
(*                                                                         *)
(* What was mailed is stored, and a run reads nothing that was stored when *)
(* it began.  A run that nothing marred has read all it looks for of the   *)
(* tickers it is through with.                                             *)
(*                                                                         *)
(* The members and the list together keep the spread; who passes the       *)
(* screen passes the check on the same filing; and a count of shares       *)
(* carried through the splits since is what was issued times every split.  *)
(***************************************************************************)
EXTENDS FilingSweep, EveningAlerts, MoonshotBasket, FiniteSetTheorems, SequenceTheorems, WellFoundedInduction, TLAPS

-----------------------------------------------------------------------------
(* The weekly sweep.                                                       *)

\* The bulk model reads it first.
BulkFirst(x) == x.tier = "B" /\ ~x.stored

Rows(t) == {f \in Filings : table[f].ticker = t}

\* The rows of the table are of filings their company has made, and no
\* ticker has more than are kept.
RowsOK ==
    /\ published \in [Issuers -> 1..MaxFilings]
    /\ table \in [Filings -> {NoRow} \cup [ticker : Tickers, read : Reads]]
    /\ \A f \in Filings : table[f] # NoRow =>
          Issuer[table[f].ticker] = f[1] /\ f[2] <= published[f[1]]
    /\ \A t \in Tickers : IsFiniteSet(Rows(t)) /\ Cardinality(Rows(t)) <= Keep

FilingOf(x) ==
    IF x.previous THEN <<Issuer[x.ticker], published[Issuer[x.ticker]] - 1>> ELSE Newest(x.ticker)

\* An item is for its ticker's newest filing or the one before, and two for
\* one filing both go to the reader.
ItemsOK ==
    /\ todo \subseteq Item
    /\ \A x \in todo : x.filing = FilingOf(x) /\ tiers[x.ticker] = x.tier
    /\ \A x, y \in todo : x.filing = y.filing /\ x # y =>
          mode = "recheck" /\ ~BulkFirst(x) /\ ~BulkFirst(y)
    /\ queue \subseteq todo /\ InHand \subseteq todo /\ failed \subseteq todo

\* What there is between sweeps, and at the end of one.
PhaseOK ==
    /\ phase \in {"idle", "reading", "end"}
    /\ phase # "reading" => running = {}
    /\ phase = "idle" => todo = {} /\ \A t \in Tickers : tiers[t] = "none"
    /\ phase = "end" /\ ~stopped => queue = {}

\* An item is with one worker or in the queue, and only what the bulk model
\* reads first can come back with a bulk read.
HandsOK ==
    /\ running \subseteq Work
    /\ \A w, v \in running : w.item = v.item => w = v
    /\ \A w \in running : w.item \notin queue
    /\ \A w \in running :
          w.stage \in {"bulk", "escalated"} \/ w.kept \/ w.read # "reader" => BulkFirst(w.item)

\* What the bulk model is still to read nobody has read.
DueOK == \A x \in queue \cup InHand : BulkFirst(x) /\ mode # "force" => table[x.filing] = NoRow

\* A tier-A stock's newest filing is the reader's, or the sweep's business.
PromotedOK ==
    \A t \in Tickers : tiers[t] = "A" =>
        /\ \A x \in todo : x.filing = Newest(t) => ~BulkFirst(x)
        /\ table[Newest(t)].read = "reader" \/ \E x \in todo : x.filing = Newest(t)

Inv == RowsOK /\ ItemsOK /\ PhaseOK /\ HandsOK /\ DueOK /\ PromotedOK /\ EveryItemIsAccountedFor

-----------------------------------------------------------------------------
LEMMA SweepNumbers ==
    /\ MaxFilings \in Nat /\ MaxFilings > 0 /\ Keep \in Nat /\ Keep >= 2
    /\ NoRow.ticker \notin Tickers /\ NoRow.read \notin Reads
BY CountsAssumption, KeepAssumption, NameAssumption DEF NoRow, Reads

(* Every set of numbers that is not empty has a least one.                 *)
LEMMA LeastNumber ==
    ASSUME NEW S \in SUBSET Nat, S # {}
    PROVE  \E n \in S : \A m \in S : n <= m
<1> DEFINE R == OpToRel(<, Nat)
<1>1. IsWellFoundedOn(R, Nat)
  BY NatLessThanWellFounded, Zenon
<1> HIDE DEF R
<1>2. PICK n \in S : \A m \in S : ~(<<m, n>> \in R)
  BY <1>1, WFMin
<1>3. \A m \in S : ~(m < n)
  BY <1>2 DEF R, OpToRel
<1>4. QED BY <1>3

(* A filing is its company and its number.                                 *)
LEMMA FilingForm ==
    ASSUME NEW f \in Filings
    PROVE  f = <<f[1], f[2]>> /\ f[1] \in Issuers /\ f[2] \in 1..MaxFilings /\ f[2] \in Nat
BY SweepNumbers DEF Filings

LEMMA TickersFile == ASSUME NEW t \in Tickers PROVE Issuer[t] \in Issuers
BY DEF Issuers

LEMMA NewestIsAFiling ==
    ASSUME published \in [Issuers -> 1..MaxFilings], NEW t \in Tickers
    PROVE  Newest(t) \in Filings /\ Newest(t)[1] = Issuer[t] /\ Newest(t)[2] = published[Issuer[t]]
BY TickersFile DEF Newest, Filings

(* A row of the table names a ticker and who read it.                      *)
LEMMA RowForm ==
    ASSUME RowsOK, NEW f \in Filings
    PROVE  /\ table[f] # NoRow => table[f].ticker \in Tickers /\ table[f].read \in Reads
           /\ table[f].ticker \in Tickers => table[f] # NoRow
           /\ table[f].read \in Reads => table[f] # NoRow
BY SweepNumbers DEF RowsOK

-----------------------------------------------------------------------------
\* The table with the read's row, before the old rows go.
Merged(w) == [table EXCEPT ![w.item.filing] = [ticker |-> w.item.ticker, read |-> w.read]]
MergedRows(w) == {g \in Filings : Merged(w)[g].ticker = w.item.ticker}
NewerRows(w, f) == {g \in Filings : Merged(w)[g].ticker = w.item.ticker /\ g[2] > f[2]}
Goes(w, f) == Merged(w)[f].ticker = w.item.ticker /\ Cardinality(NewerRows(w, f)) >= Keep

LEMMA StoredIs ==
    ASSUME NEW w
    PROVE  Stored(w) = [f \in Filings |-> IF Goes(w, f) THEN NoRow ELSE Merged(w)[f]]
BY DEF Stored, Goes, Merged, NewerRows, Newer

(* The merged rows of the read's ticker: at most one more than are kept,    *)
(* all of filings its company has made.                                    *)
LEMMA MergedForm ==
    ASSUME RowsOK, NEW w \in Work, w.item.filing = FilingOf(w.item)
    PROVE  /\ Merged(w) \in [Filings -> {NoRow} \cup [ticker : Tickers, read : Reads]]
           /\ Merged(w)[w.item.filing] = [ticker |-> w.item.ticker, read |-> w.read]
           /\ \A f \in Filings : f # w.item.filing => Merged(w)[f] = table[f]
           /\ w.item.filing \in Filings /\ w.item.ticker \in Tickers /\ w.read \in Reads
           /\ w.item.filing[1] = Issuer[w.item.ticker]
           /\ w.item.filing[2] <= published[Issuer[w.item.ticker]]
           /\ w.item.filing[2] >= published[Issuer[w.item.ticker]] - 1
<1>1. w.item \in Item /\ w.read \in Reads
  BY DEF Work
<1>2. w.item.filing \in Filings /\ w.item.ticker \in Tickers
  BY <1>1 DEF Item
<1>3. published[Issuer[w.item.ticker]] \in Nat
  BY <1>2, TickersFile, SweepNumbers DEF RowsOK
<1>4. /\ w.item.filing[1] = Issuer[w.item.ticker]
      /\ w.item.filing[2] <= published[Issuer[w.item.ticker]]
      /\ w.item.filing[2] >= published[Issuer[w.item.ticker]] - 1
  BY <1>3 DEF FilingOf, Newest
<1>5. QED BY <1>1, <1>2, <1>4 DEF Merged, RowsOK

LEMMA MergedRowsForm ==
    ASSUME RowsOK, NEW w \in Work, w.item.filing = FilingOf(w.item)
    PROVE  /\ IsFiniteSet(MergedRows(w)) /\ Cardinality(MergedRows(w)) \in Nat
           /\ Cardinality(MergedRows(w)) <= Keep + 1
           /\ \A g \in MergedRows(w) : g[1] = Issuer[w.item.ticker] /\ g[2] <= published[g[1]]
<1> DEFINE x == w.item
<1>1. x.ticker \in Tickers /\ x.filing \in Filings
  BY MergedForm
<1>2. MergedRows(w) \subseteq Rows(x.ticker) \cup {x.filing}
  <2>1. SUFFICES ASSUME NEW g \in Filings, Merged(w)[g].ticker = x.ticker, g # x.filing
                 PROVE  table[g].ticker = x.ticker
    BY Zenon DEF MergedRows, Rows
  <2>2. Merged(w)[g] = table[g]
    BY <2>1, MergedForm
  <2>3. QED BY <2>1, <2>2
<1>3. IsFiniteSet(Rows(x.ticker)) /\ Cardinality(Rows(x.ticker)) <= Keep
      /\ Cardinality(Rows(x.ticker)) \in Nat
  BY <1>1, FS_CardinalityType DEF RowsOK
<1>4. IsFiniteSet(Rows(x.ticker) \cup {x.filing})
      /\ Cardinality(Rows(x.ticker) \cup {x.filing}) <= Keep + 1
      /\ Cardinality(Rows(x.ticker) \cup {x.filing}) \in Nat
  <2>1. /\ IsFiniteSet(Rows(x.ticker) \cup {x.filing})
        /\ Cardinality(Rows(x.ticker) \cup {x.filing}) =
              IF x.filing \in Rows(x.ticker) THEN Cardinality(Rows(x.ticker))
                                             ELSE Cardinality(Rows(x.ticker)) + 1
    BY <1>3, FS_AddElement
  <2>2. QED BY <2>1, <1>3, SweepNumbers
<1>5. IsFiniteSet(MergedRows(w)) /\ Cardinality(MergedRows(w)) <= Keep + 1
      /\ Cardinality(MergedRows(w)) \in Nat
  <2>1. IsFiniteSet(MergedRows(w))
        /\ Cardinality(MergedRows(w)) <= Cardinality(Rows(x.ticker) \cup {x.filing})
    BY <1>2, <1>4, FS_Subset
  <2>2. Cardinality(MergedRows(w)) \in Nat
    BY <2>1, FS_CardinalityType
  <2>3. QED BY <2>1, <2>2, <1>4, SweepNumbers
<1>6. \A g \in MergedRows(w) : g[1] = Issuer[x.ticker] /\ g[2] <= published[g[1]]
  <2> SUFFICES ASSUME NEW g \in MergedRows(w)
               PROVE  g[1] = Issuer[x.ticker] /\ g[2] <= published[g[1]]
    OBVIOUS
  <2>1. CASE g = x.filing
    BY <2>1, MergedForm
  <2>2. CASE g # x.filing
    <3>1. g \in Filings /\ table[g].ticker = x.ticker
      BY <2>2, MergedForm DEF MergedRows
    <3>2. table[g] # NoRow
      BY <3>1, <1>1, RowForm
    <3>3. QED BY <3>1, <3>2 DEF RowsOK
  <2>3. QED BY <2>1, <2>2
<1>7. QED BY <1>5, <1>6

(* Whoever has no Keep newer rows stays; the newest filing and the one      *)
(* before always do.                                                       *)
LEMMA NewestStay ==
    ASSUME RowsOK, NEW w \in Work, w.item.filing = FilingOf(w.item),
           NEW f \in Filings, f[2] >= published[f[1]] - 1
    PROVE  ~Goes(w, f)
<1> SUFFICES ASSUME Merged(w)[f].ticker = w.item.ticker
             PROVE  ~(Cardinality(NewerRows(w, f)) >= Keep)
  BY DEF Goes
<1>1. f \in MergedRows(w) /\ f[1] = Issuer[w.item.ticker]
  BY MergedRowsForm DEF MergedRows
<1>2. published[f[1]] \in Nat
  BY <1>1, FilingForm, SweepNumbers DEF RowsOK
<1>3. NewerRows(w, f) \subseteq {<<f[1], published[f[1]]>>}
  <2> SUFFICES ASSUME NEW g \in NewerRows(w, f) PROVE g = <<f[1], published[f[1]]>>
    OBVIOUS
  <2>1. g \in MergedRows(w) /\ g[2] > f[2] /\ g \in Filings
    BY DEF NewerRows, MergedRows
  <2>2. g[1] = f[1] /\ g[2] <= published[f[1]]
    BY <2>1, <1>1, MergedRowsForm
  <2>3. g = <<g[1], g[2]>> /\ g[2] \in Nat /\ f[2] \in Nat
    BY <2>1, FilingForm
  <2>4. g[2] = published[f[1]]
    BY <2>1, <2>2, <2>3, <1>2
  <2>5. QED BY <2>2, <2>3, <2>4
<1>4. Cardinality(NewerRows(w, f)) <= 1 /\ Cardinality(NewerRows(w, f)) \in Nat
  <2> DEFINE one == {<<f[1], published[f[1]]>>}
  <2>1. IsFiniteSet(one) /\ Cardinality(one) = 1
    BY FS_Singleton
  <2> HIDE DEF one
  <2>2. NewerRows(w, f) \subseteq one
    BY <1>3 DEF one
  <2>3. IsFiniteSet(NewerRows(w, f)) /\ Cardinality(NewerRows(w, f)) <= Cardinality(one)
    BY <2>1, <2>2, FS_Subset
  <2>4. QED BY <2>1, <2>3, FS_CardinalityType
<1>5. QED BY <1>4, SweepNumbers

(* A ticker's rows never outnumber what is kept: of one too many the oldest  *)
(* goes.                                                                   *)
LEMMA OldestGoes ==
    ASSUME RowsOK, NEW w \in Work, w.item.filing = FilingOf(w.item),
           Cardinality(MergedRows(w)) = Keep + 1
    PROVE  \E f \in MergedRows(w) : Goes(w, f)
<1> DEFINE numbers == {g[2] : g \in MergedRows(w)}
<1>1. numbers \in SUBSET Nat
  BY FilingForm DEF MergedRows
<1>2. MergedRows(w) # {}
  BY MergedRowsForm, FS_EmptySet, SweepNumbers
<1>3. numbers # {}
  BY <1>2
<1>4. PICK n \in numbers : \A m \in numbers : n <= m
  <2> HIDE DEF numbers
  <2>1. QED BY <1>1, <1>3, LeastNumber
<1>5. PICK f \in MergedRows(w) : f[2] = n
  OBVIOUS
<1>6. NewerRows(w, f) = MergedRows(w) \ {f}
  <2>1. ASSUME NEW g \in MergedRows(w), g # f PROVE g[2] > f[2]
    <3>1. g[1] = f[1]
      BY MergedRowsForm
    <3>2. g = <<g[1], g[2]>> /\ f = <<f[1], f[2]>> /\ g[2] \in Nat /\ f[2] \in Nat
      BY FilingForm DEF MergedRows
    <3>3. g[2] # f[2]
      BY <2>1, <3>1, <3>2
    <3>4. f[2] <= g[2]
      BY <1>4, <1>5
    <3>5. QED BY <3>2, <3>3, <3>4
  <2>2. f[2] \in Nat
    BY FilingForm DEF MergedRows
  <2>3. QED BY <2>1, <2>2 DEF NewerRows, MergedRows
<1>7. Cardinality(NewerRows(w, f)) = Keep
  <2>1. IsFiniteSet(MergedRows(w))
    BY MergedRowsForm
  <2>2. Cardinality(MergedRows(w) \ {f}) = Cardinality(MergedRows(w)) - 1
    BY <2>1, FS_RemoveElement
  <2>3. QED BY <2>2, <1>6, SweepNumbers
<1>8. QED BY <1>7, SweepNumbers DEF Goes, MergedRows

(* Storing a read keeps the table's form.                                  *)
LEMMA StoredRows ==
    ASSUME RowsOK, NEW w \in Work, w.item.filing = FilingOf(w.item),
           table' = Stored(w), UNCHANGED published
    PROVE  RowsOK'
<1> DEFINE x == w.item
<1>1. table' = [f \in Filings |-> IF Goes(w, f) THEN NoRow ELSE Merged(w)[f]]
  BY StoredIs
<1>m. Merged(w) \in [Filings -> {NoRow} \cup [ticker : Tickers, read : Reads]]
  BY MergedForm
<1>x. /\ Merged(w)[x.filing].ticker = x.ticker
      /\ x.filing[1] = Issuer[x.ticker] /\ x.filing[2] <= published[x.filing[1]]
  <2>1. /\ Merged(w)[x.filing] = [ticker |-> x.ticker, read |-> w.read]
        /\ x.filing[1] = Issuer[x.ticker] /\ x.filing[2] <= published[Issuer[x.ticker]]
    BY MergedForm
  <2>2. QED BY <2>1
<1>o. \A f \in Filings : f # x.filing => Merged(w)[f] = table[f]
  BY MergedForm
<1>2. table' \in [Filings -> {NoRow} \cup [ticker : Tickers, read : Reads]]
  BY <1>1, <1>m
<1>3. ASSUME NEW f \in Filings, table'[f] # NoRow
      PROVE  Issuer[table'[f].ticker] = f[1] /\ f[2] <= published[f[1]]
  <2>1. table'[f] = Merged(w)[f]
    BY <1>1, <1>3
  <2>2. CASE f = x.filing
    BY <2>1, <2>2, <1>x
  <2>3. CASE f # x.filing
    BY <1>3, <2>1, <2>3, <1>o DEF RowsOK
  <2>4. QED BY <2>2, <2>3
<1>4. ASSUME NEW t \in Tickers PROVE IsFiniteSet(Rows(t)') /\ Cardinality(Rows(t)') <= Keep
  <2>1. \A f \in Rows(t)' : f \in Filings /\ ~Goes(w, f) /\ Merged(w)[f].ticker = t
    BY <1>1, SweepNumbers DEF Rows
  <2>2. CASE t # x.ticker
    <3>1. Rows(t)' \subseteq Rows(t)
      BY <2>1, <2>2, <1>x, <1>o DEF Rows
    <3>2. IsFiniteSet(Rows(t)) /\ Cardinality(Rows(t)) <= Keep
      BY DEF RowsOK
    <3>3. IsFiniteSet(Rows(t)') /\ Cardinality(Rows(t)') <= Cardinality(Rows(t))
      BY <3>1, <3>2, FS_Subset
    <3>4. QED BY <3>2, <3>3, FS_CardinalityType, SweepNumbers
  <2>3. CASE t = x.ticker
    <3>1. Rows(t)' \subseteq MergedRows(w) /\ \A f \in Rows(t)' : ~Goes(w, f)
      BY <2>1, <2>3 DEF MergedRows
    <3>2. PICK S \in SUBSET MergedRows(w) :
             Rows(t)' \subseteq S /\ IsFiniteSet(S) /\ Cardinality(S) \in Nat /\ Cardinality(S) <= Keep
      <4>1. CASE Cardinality(MergedRows(w)) = Keep + 1
        <5>1. PICK f \in MergedRows(w) : Goes(w, f)
          BY <4>1, OldestGoes
        <5>2. Rows(t)' \subseteq MergedRows(w) \ {f}
          BY <3>1, <5>1
        <5>3. IsFiniteSet(MergedRows(w))
          BY MergedRowsForm
        <5>4. IsFiniteSet(MergedRows(w) \ {f})
              /\ Cardinality(MergedRows(w) \ {f}) = Cardinality(MergedRows(w)) - 1
          BY <5>3, FS_RemoveElement
        <5>5. QED BY <5>2, <5>4, <4>1, SweepNumbers
      <4>2. CASE Cardinality(MergedRows(w)) # Keep + 1
        <5>1. Cardinality(MergedRows(w)) <= Keep
          BY <4>2, MergedRowsForm, SweepNumbers
        <5>2. QED BY <5>1, <3>1, MergedRowsForm
      <4>3. QED BY <4>1, <4>2
    <3>3. IsFiniteSet(Rows(t)') /\ Cardinality(Rows(t)') <= Cardinality(S)
      BY <3>2, FS_Subset
    <3>4. QED BY <3>2, <3>3, FS_CardinalityType, SweepNumbers
  <2>4. QED BY <2>2, <2>3
<1>5. QED BY <1>2, <1>3, <1>4 DEF RowsOK

(* What storing a read leaves: the read's own row, and the rows of every     *)
(* company's newest filing and of the one before.                          *)
LEMMA StoredRead ==
    ASSUME RowsOK, NEW w \in Work, w.item.filing = FilingOf(w.item), table' = Stored(w)
    PROVE  /\ table'[w.item.filing] = [ticker |-> w.item.ticker, read |-> w.read]
           /\ \A f \in Filings : f # w.item.filing => table'[f] \in {table[f], NoRow}
           /\ \A f \in Filings : f # w.item.filing /\ f[2] >= published[f[1]] - 1
                 => table'[f] = table[f]
<1> DEFINE x == w.item
<1>1. table' = [f \in Filings |-> IF Goes(w, f) THEN NoRow ELSE Merged(w)[f]]
  BY StoredIs
<1>2. x.filing \in Filings /\ x.filing[2] >= published[x.filing[1]] - 1
  <2>1. /\ x.filing \in Filings /\ x.filing[1] = Issuer[x.ticker]
        /\ x.filing[2] >= published[Issuer[x.ticker]] - 1
    BY MergedForm
  <2>2. QED BY <2>1
<1>3. Merged(w)[x.filing] = [ticker |-> x.ticker, read |-> w.read]
  BY MergedForm
<1>4. \A f \in Filings : f # x.filing => Merged(w)[f] = table[f]
  BY MergedForm
<1>5. \A f \in Filings : f[2] >= published[f[1]] - 1 => ~Goes(w, f)
  BY NewestStay
<1>6. table'[x.filing] = [ticker |-> x.ticker, read |-> w.read]
  BY <1>1, <1>2, <1>3, <1>5
<1>7. \A f \in Filings : f # x.filing => table'[f] \in {table[f], NoRow}
  BY <1>1, <1>4
<1>8. \A f \in Filings : f # x.filing /\ f[2] >= published[f[1]] - 1 => table'[f] = table[f]
  BY <1>1, <1>4, <1>5
<1>9. QED BY <1>6, <1>7, <1>8

-----------------------------------------------------------------------------
LEMMA InvInit == Init => Inv
<1> SUFFICES ASSUME Init PROVE Inv
  OBVIOUS
<1>1. RowsOK
  <2>1. \A t \in Tickers : Rows(t) = {}
    BY SweepNumbers DEF Init, Rows
  <2>2. \A t \in Tickers : IsFiniteSet(Rows(t)) /\ Cardinality(Rows(t)) <= Keep
    BY <2>1, FS_EmptySet, SweepNumbers
  <2>3. /\ published \in [Issuers -> 1..MaxFilings]
        /\ table \in [Filings -> {NoRow} \cup [ticker : Tickers, read : Reads]]
        /\ \A f \in Filings : table[f] = NoRow
    BY SweepNumbers DEF Init
  <2>4. QED BY <2>2, <2>3 DEF RowsOK
<1>2. ItemsOK /\ PhaseOK /\ HandsOK
  BY DEF Init, ItemsOK, PhaseOK, HandsOK, InHand
<1>3. DueOK /\ PromotedOK /\ EveryItemIsAccountedFor
  BY DEF Init, DueOK, PromotedOK, EveryItemIsAccountedFor, InHand
<1>4. QED BY <1>1, <1>2, <1>3 DEF Inv

(* A company files between sweeps, when nothing else is going on.           *)
LEMMA InvFile == ASSUME Inv, NEW i \in Issuers, File(i) PROVE Inv'
<1>1. /\ phase = "idle" /\ published[i] < MaxFilings
      /\ published' = [published EXCEPT ![i] = @ + 1]
      /\ UNCHANGED <<table, phase, sweeps, mode, tiers, todo, queue, running, failed, stopped>>
  BY DEF File
<1>2. todo = {} /\ queue = {} /\ running = {} /\ failed = {} /\ InHand = {}
      /\ \A t \in Tickers : tiers[t] = "none"
  BY <1>1 DEF Inv, PhaseOK, ItemsOK, InHand
<1>3. RowsOK'
  <2>1. published' \in [Issuers -> 1..MaxFilings]
        /\ \A j \in Issuers : published[j] \in Nat /\ published'[j] >= published[j] /\ published'[j] \in Nat
    BY <1>1, SweepNumbers DEF Inv, RowsOK
  <2>2. \A f \in Filings : table[f] # NoRow => Issuer[table[f].ticker] = f[1] /\ f[2] <= published'[f[1]]
    BY <2>1, FilingForm DEF Inv, RowsOK
  <2>3. QED BY <1>1, <2>1, <2>2 DEF Inv, RowsOK, Rows
<1>4. ItemsOK' /\ PhaseOK' /\ HandsOK' /\ DueOK' /\ PromotedOK' /\ EveryItemIsAccountedFor'
  BY <1>1, <1>2 DEF Inv, ItemsOK, PhaseOK, HandsOK, DueOK, PromotedOK, EveryItemIsAccountedFor, InHand
<1>5. QED BY <1>3, <1>4 DEF Inv

(* What stays as it is where the table does.                               *)
LEMMA RowsStand == ASSUME RowsOK, UNCHANGED <<table, published>> PROVE RowsOK'
BY DEF RowsOK, Rows

(* An item's filing, by its company and its number.                        *)
LEMMA FilingParts ==
    ASSUME NEW x
    PROVE  /\ FilingOf(x)[1] = Issuer[x.ticker]
           /\ x.previous => FilingOf(x)[2] = published[Issuer[x.ticker]] - 1
           /\ ~x.previous => FilingOf(x)[2] = published[Issuer[x.ticker]] /\ FilingOf(x) = Newest(x.ticker)
BY DEF FilingOf, Newest

\* The items of a sweep, as Start settles them.
Settled(flag, ts, readable, bringers, items) ==
    /\ ts \in [Tickers -> {"A", "B", "none"}]
    /\ readable \in SUBSET {t \in Tickers : ts[t] # "none"}
    /\ bringers \in Bringers(flag, ts, readable)
    /\ \E previous \in SUBSET PreviousOf(flag, ts, bringers) :
       \E dropped \in SUBSET BulkStored(flag, ts, readable) :
          items = {AsItem(ts, t, Newest(t), FALSE, FALSE) : t \in bringers} \cup previous \cup dropped

(* A ticker that brings its company's document is due, and of tier A if     *)
(* any of the company's due ones is; there is one for each document.       *)
LEMMA BringersForm ==
    ASSUME NEW flag, NEW ts, NEW readable, NEW bringers, NEW items,
           Settled(flag, ts, readable, bringers, items)
    PROVE  /\ readable \subseteq Tickers
           /\ \A t \in bringers : t \in readable /\ IsDue(flag, ts, t)
           /\ \A t \in bringers, u \in readable :
                 Issuer[u] = Issuer[t] /\ IsDue(flag, ts, u) /\ ts[u] = "A" => ts[t] = "A"
           /\ \A t, u \in bringers : Issuer[t] = Issuer[u] => t = u
           /\ \A t \in readable : IsDue(flag, ts, t) /\ ts[t] = "A" =>
                 \E u \in bringers : Issuer[u] = Issuer[t]
BY DEF Bringers, Brings, Settled

(* What a new sweep sets out to read.                                      *)
LEMMA StartItems ==
    ASSUME NEW flag, NEW ts, NEW readable, NEW bringers, NEW items,
           Settled(flag, ts, readable, bringers, items), NEW x \in items
    PROVE  /\ x = AsItem(ts, x.ticker, x.filing, x.previous, x.stored)
           /\ x.ticker \in readable /\ x.previous \in BOOLEAN /\ x.stored \in BOOLEAN
           /\ x.filing = FilingOf(x)
           /\ x.previous => published[Issuer[x.ticker]] > 1 /\ Have(flag, x.filing) = "none"
           /\ ~x.stored => x.ticker \in bringers
           /\ x.stored => /\ flag = "recheck" /\ ~x.previous
                          /\ Have(flag, x.filing) \in {"bulk", "flagged"}
<1>1. PICK previous \in SUBSET PreviousOf(flag, ts, bringers), dropped \in SUBSET BulkStored(flag, ts, readable) :
          items = {AsItem(ts, t, Newest(t), FALSE, FALSE) : t \in bringers} \cup previous \cup dropped
  BY DEF Settled
<1>2. bringers \subseteq readable
  BY BringersForm
<1>3. CASE \E t \in bringers : x = AsItem(ts, t, Newest(t), FALSE, FALSE)
  BY <1>2, <1>3 DEF AsItem, FilingOf
<1>4. CASE x \in previous
  <2>1. PICK t \in bringers : /\ published[Issuer[t]] > 1
                              /\ Have(flag, <<Issuer[t], published[Issuer[t]] - 1>>) = "none"
                              /\ x = AsItem(ts, t, <<Issuer[t], published[Issuer[t]] - 1>>, TRUE, FALSE)
    BY <1>4 DEF PreviousOf
  <2>2. QED BY <1>2, <2>1 DEF AsItem, FilingOf
<1>5. CASE x \in dropped
  <2>1. PICK t \in readable : /\ flag = "recheck" /\ Have(flag, Newest(t)) \in {"bulk", "flagged"}
                              /\ x = AsItem(ts, t, Newest(t), FALSE, TRUE)
    BY <1>5 DEF BulkStored
  <2>2. QED BY <2>1 DEF AsItem, FilingOf
<1>6. QED BY <1>1, <1>3, <1>4, <1>5

(* Two items of a new sweep for one document: the sweep rechecks, and the    *)
(* reader reads both.                                                      *)
LEMMA StartPairs ==
    ASSUME RowsOK, NEW flag, NEW ts, NEW readable, NEW bringers, NEW items,
           Settled(flag, ts, readable, bringers, items),
           NEW x \in items, NEW y \in items, x.filing = y.filing, x # y
    PROVE  flag = "recheck" /\ ~BulkFirst(x)
<1>1. x = AsItem(ts, x.ticker, x.filing, x.previous, x.stored) /\ x.ticker \in readable
      /\ x.previous \in BOOLEAN /\ x.stored \in BOOLEAN /\ x.filing = FilingOf(x)
  BY StartItems
<1>2. y = AsItem(ts, y.ticker, y.filing, y.previous, y.stored) /\ y.ticker \in readable
      /\ y.previous \in BOOLEAN /\ y.stored \in BOOLEAN /\ y.filing = FilingOf(y)
  BY StartItems
<1>3. readable \subseteq Tickers
  BY BringersForm
<1>4. Issuer[x.ticker] = Issuer[y.ticker]
  <2>1. FilingOf(x)[1] = Issuer[x.ticker] /\ FilingOf(y)[1] = Issuer[y.ticker]
    BY FilingParts
  <2>2. QED BY <1>1, <1>2, <2>1
<1>5. published[Issuer[x.ticker]] \in Nat
  BY <1>1, <1>3, TickersFile, SweepNumbers DEF RowsOK
<1>6. x.previous = y.previous
  <2>1. /\ x.previous => FilingOf(x)[2] = published[Issuer[x.ticker]] - 1
        /\ ~x.previous => FilingOf(x)[2] = published[Issuer[x.ticker]]
        /\ y.previous => FilingOf(y)[2] = published[Issuer[x.ticker]] - 1
        /\ ~y.previous => FilingOf(y)[2] = published[Issuer[x.ticker]]
    BY <1>4, FilingParts
  <2>2. FilingOf(x)[2] = FilingOf(y)[2]
    BY <1>1, <1>2
  <2>3. QED BY <1>1, <1>2, <1>5, <2>1, <2>2
<1>7. x.stored \/ y.stored
  <2> SUFFICES ASSUME ~x.stored, ~y.stored PROVE FALSE
    OBVIOUS
  <2>1. x.ticker \in bringers /\ y.ticker \in bringers
    BY StartItems
  <2>2. x.ticker = y.ticker
    BY <1>4, <2>1, BringersForm
  <2>3. QED BY <1>1, <1>2, <1>6, <2>2
<1>8. flag = "recheck"
  BY <1>7, StartItems
<1>9. CASE x.stored
  BY <1>8, <1>9 DEF BulkFirst
<1>10. CASE ~x.stored
  <2>1. y.stored
    BY <1>7, <1>10
  <2>2. Have(flag, y.filing) \in {"bulk", "flagged"} /\ ~y.previous
    BY <2>1, StartItems
  <2>3. x.ticker \in bringers /\ x.filing = Newest(x.ticker)
    BY <1>1, <1>6, <1>10, <2>2, StartItems, FilingParts
  <2>4. IsDue(flag, ts, x.ticker)
    BY <2>3, BringersForm
  <2>5. ts[x.ticker] = "A"
    BY <2>2, <2>3, <2>4 DEF IsDue
  <2>6. x.tier = ts[x.ticker]
    BY <1>1 DEF AsItem
  <2>7. QED BY <1>8, <2>5, <2>6 DEF BulkFirst
<1>11. QED BY <1>9, <1>10

LEMMA InvStart == ASSUME Inv, Start PROVE Inv'
<1>0. phase = "idle"
  BY DEF Start
<1>1. PICK flag \in Modes, ts \in [Tickers -> {"A", "B", "none"}] :
        \E readable \in SUBSET {t \in Tickers : ts[t] # "none"} :
        \E bringers \in Bringers(flag, ts, readable) :
        \E previous \in SUBSET PreviousOf(flag, ts, bringers) :
        \E dropped \in SUBSET BulkStored(flag, ts, readable) :
            SetOut(flag, ts, readable,
                   {AsItem(ts, t, Newest(t), FALSE, FALSE) : t \in bringers} \cup previous \cup dropped)
  BY DEF Start
<1>s. PICK readable \in SUBSET {t \in Tickers : ts[t] # "none"} :
        \E bringers \in Bringers(flag, ts, readable) :
        \E previous \in SUBSET PreviousOf(flag, ts, bringers) :
        \E dropped \in SUBSET BulkStored(flag, ts, readable) :
            SetOut(flag, ts, readable,
                   {AsItem(ts, t, Newest(t), FALSE, FALSE) : t \in bringers} \cup previous \cup dropped)
  BY <1>1
<1>t. PICK bringers \in Bringers(flag, ts, readable) :
        \E previous \in SUBSET PreviousOf(flag, ts, bringers) :
        \E dropped \in SUBSET BulkStored(flag, ts, readable) :
            SetOut(flag, ts, readable,
                   {AsItem(ts, t, Newest(t), FALSE, FALSE) : t \in bringers} \cup previous \cup dropped)
  BY <1>s
<1>2. /\ Settled(flag, ts, readable, bringers, todo')
      /\ phase = "idle" /\ queue' = todo'
      /\ tiers' = [t \in Tickers |-> IF t \in readable THEN ts[t] ELSE "none"]
      /\ phase' = "reading" /\ mode' = flag /\ failed' = {} /\ stopped' = FALSE
      /\ UNCHANGED <<published, table, running>>
  BY <1>t, <1>0 DEF SetOut, Settled
<1>3. running = {} /\ running' = {} /\ InHand' = {}
  BY <1>2 DEF Inv, PhaseOK, InHand
<1>4. RowsOK'
  BY <1>2, RowsStand DEF Inv
<1>5. readable \subseteq Tickers /\ ts \in [Tickers -> {"A", "B", "none"}] /\ \A t \in readable : ts[t] \in {"A", "B"}
  BY <1>2 DEF Settled
<1>6. \A x \in todo' :
        /\ x = AsItem(ts, x.ticker, x.filing, x.previous, x.stored)
        /\ x.ticker \in readable /\ x.previous \in BOOLEAN /\ x.stored \in BOOLEAN
        /\ x.filing = FilingOf(x)
        /\ x.previous => published[Issuer[x.ticker]] > 1 /\ Have(flag, x.filing) = "none"
        /\ ~x.stored => x.ticker \in bringers
        /\ x.stored => /\ flag = "recheck" /\ ~x.previous
                       /\ Have(flag, x.filing) \in {"bulk", "flagged"}
  BY <1>2, StartItems
<1>7. \A x \in todo' : x.tier = ts[x.ticker] /\ x.ticker \in Tickers /\ x.tier \in {"A", "B"}
  BY <1>5, <1>6 DEF AsItem
<1>p. \A t \in Tickers : published[Issuer[t]] \in Nat /\ published[Issuer[t]] \in 1..MaxFilings /\ Issuer[t] \in Issuers
  BY TickersFile, SweepNumbers DEF Inv, RowsOK
<1>8. ItemsOK'
  <2>1. ASSUME NEW x \in todo' PROVE x.filing \in Filings
    <3>1. x.filing = FilingOf(x) /\ x.ticker \in Tickers
      BY <1>6, <1>7
    <3>2. CASE x.previous
      <4>1. published[Issuer[x.ticker]] - 1 \in 1..MaxFilings
        BY <1>6, <1>p, <3>1, <3>2, SweepNumbers
      <4>2. QED BY <1>p, <3>1, <3>2, <4>1 DEF FilingOf, Filings
    <3>3. CASE ~x.previous
      BY <1>p, <3>1, <3>3 DEF FilingOf, Newest, Filings
    <3>4. QED BY <3>2, <3>3
  <2>2. todo' \subseteq Item
    BY <1>6, <1>7, <2>1 DEF Item, AsItem
  <2>3. \A x \in todo' : x.filing = FilingOf(x)' /\ tiers'[x.ticker] = x.tier
    BY <1>2, <1>6, <1>7 DEF FilingOf, Newest
  <2>4. \A x, y \in todo' : x.filing = y.filing /\ x # y => flag = "recheck" /\ ~BulkFirst(x) /\ ~BulkFirst(y)
    <3> SUFFICES ASSUME NEW x \in todo', NEW y \in todo', x.filing = y.filing, x # y
                 PROVE  flag = "recheck" /\ ~BulkFirst(x) /\ ~BulkFirst(y)
      OBVIOUS
    <3>1. RowsOK
      BY DEF Inv
    <3>2. flag = "recheck" /\ ~BulkFirst(x)
      BY <1>2, <3>1, StartPairs
    <3>3. ~BulkFirst(y)
      BY <1>2, <3>1, StartPairs
    <3>4. QED BY <3>2, <3>3
  <2>5. QED BY <1>2, <1>3, <2>2, <2>3, <2>4 DEF ItemsOK, BulkFirst
<1>9. PhaseOK' /\ HandsOK'
  BY <1>2, <1>3 DEF PhaseOK, HandsOK
<1>10. DueOK'
  <2> SUFFICES ASSUME NEW x \in todo', BulkFirst(x), flag # "force" PROVE table[x.filing] = NoRow
    BY <1>2, <1>3 DEF DueOK, BulkFirst
  <2>1. ~x.stored /\ ts[x.ticker] = "B" /\ x.ticker \in bringers /\ x.filing \in Filings
    BY <1>6, <1>7, <1>8 DEF BulkFirst, ItemsOK, Item
  <2>2. Have(flag, x.filing) = "none"
    <3>1. CASE x.previous
      BY <1>6, <3>1
    <3>2. CASE ~x.previous
      <4>1. x.filing = Newest(x.ticker)
        BY <1>6, <3>2, FilingParts
      <4>2. IsDue(flag, ts, x.ticker)
        BY <1>2, <2>1, BringersForm
      <4>3. QED BY <2>1, <4>1, <4>2 DEF IsDue
    <3>3. QED BY <3>1, <3>2
  <2>3. table[x.filing].read = "none"
    BY <2>2 DEF Have
  <2>4. QED BY <2>1, <2>3, RowForm DEF Inv, Reads
<1>11. PromotedOK'
  <2> SUFFICES ASSUME NEW t \in Tickers, tiers'[t] = "A"
               PROVE  /\ \A x \in todo' : x.filing = Newest(t) => ~BulkFirst(x)
                      /\ table[Newest(t)].read = "reader" \/ \E x \in todo' : x.filing = Newest(t)
    BY <1>2 DEF PromotedOK, Newest, BulkFirst
  <2>1. t \in readable /\ ts[t] = "A"
    BY <1>2
  <2>2. ASSUME NEW x \in todo', x.filing = Newest(t), BulkFirst(x) PROVE FALSE
    <3>1. ~x.stored /\ ts[x.ticker] = "B" /\ x.ticker \in bringers /\ x.filing = FilingOf(x)
      BY <1>6, <1>7, <2>2 DEF BulkFirst
    <3>2. Issuer[x.ticker] = Issuer[t]
      <4>1. Newest(t)[1] = Issuer[t]
        BY DEF Newest
      <4>2. QED BY <2>2, <3>1, <4>1, FilingParts
    <3>3. ~x.previous
      <4>1. Newest(t)[2] = published[Issuer[t]]
        BY DEF Newest
      <4>2. x.previous => FilingOf(x)[2] = published[Issuer[t]] - 1
        BY <3>2, FilingParts
      <4>3. QED BY <1>p, <2>2, <3>1, <4>1, <4>2
    <3>4. Newest(x.ticker) = Newest(t)
      BY <3>2 DEF Newest
    <3>5. IsDue(flag, ts, x.ticker)
      BY <1>2, <3>1, BringersForm
    <3>6. IsDue(flag, ts, t)
      BY <2>1, <3>1, <3>4, <3>5 DEF IsDue
    <3>7. ts[x.ticker] = "A"
      BY <1>2, <2>1, <3>1, <3>2, <3>6, BringersForm
    <3>8. QED BY <3>1, <3>7
  <2>3. CASE IsDue(flag, ts, t)
    <3>1. PICK u \in bringers : Issuer[u] = Issuer[t]
      BY <1>2, <2>1, <2>3, BringersForm
    <3>2. AsItem(ts, u, Newest(u), FALSE, FALSE) \in todo'
      BY <1>2 DEF Settled
    <3>3. AsItem(ts, u, Newest(u), FALSE, FALSE).filing = Newest(t)
      BY <3>1 DEF AsItem, Newest
    <3>4. QED BY <2>2, <3>2, <3>3
  <2>4. CASE ~IsDue(flag, ts, t)
    BY <2>1, <2>2, <2>4 DEF IsDue, Have
  <2>5. QED BY <2>3, <2>4
<1>12. EveryItemIsAccountedFor'
  BY <1>2 DEF EveryItemIsAccountedFor
<1>13. QED BY <1>4, <1>8, <1>9, <1>10, <1>11, <1>12 DEF Inv


-----------------------------------------------------------------------------
LEMMA InvSubmit == ASSUME Inv, NEW x \in queue, Submit(x) PROVE Inv'
<1> DEFINE hand == [item |-> x, kept |-> FALSE, read |-> "reader",
                    stage |-> IF x.tier = "A" \/ x.stored THEN "reader" ELSE "bulk"]
<1>1. /\ phase = "reading" /\ queue' = queue \ {x} /\ running' = running \cup {hand}
      /\ UNCHANGED <<published, table, phase, sweeps, mode, tiers, todo, failed, stopped>>
  BY DEF Submit
<1>2. x \in todo /\ x \in Item /\ x \notin InHand
  BY DEF Inv, ItemsOK, HandsOK, InHand
<1>3. hand \in Work /\ hand.item = x /\ hand.kept = FALSE /\ hand.read = "reader"
      /\ (hand.stage \in {"bulk", "escalated"} => BulkFirst(x))
  BY <1>2 DEF Work, Item, Reads, BulkFirst
<1> HIDE DEF hand
<1>4. InHand' = InHand \cup {x}
  BY <1>1, <1>3 DEF InHand
<1>5. RowsOK'
  BY <1>1, RowsStand DEF Inv
<1>6. ItemsOK'
  BY <1>1, <1>2, <1>4 DEF Inv, ItemsOK, FilingOf, Newest
<1>7. PhaseOK'
  BY <1>1 DEF Inv, PhaseOK
<1>8. HandsOK'
  <2>1. \A w \in running : w.item # x
    BY DEF Inv, HandsOK
  <2>2. QED BY <1>1, <1>3, <2>1 DEF Inv, HandsOK
<1>9. DueOK' /\ PromotedOK' /\ EveryItemIsAccountedFor'
  BY <1>1, <1>4 DEF Inv, DueOK, PromotedOK, EveryItemIsAccountedFor, Newest
<1>10. QED BY <1>5, <1>6, <1>7, <1>8, <1>9 DEF Inv

(* A worker goes on with its item.                                         *)
LEMMA InvAdvance ==
    ASSUME Inv, NEW w \in running,
           NEW stage \in {"bulk", "escalated", "reader", "read", "error", "refused"},
           NEW kept \in BOOLEAN, NEW read \in Reads, Advance(w, stage, kept, read),
           stage \in {"bulk", "escalated"} \/ kept \/ read # "reader" => BulkFirst(w.item)
    PROVE  Inv'
<1> DEFINE v == [w EXCEPT !.stage = stage, !.kept = kept, !.read = read]
<1>1. /\ running' = (running \ {w}) \cup {v}
      /\ UNCHANGED <<published, table, phase, sweeps, mode, tiers, todo, queue, failed, stopped>>
  BY DEF Advance
<1>2. w \in Work
  BY DEF Inv, HandsOK
<1>3. v \in Work /\ v.item = w.item /\ v.stage = stage /\ v.kept = kept /\ v.read = read
  BY <1>2 DEF Work
<1> HIDE DEF v
<1>4. InHand' = InHand
  BY <1>1, <1>3 DEF InHand
<1>5. RowsOK'
  BY <1>1, RowsStand DEF Inv
<1>6. ItemsOK'
  BY <1>1, <1>4 DEF Inv, ItemsOK, FilingOf, Newest
<1>7. PhaseOK'
  BY <1>1 DEF Inv, PhaseOK
<1>8. HandsOK'
  <2>1. running' \subseteq Work /\ \A u \in running' : u.item \notin queue'
    BY <1>1, <1>3 DEF Inv, HandsOK
  <2>2. \A u, s \in running' : u.item = s.item => u = s
    BY <1>1, <1>3 DEF Inv, HandsOK
  <2>3. \A u \in running' :
           u.stage \in {"bulk", "escalated"} \/ u.kept \/ u.read # "reader" => BulkFirst(u.item)
    BY <1>1, <1>3 DEF Inv, HandsOK
  <2>4. QED BY <2>1, <2>2, <2>3 DEF HandsOK
<1>9. DueOK' /\ PromotedOK' /\ EveryItemIsAccountedFor'
  BY <1>1, <1>4 DEF Inv, DueOK, PromotedOK, EveryItemIsAccountedFor, Newest
<1>10. QED BY <1>5, <1>6, <1>7, <1>8, <1>9 DEF Inv

LEMMA InvRead == ASSUME Inv, NEW w \in running, BulkRead(w) \/ ReaderRead(w) PROVE Inv'
<1>1. w.stage \in {"bulk", "escalated"} \/ w.kept => BulkFirst(w.item)
  BY DEF Inv, HandsOK
<1>2. w.kept \in BOOLEAN
  BY DEF Inv, HandsOK, Work
<1>3. CASE BulkRead(w)
  BY <1>1, <1>3, InvAdvance DEF BulkRead, Reads
<1>4. CASE ReaderRead(w)
  BY <1>1, <1>2, <1>4, InvAdvance DEF ReaderRead, Reads
<1>5. QED BY <1>3, <1>4

LEMMA InvDrained == ASSUME Inv, Drained PROVE Inv'
<1>1. /\ phase = "reading" /\ running = {} /\ (queue = {} \/ stopped) /\ phase' = "end"
      /\ UNCHANGED <<published, table, sweeps, mode, tiers, todo, queue, running, failed, stopped>>
  BY DEF Drained
<1>2. RowsOK'
  BY <1>1, RowsStand DEF Inv
<1>3. ItemsOK' /\ HandsOK' /\ PhaseOK'
  BY <1>1 DEF Inv, ItemsOK, HandsOK, PhaseOK, InHand, FilingOf, Newest
<1>4. DueOK' /\ PromotedOK' /\ EveryItemIsAccountedFor'
  BY <1>1 DEF Inv, DueOK, PromotedOK, EveryItemIsAccountedFor, InHand, Newest
<1>5. QED BY <1>2, <1>3, <1>4 DEF Inv

LEMMA InvExit == ASSUME Inv, Exit PROVE Inv'
<1>1. /\ phase = "end" /\ phase' = "idle" /\ tiers' = [t \in Tickers |-> "none"]
      /\ todo' = {} /\ queue' = {} /\ failed' = {} /\ UNCHANGED <<published, table, running>>
  BY DEF Exit
<1>2. running' = {} /\ InHand' = {}
  BY <1>1 DEF Inv, PhaseOK, InHand
<1>3. RowsOK'
  BY <1>1, RowsStand DEF Inv
<1>4. ItemsOK' /\ HandsOK' /\ PhaseOK'
  BY <1>1, <1>2 DEF ItemsOK, HandsOK, PhaseOK
<1>5. DueOK' /\ PromotedOK' /\ EveryItemIsAccountedFor'
  BY <1>1, <1>2 DEF DueOK, PromotedOK, EveryItemIsAccountedFor
<1>6. QED BY <1>3, <1>4, <1>5 DEF Inv

(* A finished read comes in.                                               *)
LEMMA InvCollect == ASSUME Inv, NEW w \in running, Collect(w) PROVE Inv'
<1> DEFINE x == w.item
<1>1. /\ w.stage \in {"read", "error", "refused"} /\ running' = running \ {w}
      /\ table' = IF w.stage = "read" THEN Stored(w) ELSE table
      /\ failed' = IF w.stage = "error" THEN failed \cup {x} ELSE failed
      /\ queue' = IF w.stage = "refused" THEN queue \cup {x} ELSE queue
      /\ stopped' = (stopped \/ w.stage = "refused")
      /\ UNCHANGED <<published, phase, sweeps, mode, tiers, todo>>
  BY DEF Collect
<1>2. w \in Work /\ x \in todo /\ x \in InHand /\ x \notin queue /\ x.filing = FilingOf(x) /\ x \in Item
  BY DEF Inv, HandsOK, ItemsOK, InHand
<1>3. InHand' = InHand \ {x}
  BY <1>1, <1>2 DEF Inv, HandsOK, InHand
<1>4. RowsOK'
  <2>1. CASE w.stage = "read"
    BY <1>1, <1>2, <2>1, StoredRows DEF Inv
  <2>2. CASE w.stage # "read"
    BY <1>1, <2>2, RowsStand DEF Inv
  <2>3. QED BY <2>1, <2>2
<1>5. ItemsOK'
  BY <1>1, <1>2, <1>3 DEF Inv, ItemsOK, FilingOf, Newest
<1>6. PhaseOK'
  BY <1>1 DEF Inv, PhaseOK
<1>7. HandsOK'
  <2>1. running' \subseteq Work /\ \A u, v \in running' : u.item = v.item => u = v
    BY <1>1 DEF Inv, HandsOK
  <2>2. \A u \in running' : u.item # x
    BY <1>1 DEF Inv, HandsOK
  <2>3. QED BY <1>1, <2>1, <2>2 DEF Inv, HandsOK
<1>8. ASSUME NEW y \in todo, y.filing # x.filing PROVE table'[y.filing] = table[y.filing]
  <2>1. y \in Item /\ y.filing = FilingOf(y)
    BY DEF Inv, ItemsOK
  <2>2. y.filing \in Filings /\ y.filing[2] >= published[y.filing[1]] - 1
    <3>1. y.ticker \in Tickers /\ y.previous \in BOOLEAN /\ y.filing \in Filings
      BY <2>1 DEF Item
    <3>2. published[Issuer[y.ticker]] \in Nat
      BY <3>1, TickersFile, SweepNumbers DEF Inv, RowsOK
    <3>3. QED BY <2>1, <3>1, <3>2, FilingParts
  <2>3. CASE w.stage = "read"
    BY <1>1, <1>2, <1>8, <2>2, <2>3, StoredRead DEF Inv
  <2>4. CASE w.stage # "read"
    BY <1>1, <2>4
  <2>5. QED BY <2>3, <2>4
<1>9. /\ w.stage = "read" => table'[x.filing] = [ticker |-> x.ticker, read |-> w.read]
      /\ w.stage # "read" => table' = table
  BY <1>1, <1>2, StoredRead DEF Inv
<1>10. w.read # "reader" => BulkFirst(x)
  BY DEF Inv, HandsOK
<1>11. DueOK'
  <2> SUFFICES ASSUME NEW y \in queue' \cup InHand', BulkFirst(y), mode # "force"
               PROVE  table'[y.filing] = NoRow
    BY <1>1 DEF DueOK, BulkFirst
  <2>1. y \in queue \cup InHand /\ y \in todo
    BY <1>1, <1>2, <1>3 DEF Inv, ItemsOK
  <2>2. table[y.filing] = NoRow
    BY <2>1 DEF Inv, DueOK
  <2>3. CASE y.filing # x.filing
    BY <1>8, <2>1, <2>2, <2>3
  <2>4. CASE y.filing = x.filing
    <3>1. y = x
      BY <1>2, <2>1, <2>4 DEF Inv, ItemsOK
    <3>2. w.stage = "refused"
      BY <1>1, <1>2, <1>3, <3>1
    <3>3. QED BY <1>9, <2>2, <3>2
  <2>5. QED BY <2>3, <2>4
<1>12. PromotedOK'
  <2> SUFFICES ASSUME NEW t \in Tickers, tiers[t] = "A"
               PROVE  /\ \A y \in todo : y.filing = Newest(t) => ~BulkFirst(y)
                      /\ table'[Newest(t)].read = "reader" \/ \E y \in todo : y.filing = Newest(t)
    BY <1>1 DEF PromotedOK, Newest, BulkFirst
  <2>1. \A y \in todo : y.filing = Newest(t) => ~BulkFirst(y)
    BY DEF Inv, PromotedOK
  <2>2. CASE \E y \in todo : y.filing = Newest(t)
    BY <2>1, <2>2
  <2>3. CASE ~\E y \in todo : y.filing = Newest(t)
    <3>1. table[Newest(t)].read = "reader" /\ Newest(t) # x.filing
      BY <1>2, <2>3 DEF Inv, PromotedOK
    <3>2. Newest(t) \in Filings /\ Newest(t)[2] = published[Newest(t)[1]]
          /\ published[Newest(t)[1]] \in Nat
      BY NewestIsAFiling, TickersFile, SweepNumbers DEF Inv, RowsOK
    <3>3. table'[Newest(t)] = table[Newest(t)]
      <4>1. CASE w.stage = "read"
        <5>1. \A f \in Filings : f # x.filing /\ f[2] >= published[f[1]] - 1 => table'[f] = table[f]
          BY <1>1, <1>2, <4>1, StoredRead DEF Inv
        <5>2. Newest(t)[2] >= published[Newest(t)[1]] - 1
          BY <3>2
        <5>3. QED BY <3>1, <3>2, <5>1, <5>2
      <4>2. CASE w.stage # "read"
        BY <1>1, <4>2
      <4>3. QED BY <4>1, <4>2
    <3>4. QED BY <2>1, <3>1, <3>3
  <2>4. QED BY <2>2, <2>3
<1>13. EveryItemIsAccountedFor'
  <2> SUFFICES ASSUME NEW y \in todo, y \notin queue', y \notin InHand', y \notin failed'
               PROVE  /\ table'[y.filing] # NoRow
                      /\ y.tier = "A" \/ y.stored => table'[y.filing].read = "reader"
    BY <1>1 DEF EveryItemIsAccountedFor
  <2>1. CASE y.filing # x.filing
    <3>1. y \notin queue \cup InHand \cup failed
      BY <1>1, <1>3, <2>1
    <3>2. QED BY <1>8, <2>1, <3>1 DEF Inv, EveryItemIsAccountedFor
  <2>2. CASE y.filing = x.filing /\ w.stage = "read"
    <3>1. table'[y.filing] # NoRow
      BY <1>2, <1>9, <2>2, SweepNumbers DEF Item
    <3>2. y = x \/ ~BulkFirst(x)
      BY <1>2, <2>2 DEF Inv, ItemsOK
    <3>3. y.tier = "A" \/ y.stored => w.read = "reader"
      BY <1>10, <3>2 DEF BulkFirst
    <3>4. QED BY <1>9, <2>2, <3>1, <3>3
  <2>3. CASE y.filing = x.filing /\ w.stage # "read"
    <3>1. y # x
      BY <1>1, <2>3
    <3>2. y \notin queue \cup InHand \cup failed
      BY <1>1, <1>3, <3>1
    <3>3. QED BY <1>9, <2>3, <3>2 DEF Inv, EveryItemIsAccountedFor
  <2>4. QED BY <2>1, <2>2, <2>3
<1>14. QED BY <1>4, <1>5, <1>6, <1>7, <1>11, <1>12, <1>13 DEF Inv

LEMMA InvStep == Inv /\ [Next]_vars => Inv'
<1> SUFFICES ASSUME Inv, [Next]_vars PROVE Inv'
  OBVIOUS
<1>1. CASE Reading
  BY <1>1, InvSubmit, InvRead, InvCollect, InvDrained DEF Reading
<1>2. CASE UNCHANGED vars
  <2>1. RowsOK'
    BY <1>2, RowsStand DEF Inv, vars
  <2>2. ItemsOK' /\ HandsOK' /\ PhaseOK'
    BY <1>2 DEF Inv, vars, ItemsOK, HandsOK, PhaseOK, InHand, FilingOf, Newest
  <2>3. DueOK' /\ PromotedOK' /\ EveryItemIsAccountedFor'
    BY <1>2 DEF Inv, vars, DueOK, PromotedOK, EveryItemIsAccountedFor, InHand, Newest
  <2>4. QED BY <2>1, <2>2, <2>3 DEF Inv
<1>3. QED BY <1>1, <1>2, InvFile, InvStart, InvExit DEF Next


(* No item is lost, no document paid for twice, tier A ends on the reader    *)
(* and what is left over is due again: for any stocks and share classes,   *)
(* any number of workers, and reads that finish, fail and are refused in   *)
(* any order (cli/filings.run, _plan, read_tiered).                        *)
THEOREM SweepsAreSound == Spec => []SweepIsSound
<1>1. Inv => TierAIsOnTheReader
  <2> SUFFICES ASSUME Inv, phase = "end", ~stopped, NEW t \in Tickers, tiers[t] = "A",
                      table[Newest(t)].read # "reader"
               PROVE  Newest(t) \in {x.filing : x \in failed}
    BY DEF TierAIsOnTheReader
  <2>1. queue = {} /\ InHand = {}
    BY DEF Inv, PhaseOK, InHand
  <2>2. PICK x \in todo : x.filing = Newest(t) /\ ~BulkFirst(x)
    BY DEF Inv, PromotedOK
  <2>3. x.tier = "A" \/ x.stored
    BY <2>2 DEF Inv, ItemsOK, Item, BulkFirst
  <2>4. x \in failed
    BY <2>1, <2>2, <2>3 DEF Inv, EveryItemIsAccountedFor
  <2>5. QED BY <2>2, <2>4
<1>2. Inv => OneReadPerFiling
  BY DEF Inv, ItemsOK, OneReadPerFiling
<1>3. Inv => NewestWaitsForNextRun
  <2> SUFFICES ASSUME Inv, NEW x \in queue, ~x.previous, ~x.stored, table[x.filing].read # "reader"
               PROVE  IsDue(mode, tiers, x.ticker)
    BY DEF NewestWaitsForNextRun
  <2>1. x \in Item /\ tiers[x.ticker] = x.tier /\ x.filing = Newest(x.ticker)
    BY FilingParts DEF Inv, ItemsOK
  <2>2. CASE mode = "force" \/ x.tier = "A"
    BY <2>1, <2>2 DEF IsDue, Have
  <2>3. CASE mode # "force" /\ x.tier = "B"
    <3>1. table[x.filing] = NoRow
      BY <2>3 DEF Inv, DueOK, BulkFirst
    <3>2. QED BY <2>1, <3>1 DEF IsDue, Have, NoRow
  <2>4. QED BY <2>1, <2>2, <2>3 DEF Item
<1>4. Inv => SweepIsSound
  BY <1>1, <1>2, <1>3 DEF Inv, SweepIsSound
<1>5. QED BY <1>4, InvInit, InvStep, PTL DEF Spec

-----------------------------------------------------------------------------
(* The rows that push an old one out stay themselves.                      *)
LEMMA NewerRowsStay ==
    ASSUME RowsOK, NEW w \in Work, w.item.filing = FilingOf(w.item), table' = Stored(w),
           NEW f \in Filings, Goes(w, f)
    PROVE  /\ Merged(w)[f].ticker = w.item.ticker
           /\ Cardinality({g \in Filings : g[2] > f[2] /\ table'[g].ticker = w.item.ticker}) >= Keep
<1> DEFINE newer == NewerRows(w, f)
<1>1. table' = [g \in Filings |-> IF Goes(w, g) THEN NoRow ELSE Merged(w)[g]]
  BY StoredIs
<1>2. f \in MergedRows(w) /\ f \notin newer /\ newer \subseteq MergedRows(w)
  BY FilingForm DEF Goes, MergedRows, NewerRows
<1>3. IsFiniteSet(newer) /\ Cardinality(newer) \in Nat /\ Cardinality(newer) = Keep
  <2>1. IsFiniteSet(MergedRows(w)) /\ Cardinality(MergedRows(w)) <= Keep + 1
        /\ Cardinality(MergedRows(w)) \in Nat
    BY MergedRowsForm
  <2>2. IsFiniteSet(MergedRows(w) \ {f}) /\ Cardinality(MergedRows(w) \ {f}) = Cardinality(MergedRows(w)) - 1
    BY <1>2, <2>1, FS_RemoveElement
  <2>3. newer \subseteq MergedRows(w) \ {f}
    BY <1>2
  <2>4. IsFiniteSet(newer) /\ Cardinality(newer) <= Cardinality(MergedRows(w) \ {f})
    BY <2>2, <2>3, FS_Subset
  <2>5. Cardinality(newer) \in Nat
    BY <2>4, FS_CardinalityType
  <2>6. Cardinality(newer) >= Keep
    BY DEF Goes
  <2>7. QED BY <2>1, <2>2, <2>4, <2>5, <2>6, SweepNumbers
<1>4. ASSUME NEW g \in newer PROVE ~Goes(w, g)
  <2>1. NewerRows(w, g) \subseteq newer \ {g}
    <3>1. g[2] > f[2] /\ g \in Filings
      BY DEF NewerRows
    <3>2. \A h \in Filings : h[2] \in Nat
      BY FilingForm
    <3>3. QED BY <3>1, <3>2 DEF NewerRows
  <2>2. IsFiniteSet(newer \ {g}) /\ Cardinality(newer \ {g}) = Cardinality(newer) - 1
    BY <1>3, FS_RemoveElement
  <2>3. IsFiniteSet(NewerRows(w, g)) /\ Cardinality(NewerRows(w, g)) <= Cardinality(newer \ {g})
    BY <2>1, <2>2, FS_Subset
  <2>4. Cardinality(NewerRows(w, g)) \in Nat
    BY <2>3, FS_CardinalityType
  <2>5. ~(Cardinality(NewerRows(w, g)) >= Keep)
    BY <1>3, <2>2, <2>3, <2>4, SweepNumbers
  <2>6. QED BY <2>5 DEF Goes
<1>5. {g \in Filings : g[2] > f[2] /\ table'[g].ticker = w.item.ticker} = newer
  <2>1. w.item.ticker \in Tickers
    BY MergedForm
  <2>2. \A g \in Filings : table'[g].ticker = w.item.ticker => Merged(w)[g].ticker = w.item.ticker
    BY <1>1, <2>1, SweepNumbers
  <2>3. \A g \in newer : table'[g].ticker = w.item.ticker /\ g \in Filings /\ g[2] > f[2]
    BY <1>1, <1>4 DEF NewerRows
  <2>4. QED BY <2>2, <2>3 DEF NewerRows
<1>6. Cardinality({g \in Filings : g[2] > f[2] /\ table'[g].ticker = w.item.ticker}) >= Keep
  <2>1. Cardinality(newer) >= Keep
    BY <1>3, SweepNumbers
  <2>2. QED BY ONLY <1>5, <2>1
<1>7. QED BY <1>6 DEF Goes

(* Only a read that comes in changes the table.                            *)
LEMMA TableChanges ==
    ASSUME [Next]_vars
    PROVE  \/ UNCHANGED table /\ ~\E w \in running \ running' : w.stage = "read"
           \/ \E w \in running : /\ w.stage = "read" /\ running \ running' = {w}
                                 /\ table' = Stored(w)
<1>1. ASSUME NEW w \in running, BulkRead(w) \/ ReaderRead(w)
      PROVE  UNCHANGED table /\ ~\E v \in running \ running' : v.stage = "read"
  <2>1. UNCHANGED table /\ running \ running' \subseteq {w} /\ w.stage \in {"bulk", "escalated", "reader"}
    BY <1>1 DEF BulkRead, ReaderRead, Advance
  <2>2. QED BY <2>1
<1>2. ASSUME NEW w \in running, Collect(w)
      PROVE  \/ UNCHANGED table /\ ~\E v \in running \ running' : v.stage = "read"
             \/ w.stage = "read" /\ running \ running' = {w} /\ table' = Stored(w)
  BY <1>2 DEF Collect
<1>3. ASSUME NEW x \in queue, Submit(x)
      PROVE  UNCHANGED table /\ running \subseteq running'
  BY <1>3 DEF Submit
<1>4. CASE Drained \/ Exit \/ UNCHANGED vars \/ \E i \in Issuers : File(i)
  BY <1>4 DEF Drained, Exit, vars, File
<1>5. CASE Start
  BY <1>5 DEF Start, SetOut
<1>6. QED BY <1>1, <1>2, <1>3, <1>4, <1>5 DEF Next, Reading

(* A ticker keeps its newest rows, and a reader's row gives way to no other, *)
(* in whatever order the newest and the previous filing come in, for any   *)
(* number of kept rows that holds both (cli/filings._store).               *)
THEOREM RecordsImprove == Spec => RecordsOnlyImprove
<1> DEFINE Retained == \A f \in Filings, t \in Tickers :
               LET collected == {w \in running \ running' : w.stage = "read"}
                   had == table[f].ticker = t \/ \E w \in collected : w.item.filing = f /\ w.item.ticker = t
               IN had /\ table'[f] = NoRow =>
                      Cardinality({g \in Filings : g[2] > f[2] /\ table'[g].ticker = t}) >= Keep
           Graded == mode # "force" =>
               \A f \in Filings : table[f].read = "reader" /\ table'[f] # NoRow => table'[f].read = "reader"
<1>1. Inv /\ [Next]_vars => Retained
  <2> SUFFICES ASSUME Inv, [Next]_vars, NEW f \in Filings, NEW t \in Tickers, table'[f] = NoRow,
                      \/ table[f].ticker = t
                      \/ \E w \in running \ running' : w.stage = "read" /\ w.item.filing = f /\ w.item.ticker = t
               PROVE  Cardinality({g \in Filings : g[2] > f[2] /\ table'[g].ticker = t}) >= Keep
    OBVIOUS
  <2>1. PICK w \in running : w.stage = "read" /\ running \ running' = {w} /\ table' = Stored(w)
    BY TableChanges, RowForm DEF Inv
  <2>2. w \in Work /\ w.item.filing = FilingOf(w.item) /\ w.item.ticker \in Tickers
    BY DEF Inv, HandsOK, ItemsOK, InHand, Work, Item
  <2>3. table'[w.item.filing] # NoRow
    <3>1. RowsOK
      BY DEF Inv
    <3>2. table'[w.item.filing] = [ticker |-> w.item.ticker, read |-> w.read]
      BY <2>1, <2>2, <3>1, StoredRead
    <3>3. table'[w.item.filing].ticker = w.item.ticker
      BY <3>2
    <3>4. QED BY <2>2, <3>3, SweepNumbers
  <2>4. table[f].ticker = t /\ f # w.item.filing /\ table[f] # NoRow
    BY <2>1, <2>3, RowForm DEF Inv
  <2>5. Merged(w)[f] = table[f]
    BY <2>2, <2>4, MergedForm DEF Inv
  <2>6. Goes(w, f)
    BY <2>1, <2>4, <2>5, StoredIs
  <2>7. w.item.ticker = t /\ Cardinality({g \in Filings : g[2] > f[2] /\ table'[g].ticker = w.item.ticker}) >= Keep
    BY <2>1, <2>2, <2>4, <2>5, <2>6, NewerRowsStay DEF Inv
  <2>8. QED BY <2>7
<1>2. Inv /\ [Next]_vars => Graded
  <2> SUFFICES ASSUME Inv, [Next]_vars, mode # "force", NEW f \in Filings,
                      table[f].read = "reader", table'[f] # NoRow, table'[f] # table[f]
               PROVE  table'[f].read = "reader"
    OBVIOUS
  <2>1. PICK w \in running : w.stage = "read" /\ table' = Stored(w)
    BY TableChanges
  <2>2. w \in Work /\ w.item \in InHand /\ w.item.filing = FilingOf(w.item)
    BY DEF Inv, HandsOK, ItemsOK, InHand
  <2>3. f = w.item.filing
    BY <2>1, <2>2, StoredRead DEF Inv
  <2>4. table[f] # NoRow
    BY DEF NoRow
  <2>5. ~BulkFirst(w.item)
    BY <2>2, <2>3, <2>4 DEF Inv, DueOK
  <2>6. w.read = "reader"
    BY <2>5 DEF Inv, HandsOK
  <2>7. table'[f] = [ticker |-> w.item.ticker, read |-> w.read]
    BY <2>1, <2>2, <2>3, StoredRead DEF Inv
  <2>8. QED BY <2>6, <2>7
<1>3. Spec => [][Retained]_vars
  BY <1>1, InvInit, InvStep, PTL DEF Spec
<1>4. Spec => [][Graded]_vars
  BY <1>2, InvInit, InvStep, PTL DEF Spec
<1>5. QED BY <1>3, <1>4, PTL DEF RecordsOnlyImprove, RetentionKeepsNewest, NeverDowngraded

-----------------------------------------------------------------------------
(* The evening's alerts: what was mailed is stored, so every evening run   *)
(* started since has it among those seen, and a run reads nothing it has   *)
(* seen.  The other jobs may store the same filing again, but never mail.  *)

EveningRun ==
    [step : {"off", "look", "news", "mail"}, seen : SUBSET Papers, left : Seq(ToSet(Book)),
     batch : SUBSET Papers, found : Seq(Papers), saw : SUBSET Papers, marred : BOOLEAN]

\* The evening's run, and what it has found worth a mail so far.
Run == job["evening"]
Found == ToSet(Run.found)

AlertTypes ==
    /\ mails \in [Papers -> Nat]
    /\ stored \in [Papers -> {"no", "alert", "quiet"}]
    /\ reader \in [Papers -> Jobs \cup {"none"}]
    /\ DOMAIN job = Jobs /\ job = [j \in Jobs |-> job[j]]
    /\ Run \in EveningRun

\* A run that is due has not begun, and one that is off has nothing in hand.
RunOK ==
    /\ Run.step = "off" => Run = Off
    /\ "evening" \in due => Run = Off
    /\ Run.batch \cap Run.seen = {}

\* What was mailed is stored and seen, once; what was found is stored and seen
\* and not mailed yet, once.
MailsOK ==
    /\ \A f \in Papers : mails[f] <= 1
    /\ \A f \in Papers : mails[f] >= 1 => stored[f] # "no" /\ (Run.step # "off" => f \in Run.seen)
    /\ \A f \in Found : stored[f] # "no" /\ f \in Run.seen /\ mails[f] = 0
    /\ \A i, k \in DOMAIN Run.found : Run.found[i] = Run.found[k] => i = k

\* No alert the evening stored is without its mail, its loss, or its run.
AlertsOK ==
    \A f \in Papers :
        reader[f] = "evening" /\ stored[f] = "alert" => mails[f] = 1 \/ f \in swallowed \/ f \in Found

AlertInv == AlertTypes /\ RunOK /\ MailsOK /\ AlertsOK

-----------------------------------------------------------------------------
LEMMA OffIsARun == Off \in EveningRun /\ Off.step = "off" /\ Off.found = <<>> /\ Off.batch = {}
<1>1. <<>> \in Seq(ToSet(Book)) /\ <<>> \in Seq(Papers)
  OBVIOUS
<1>2. QED BY <1>1 DEF Off, EveningRun

LEMMA NothingIsFoundOff == ToSet(Off.found) = {}
BY OffIsARun DEF ToSet

(* The papers of a longer list.                                             *)
LEMMA AppendedSet ==
    ASSUME NEW S, NEW s \in Seq(S), NEW x \in S
    PROVE  /\ ToSet(Append(s, x)) = ToSet(s) \cup {x}
           /\ Append(s, x) \in Seq(S)
           /\ x \notin ToSet(s) /\ (\A i, k \in DOMAIN s : s[i] = s[k] => i = k) =>
                \A i, k \in DOMAIN Append(s, x) : Append(s, x)[i] = Append(s, x)[k] => i = k
<1>1. /\ Append(s, x) \in Seq(S) /\ Len(Append(s, x)) = Len(s) + 1
      /\ \A i \in 1..Len(s) : Append(s, x)[i] = s[i]
      /\ Append(s, x)[Len(s) + 1] = x
  BY AppendProperties
<1>2. DOMAIN s = 1..Len(s) /\ DOMAIN Append(s, x) = 1..(Len(s) + 1) /\ Len(s) \in Nat
  BY <1>1
<1>3. \A i \in 1..(Len(s) + 1) : i \in 1..Len(s) \/ i = Len(s) + 1
  BY <1>2
<1>4. ToSet(Append(s, x)) \subseteq ToSet(s) \cup {x}
  BY <1>1, <1>2, <1>3 DEF ToSet
<1>5. ToSet(s) \cup {x} \subseteq ToSet(Append(s, x))
  <2>1. \A i \in 1..Len(s) : i \in 1..(Len(s) + 1)
    BY <1>2
  <2>2. Len(s) + 1 \in 1..(Len(s) + 1)
    BY <1>2
  <2>3. QED BY <1>1, <1>2, <2>1, <2>2 DEF ToSet
<1>6. ASSUME x \notin ToSet(s), \A i, k \in DOMAIN s : s[i] = s[k] => i = k,
             NEW i \in DOMAIN Append(s, x), NEW k \in DOMAIN Append(s, x),
             Append(s, x)[i] = Append(s, x)[k]
      PROVE  i = k
  <2>1. \A n \in 1..Len(s) : s[n] # x
    BY <1>2, <1>6 DEF ToSet
  <2>2. CASE i \in 1..Len(s) /\ k \in 1..Len(s)
    BY <1>1, <1>2, <1>6, <2>2
  <2>3. CASE i = Len(s) + 1 /\ k = Len(s) + 1
    BY <2>3
  <2>4. CASE i \in 1..Len(s) /\ k = Len(s) + 1
    BY <1>1, <1>6, <2>1, <2>4
  <2>5. CASE i = Len(s) + 1 /\ k \in 1..Len(s)
    BY <1>1, <1>6, <2>1, <2>5
  <2>6. QED BY <1>2, <1>3, <2>2, <2>3, <2>4, <2>5
<1>7. QED BY <1>1, <1>4, <1>5, <1>6

(* A paper is counted once in a list without repeats.                       *)
LEMMA CountedOnce ==
    ASSUME NEW s, NEW f, \A i, k \in DOMAIN s : s[i] = s[k] => i = k
    PROVE  Occurrences(f, s) = IF f \in ToSet(s) THEN 1 ELSE 0
<1> DEFINE I == {i \in DOMAIN s : s[i] = f}
<1>1. CASE f \in ToSet(s)
  <2>1. PICK i \in DOMAIN s : s[i] = f
    BY <1>1 DEF ToSet
  <2>2. I = {i}
    BY <2>1
  <2>3. Cardinality(I) = 1
    BY <2>2, FS_Singleton
  <2>4. QED BY <1>1, <2>3 DEF Occurrences
<1>2. CASE f \notin ToSet(s)
  <2>1. I = {}
    BY <1>2 DEF ToSet
  <2>2. Cardinality(I) = 0
    BY <2>1, FS_EmptySet
  <2>3. QED BY <1>2, <2>2 DEF Occurrences
<1>3. QED BY <1>1, <1>2

-----------------------------------------------------------------------------
LEMMA AlertsStart == ASSUME AlertInit PROVE AlertInv
<1>1. /\ stored = [f \in Papers |-> "no"] /\ reader = [f \in Papers |-> "none"]
      /\ job = [j \in Jobs |-> Off] /\ mails = [f \in Papers |-> 0]
  BY DEF AlertInit
<1>2. Run = Off /\ Found = {}
  BY <1>1, NothingIsFoundOff DEF Run, Found, Jobs
<1>3. AlertTypes
  BY <1>1, <1>2, OffIsARun DEF AlertTypes
<1>4. RunOK
  BY <1>2, OffIsARun DEF RunOK
<1>5. \A i, k \in DOMAIN Run.found : Run.found[i] = Run.found[k] => i = k
  BY <1>2, OffIsARun
<1>6. MailsOK /\ AlertsOK
  BY <1>1, <1>2, <1>5 DEF MailsOK, AlertsOK
<1>7. QED BY <1>3, <1>4, <1>6 DEF AlertInv

(* A step that leaves the evening's run and its mails alone, and what is     *)
(* stored to the other jobs.                                               *)
LEMMA EveningStands ==
    ASSUME AlertInv, Run' = Run, mails' = mails, swallowed \subseteq swallowed',
           DOMAIN job' = Jobs /\ job' = [j \in Jobs |-> job'[j]],
           "evening" \in due' => Run = Off,
           \/ UNCHANGED <<stored, reader>>
           \/ \E f : \E j \in Jobs \ {"evening"}, what \in {"alert", "quiet"} : Store(j, f, what)
    PROVE  AlertInv'
<1>1. Found' = Found /\ Found \subseteq Papers
  <2>1. Run.found \in Seq(Papers)
    BY DEF AlertInv, AlertTypes, EveningRun
  <2>2. QED BY <2>1 DEF Found, ToSet
<1>2. /\ stored' \in [Papers -> {"no", "alert", "quiet"}]
      /\ reader' \in [Papers -> Jobs \cup {"none"}]
      /\ \A f \in Papers : stored[f] # "no" => stored'[f] # "no"
      /\ \A f \in Papers : reader'[f] = "evening" => reader[f] = "evening" /\ stored'[f] = stored[f]
  <2>1. CASE UNCHANGED <<stored, reader>>
    BY <2>1 DEF AlertInv, AlertTypes
  <2>2. ASSUME NEW f, NEW j \in Jobs \ {"evening"}, NEW what \in {"alert", "quiet"}, Store(j, f, what)
        PROVE  <1>2!1 /\ <1>2!2 /\ <1>2!3 /\ <1>2!4
    BY <2>2 DEF AlertInv, AlertTypes, Store
  <2>3. QED BY <2>1, <2>2
<1>3. AlertTypes'
  BY <1>2 DEF AlertInv, AlertTypes
<1>4. RunOK'
  BY DEF AlertInv, RunOK
<1>5. MailsOK'
  <2>1. \A f \in Papers : mails'[f] >= 1 => stored'[f] # "no" /\ (Run'.step # "off" => f \in Run'.seen)
    BY <1>2 DEF AlertInv, MailsOK
  <2>2. \A f \in Found' : stored'[f] # "no" /\ f \in Run'.seen /\ mails'[f] = 0
    BY <1>1, <1>2 DEF AlertInv, MailsOK
  <2>3. \A f \in Papers : mails'[f] <= 1
    BY DEF AlertInv, MailsOK
  <2>4. \A i, k \in DOMAIN Run'.found : Run'.found[i] = Run'.found[k] => i = k
    BY DEF AlertInv, MailsOK
  <2>5. QED BY <2>1, <2>2, <2>3, <2>4 DEF MailsOK
<1>6. AlertsOK'
  BY <1>1, <1>2 DEF AlertInv, AlertsOK
<1>7. QED BY <1>3, <1>4, <1>5, <1>6 DEF AlertInv

(* A step of the evening's run that stores and finds nothing.               *)
LEMMA EveningMoves ==
    ASSUME AlertInv, Run.step # "off", NEW r \in EveningRun, job' = [job EXCEPT !["evening"] = r],
           r.step # "off", r.found = Run.found, Run.seen \subseteq r.seen, r.batch \cap r.seen = {},
           UNCHANGED <<due, mails, swallowed, stored, reader>>
    PROVE  AlertInv'
<1>1. Run' = r /\ Run'.found = Run.found /\ DOMAIN job' = Jobs /\ job' = [j \in Jobs |-> job'[j]]
  BY DEF AlertInv, AlertTypes, Run, Jobs
<1>2. Found' = Found
  BY <1>1 DEF Found
<1>3. AlertTypes'
  BY <1>1 DEF AlertInv, AlertTypes
<1>4. Run # Off /\ "evening" \notin due'
  BY OffIsARun DEF AlertInv, RunOK
<1>5. RunOK'
  BY <1>1, <1>4 DEF RunOK
<1>6. MailsOK'
  BY <1>1, <1>2 DEF AlertInv, MailsOK
<1>7. AlertsOK'
  BY <1>2 DEF AlertInv, AlertsOK
<1>8. QED BY <1>3, <1>5, <1>6, <1>7 DEF AlertInv

LEMMA UnreadIsUnseen ==
    ASSUME NEW t, NEW e
    PROVE  Unread(t, e) \subseteq Papers /\ Unread(t, e) \cap e.seen = {}
BY DEF Unread, Visible

LEMMA InvLook == ASSUME AlertInv, Look PROVE AlertInv'
<1> DEFINE e == job["evening"]
<1>1. e = Run /\ e \in EveningRun /\ e.step \in {"look", "news"} /\ e.batch = {}
  BY DEF AlertInv, AlertTypes, Run, Look
<1>2. UNCHANGED <<due, mails, swallowed, stored, reader>>
  BY DEF Look, SameDay, NothingStored
<1>3. \/ e.left # <<>> /\ job' = [job EXCEPT !["evening"] = [e EXCEPT !.batch = Unread(Head(e.left), e)]]
      \/ e.left # <<>> /\ job' = [job EXCEPT !["evening"] = [e EXCEPT !.left = Tail(@)]]
      \/ e.left # <<>> /\ job' = [job EXCEPT !["evening"] = [e EXCEPT !.left = Tail(@), !.marred = TRUE]]
      \/ job' = [job EXCEPT !["evening"] = [e EXCEPT !.step = "news", !.left = Book]]
      \/ job' = [job EXCEPT !["evening"] = [e EXCEPT !.step = "mail"]]
  <2>1. CASE e.left # <<>>
    BY <2>1 DEF Look
  <2>2. CASE e.left = <<>>
    BY <2>2 DEF Look
  <2>3. QED BY <2>1, <2>2
<1>4. Book \in Seq(ToSet(Book)) /\ (e.left # <<>> => Tail(e.left) \in Seq(ToSet(Book)))
  <2>1. e.left \in Seq(ToSet(Book))
    BY <1>1 DEF EveningRun
  <2>2. QED BY <2>1, AlertAssumption, HeadTailProperties
<1>m. ASSUME NEW r, r \in EveningRun, job' = [job EXCEPT !["evening"] = r],
             r.step # "off", r.found = e.found, e.seen \subseteq r.seen, r.batch \cap r.seen = {}
      PROVE  AlertInv'
  BY <1>m, <1>1, <1>2, EveningMoves
<1> HIDE DEF e
<1>5. CASE job' = [job EXCEPT !["evening"] = [e EXCEPT !.batch = Unread(Head(e.left), e)]]
  <2> DEFINE r == [e EXCEPT !.batch = Unread(Head(e.left), e)]
  <2>1. r \in EveningRun /\ r.step = e.step /\ r.found = e.found /\ r.seen = e.seen /\ r.batch = Unread(Head(e.left), e)
    BY <1>1, UnreadIsUnseen DEF EveningRun
  <2>2. r.batch \cap r.seen = {} /\ r.step # "off"
    BY <1>1, <2>1, UnreadIsUnseen
  <2> HIDE DEF r
  <2>3. QED BY <1>5, <1>m, <2>1, <2>2 DEF r
<1>6. CASE e.left # <<>> /\ job' = [job EXCEPT !["evening"] = [e EXCEPT !.left = Tail(@)]]
  <2> DEFINE r == [e EXCEPT !.left = Tail(@)]
  <2>1. r \in EveningRun /\ r.step = e.step /\ r.found = e.found /\ r.seen = e.seen /\ r.batch = {}
    BY <1>1, <1>4, <1>6 DEF EveningRun
  <2> HIDE DEF r
  <2>2. QED BY <1>1, <1>6, <1>m, <2>1 DEF r
<1>7. CASE e.left # <<>> /\ job' = [job EXCEPT !["evening"] = [e EXCEPT !.left = Tail(@), !.marred = TRUE]]
  <2> DEFINE r == [e EXCEPT !.left = Tail(@), !.marred = TRUE]
  <2>1. r \in EveningRun /\ r.step = e.step /\ r.found = e.found /\ r.seen = e.seen /\ r.batch = {}
    BY <1>1, <1>4, <1>7 DEF EveningRun
  <2> HIDE DEF r
  <2>2. QED BY <1>1, <1>7, <1>m, <2>1 DEF r
<1>8. CASE job' = [job EXCEPT !["evening"] = [e EXCEPT !.step = "news", !.left = Book]]
  <2> DEFINE r == [e EXCEPT !.step = "news", !.left = Book]
  <2>1. r \in EveningRun /\ r.step = "news" /\ r.found = e.found /\ r.seen = e.seen /\ r.batch = {}
    BY <1>1, <1>4 DEF EveningRun
  <2> HIDE DEF r
  <2>2. QED BY <1>8, <1>m, <2>1 DEF r
<1>9. CASE job' = [job EXCEPT !["evening"] = [e EXCEPT !.step = "mail"]]
  <2> DEFINE r == [e EXCEPT !.step = "mail"]
  <2>1. r \in EveningRun /\ r.step = "mail" /\ r.found = e.found /\ r.seen = e.seen /\ r.batch = {}
    BY <1>1 DEF EveningRun
  <2> HIDE DEF r
  <2>2. QED BY <1>9, <1>m, <2>1 DEF r
<1>10. QED BY <1>3, <1>5, <1>6, <1>7, <1>8, <1>9

LEMMA InvCapStops == ASSUME AlertInv, CapStops PROVE AlertInv'
<1> DEFINE r == [Run EXCEPT !.left = <<>>, !.batch = {}, !.marred = TRUE]
<1>1. Run \in EveningRun /\ Run.step \in {"look", "news"}
  BY DEF AlertInv, AlertTypes, Run, CapStops
<1>2. r \in EveningRun /\ r.step = Run.step /\ r.found = Run.found /\ r.seen = Run.seen /\ r.batch = {}
  <2>1. <<>> \in Seq(ToSet(Book))
    OBVIOUS
  <2>2. QED BY <1>1, <2>1 DEF EveningRun
<1>3. job' = [job EXCEPT !["evening"] = r] /\ UNCHANGED <<due, mails, swallowed, stored, reader>>
  BY DEF CapStops, AtTheCap, Run, SameDay, NothingStored
<1> HIDE DEF r
<1>4. QED BY <1>1, <1>2, <1>3, EveningMoves

LEMMA InvEveningRead == ASSUME AlertInv, NEW f \in Papers, Read(f) PROVE AlertInv'
<1> DEFINE c == [Run EXCEPT !.batch = @ \ {f}, !.seen = @ \cup {f}]
<1>1. Run \in EveningRun /\ f \in Run.batch /\ f \notin Run.seen
  BY DEF AlertInv, AlertTypes, RunOK, Run, Read
<1>2. Run.step # "off" /\ Run # Off
  BY <1>1, OffIsARun DEF AlertInv, RunOK
<1>3. /\ c \in EveningRun /\ c.step = Run.step /\ c.found = Run.found
      /\ c.batch = Run.batch \ {f} /\ c.seen = Run.seen \cup {f}
  BY <1>1 DEF EveningRun
<1>4. c.batch \cap c.seen = {}
  BY <1>1, <1>3 DEF AlertInv, RunOK
<1>5. Considered("evening", f) = c /\ UNCHANGED <<due, mails, swallowed>>
  BY DEF Considered, Run, Read, SameDay
<1> HIDE DEF c
<1>6. \/ job' = [job EXCEPT !["evening"] = c] /\ UNCHANGED <<stored, reader>>
      \/ job' = [job EXCEPT !["evening"] = [c EXCEPT !.marred = TRUE]] /\ UNCHANGED <<stored, reader>>
      \/ \E what \in {"alert", "quiet"} :
            /\ Store("evening", f, what)
            /\ job' = [job EXCEPT !["evening"] = [c EXCEPT !.found = IF what = "alert" THEN Append(@, f) ELSE @]]
  <2>1. CASE OfTheFiler(f, Head(job["evening"].left))
    BY <1>5, <2>1 DEF Read, NothingStored
  <2>2. CASE ~OfTheFiler(f, Head(job["evening"].left))
    BY <1>5, <2>2 DEF Read, NothingStored
  <2>3. QED BY <2>1, <2>2
<1>7. CASE job' = [job EXCEPT !["evening"] = c] /\ UNCHANGED <<stored, reader>>
  BY <1>2, <1>3, <1>4, <1>5, <1>7, EveningMoves
<1>8. CASE job' = [job EXCEPT !["evening"] = [c EXCEPT !.marred = TRUE]] /\ UNCHANGED <<stored, reader>>
  <2> DEFINE r == [c EXCEPT !.marred = TRUE]
  <2>1. r \in EveningRun /\ r.step = Run.step /\ r.found = Run.found /\ r.seen = c.seen /\ r.batch = c.batch
    BY <1>3 DEF EveningRun
  <2> HIDE DEF r
  <2>2. QED BY <1>2, <1>3, <1>4, <1>5, <1>8, <2>1, EveningMoves DEF r
<1>9. ASSUME NEW what \in {"alert", "quiet"}, Store("evening", f, what),
             job' = [job EXCEPT !["evening"] = [c EXCEPT !.found = IF what = "alert" THEN Append(@, f) ELSE @]]
      PROVE  AlertInv'
  <2> DEFINE r == [c EXCEPT !.found = IF what = "alert" THEN Append(@, f) ELSE @]
  <2>0. Run.found \in Seq(Papers) /\ Append(Run.found, f) \in Seq(Papers)
    BY <1>1, AppendedSet DEF EveningRun
  <2>1. /\ r \in EveningRun /\ r.step = Run.step /\ r.seen = c.seen /\ r.batch = c.batch
        /\ r.found = IF what = "alert" THEN Append(Run.found, f) ELSE Run.found
    BY <1>3, <2>0 DEF EveningRun
  <2>2. job' = [job EXCEPT !["evening"] = r]
    BY <1>9
  <2> HIDE DEF r
  <2>3. Run' = r /\ DOMAIN job' = Jobs /\ job' = [j \in Jobs |-> job'[j]]
    BY <2>2 DEF AlertInv, AlertTypes, Run, Jobs
  <2>4. f \notin Found /\ mails[f] = 0
    BY <1>1, <1>2 DEF AlertInv, MailsOK, AlertTypes
  <2>5. Found' = IF what = "alert" THEN Found \cup {f} ELSE Found
    <3>1. Found' = ToSet(r.found)
      BY <2>3 DEF Found
    <3>2. ToSet(Append(Run.found, f)) = Found \cup {f}
      BY <2>0, AppendedSet DEF Found
    <3>3. CASE what = "alert"
      BY <2>1, <3>1, <3>2, <3>3
    <3>4. CASE what = "quiet"
      BY <2>1, <3>1, <3>4 DEF Found
    <3>5. QED BY <3>3, <3>4
  <2>6. \A i, k \in DOMAIN Run'.found : Run'.found[i] = Run'.found[k] => i = k
    <3>1. \A i, k \in DOMAIN Run.found : Run.found[i] = Run.found[k] => i = k
      BY DEF AlertInv, MailsOK
    <3>2. f \notin ToSet(Run.found)
      BY <2>4 DEF Found
    <3>3. \A i, k \in DOMAIN Append(Run.found, f) : Append(Run.found, f)[i] = Append(Run.found, f)[k] => i = k
      BY <2>0, <3>1, <3>2, AppendedSet
    <3>4. QED BY <2>1, <2>3, <3>1, <3>3
  <2>7. /\ stored' = [stored EXCEPT ![f] = what] /\ reader' = [reader EXCEPT ![f] = "evening"]
    BY <1>9 DEF Store
  <2>8. AlertTypes'
    BY <1>5, <2>1, <2>3, <2>7 DEF AlertInv, AlertTypes, Jobs
  <2>9. RunOK'
    BY <1>2, <1>3, <1>4, <1>5, <2>1, <2>3 DEF AlertInv, RunOK
  <2>10. MailsOK'
    <3>1. \A g \in Papers : mails'[g] <= 1
      BY <1>5 DEF AlertInv, MailsOK
    <3>2. \A g \in Papers : mails'[g] >= 1 => stored'[g] # "no" /\ g \in Run'.seen
      BY <1>2, <1>3, <1>5, <2>1, <2>3, <2>4, <2>7 DEF AlertInv, AlertTypes, MailsOK
    <3>3. \A g \in Found' : stored'[g] # "no" /\ g \in Run'.seen /\ mails'[g] = 0
      <4>1. \A g \in Found : g \in Papers /\ stored[g] # "no" /\ g \in Run.seen /\ mails[g] = 0
        BY <2>0 DEF AlertInv, MailsOK, Found, ToSet
      <4>2. stored'[f] # "no" /\ f \in Run'.seen
        BY <1>3, <2>1, <2>3, <2>7 DEF AlertInv, AlertTypes
      <4>3. \A g \in Papers : stored[g] # "no" => stored'[g] # "no"
        BY <2>7 DEF AlertInv, AlertTypes
      <4>4. Run'.seen = Run.seen \cup {f}
        BY <1>3, <2>1, <2>3
      <4>5. QED BY <1>5, <2>4, <2>5, <4>1, <4>2, <4>3, <4>4
    <3>4. QED BY <2>6, <3>1, <3>2, <3>3 DEF MailsOK
  <2>11. AlertsOK'
    <3>1. ASSUME NEW g \in Papers, reader'[g] = "evening", stored'[g] = "alert"
          PROVE  mails'[g] = 1 \/ g \in swallowed' \/ g \in Found'
      <4>1. CASE g = f
        <5>1. what = "alert"
          BY <2>7, <3>1, <4>1 DEF AlertInv, AlertTypes
        <5>2. QED BY <2>5, <4>1, <5>1
      <4>2. CASE g # f
        <5>1. reader[g] = "evening" /\ stored[g] = "alert"
          BY <2>7, <3>1, <4>2 DEF AlertInv, AlertTypes
        <5>2. QED BY <1>5, <2>5, <5>1 DEF AlertInv, AlertsOK
      <4>3. QED BY <4>1, <4>2
    <3>2. QED BY <3>1 DEF AlertsOK
  <2>12. QED BY <2>8, <2>9, <2>10, <2>11 DEF AlertInv
<1>10. QED BY <1>6, <1>7, <1>8, <1>9

LEMMA InvEvening == ASSUME AlertInv, Evening PROVE AlertInv'
<1> DEFINE r == [Off EXCEPT !.step = "look", !.seen = Seen, !.left = Book, !.saw = Visible]
<1>1. Run = Off /\ Found = {} /\ "evening" \notin due'
  BY NothingIsFoundOff DEF AlertInv, RunOK, Evening, Found
<1>2. UNCHANGED <<mails, swallowed, stored, reader>>
  BY DEF Evening
<1>3. CASE job' = job
  <2>1. Run' = Run /\ DOMAIN job' = Jobs /\ job' = [j \in Jobs |-> job'[j]]
    BY <1>3 DEF Run, AlertInv, AlertTypes
  <2>2. QED BY <1>1, <1>2, <2>1, EveningStands
<1>4. CASE job' = [job EXCEPT !["evening"] = r]
  <2>1. Seen \subseteq Papers /\ Visible \subseteq Papers
    BY DEF Seen, Visible
  <2>2. <<>> \in Seq(Papers)
    OBVIOUS
  <2>3. Off \in EveningRun /\ Book \in Seq(ToSet(Book))
    BY OffIsARun, AlertAssumption
  <2>4. r \in EveningRun
    BY <2>1, <2>3 DEF EveningRun
  <2>5. r.step = "look" /\ r.seen = Seen /\ r.batch = {} /\ r.found = <<>>
    BY <2>2 DEF Off
  <2> HIDE DEF r
  <2>6. Run' = r /\ DOMAIN job' = Jobs /\ job' = [j \in Jobs |-> job'[j]]
    BY <1>4 DEF AlertInv, AlertTypes, Run, Jobs
  <2>7. Found' = {}
    BY <2>5, <2>6 DEF Found, ToSet
  <2>8. AlertTypes'
    BY <1>2, <2>4, <2>6 DEF AlertInv, AlertTypes
  <2>9. RunOK'
    BY <1>1, <2>5, <2>6 DEF RunOK
  <2>10. \A f \in Papers : mails'[f] >= 1 => stored'[f] # "no" /\ f \in Run'.seen
    BY <1>2, <2>5, <2>6 DEF AlertInv, MailsOK, Seen
  <2>11. \A i, k \in DOMAIN Run'.found : Run'.found[i] = Run'.found[k] => i = k
    BY <2>5, <2>6
  <2>12. MailsOK'
    BY <1>2, <2>7, <2>10, <2>11 DEF AlertInv, MailsOK
  <2>13. AlertsOK'
    BY <1>1, <1>2, <2>7 DEF AlertInv, AlertsOK
  <2>14. QED BY <2>8, <2>9, <2>12, <2>13 DEF AlertInv
<1>5. QED BY <1>3, <1>4 DEF Evening

(* The run ends: what it found is mailed or lost.                           *)
LEMMA EveningEnds ==
    ASSUME AlertInv, job' = [job EXCEPT !["evening"] = Off], UNCHANGED <<due, stored, reader>>,
           \/ mails' = [f \in Papers |-> mails[f] + Occurrences(f, Run.found)] /\ swallowed' = swallowed
           \/ mails' = mails /\ swallowed' = swallowed \cup Found
    PROVE  AlertInv'
<1>1. Run' = Off /\ DOMAIN job' = Jobs /\ job' = [j \in Jobs |-> job'[j]]
  BY DEF AlertInv, AlertTypes, Run, Jobs
<1>2. Found' = {} /\ Run'.step = "off"
  BY <1>1, OffIsARun, NothingIsFoundOff DEF Found
<1>3. /\ mails \in [Papers -> Nat]
      /\ \A f \in Papers : mails[f] <= 1
      /\ \A f \in Found : stored[f] # "no" /\ mails[f] = 0
      /\ \A f \in Papers : mails[f] >= 1 => stored[f] # "no"
  BY DEF AlertInv, AlertTypes, MailsOK
<1>4. \/ swallowed' = swallowed /\ \A f \in Papers : mails'[f] = mails[f] + (IF f \in Found THEN 1 ELSE 0)
      \/ swallowed' = swallowed \cup Found /\ mails' = mails
  <2>1. \A i, k \in DOMAIN Run.found : Run.found[i] = Run.found[k] => i = k
    BY DEF AlertInv, MailsOK
  <2>2. \A f \in Papers : Occurrences(f, Run.found) = IF f \in Found THEN 1 ELSE 0
    BY <2>1, CountedOnce DEF Found
  <2>3. QED BY <2>2
<1>5. mails' \in [Papers -> Nat]
  <2>1. CASE mails' = mails
    BY <1>3, <2>1
  <2>2. CASE mails' = [f \in Papers |-> mails[f] + Occurrences(f, Run.found)]
    <3>1. \A f \in Papers : mails[f] + Occurrences(f, Run.found) \in Nat
      <4>1. \A i, k \in DOMAIN Run.found : Run.found[i] = Run.found[k] => i = k
        BY DEF AlertInv, MailsOK
      <4>2. \A f \in Papers : Occurrences(f, Run.found) \in Nat
        BY <4>1, CountedOnce
      <4>3. QED BY <1>3, <4>2
    <3>2. QED BY <2>2, <3>1
  <2>3. QED BY <2>1, <2>2
<1>6. AlertTypes'
  BY <1>1, <1>5, OffIsARun DEF AlertInv, AlertTypes
<1>7. RunOK'
  BY <1>1, OffIsARun DEF RunOK
<1>8. MailsOK'
  <2>1. \A f \in Papers : mails'[f] <= 1 /\ (mails'[f] >= 1 => stored'[f] # "no")
    BY <1>3, <1>4
  <2>2. \A i, k \in DOMAIN Run'.found : Run'.found[i] = Run'.found[k] => i = k
    BY <1>1, OffIsARun
  <2>3. QED BY <1>2, <2>1, <2>2 DEF MailsOK
<1>9. AlertsOK'
  <2>1. ASSUME NEW f \in Papers, reader[f] = "evening", stored[f] = "alert"
        PROVE  mails'[f] = 1 \/ f \in swallowed'
    <3>1. mails[f] = 1 \/ f \in swallowed \/ f \in Found
      BY <2>1 DEF AlertInv, AlertsOK
    <3>2. QED BY <1>3, <1>4, <3>1
  <2>2. QED BY <2>1 DEF AlertsOK
<1>10. QED BY <1>6, <1>7, <1>8, <1>9 DEF AlertInv

LEMMA InvMail == ASSUME AlertInv, Mail PROVE AlertInv'
<1>1. job' = [job EXCEPT !["evening"] = Off] /\ UNCHANGED <<due, stored, reader>>
  BY DEF Mail, SameDay, NothingStored
<1>2. \/ mails' = [f \in Papers |-> mails[f] + Occurrences(f, Run.found)] /\ swallowed' = swallowed
      \/ mails' = mails /\ swallowed' = swallowed \cup Found
  BY DEF Mail, Run, Found
<1>3. QED BY <1>1, <1>2, EveningEnds

(* Another job's step.                                                      *)
LEMMA AnotherJob ==
    ASSUME AlertInv, NEW j, j # "evening", NEW r, job' = [job EXCEPT ![j] = r]
    PROVE  Run' = Run /\ DOMAIN job' = Jobs /\ job' = [i \in Jobs |-> job'[i]]
BY DEF AlertInv, AlertTypes, Run, Jobs

LEMMA InvKilled == ASSUME AlertInv, NEW j \in Jobs, Killed(j) PROVE AlertInv'
<1>1. job' = [job EXCEPT ![j] = Off] /\ UNCHANGED <<due, mails, stored, reader>>
      /\ swallowed' = swallowed \cup ToSet(job[j].found)
  BY DEF Killed, SameDay, NothingStored
<1>2. CASE j = "evening"
  BY <1>1, <1>2, EveningEnds DEF Run, Found
<1>3. CASE j # "evening"
  <2>1. Run' = Run /\ DOMAIN job' = Jobs /\ job' = [i \in Jobs |-> job'[i]]
    BY <1>1, <1>3, AnotherJob
  <2>2. "evening" \in due' => Run = Off
    BY <1>1 DEF AlertInv, RunOK
  <2>3. QED BY <1>1, <2>1, <2>2, EveningStands
<1>4. QED BY <1>2, <1>3

LEMMA InvOtherRead == ASSUME AlertInv, NEW j \in Jobs, OtherRead(j) PROVE AlertInv'
<1>1. j # "evening" /\ UNCHANGED <<due, mails, swallowed>>
  BY DEF OtherRead, SameDay
<1>2. PICK f \in job[j].batch :
         /\ job' = [job EXCEPT ![j] = Considered(j, f)] \/ job' = [job EXCEPT ![j] = Off]
         /\ UNCHANGED <<stored, reader>> \/ \E what \in {"alert", "quiet"} : Store(j, f, what)
  BY DEF OtherRead, NothingStored
<1>3. Run' = Run /\ DOMAIN job' = Jobs /\ job' = [i \in Jobs |-> job'[i]]
  BY <1>1, <1>2, AnotherJob
<1>4. "evening" \in due' => Run = Off
  BY <1>1 DEF AlertInv, RunOK
<1>5. j \in Jobs \ {"evening"}
  BY <1>1
<1>6. QED BY <1>1, <1>2, <1>3, <1>4, <1>5, EveningStands

LEMMA InvOtherDone == ASSUME AlertInv, NEW j \in Jobs, OtherDone(j) PROVE AlertInv'
<1>1. j # "evening"
  BY DEF OtherDone, AlertInv, AlertTypes, EveningRun, Run
<1>2. UNCHANGED <<due, mails, swallowed, stored, reader>>
  BY DEF OtherDone, SameDay, NothingStored
<1>3. \E r : job' = [job EXCEPT ![j] = r]
  BY DEF OtherDone, Begin
<1>4. Run' = Run /\ DOMAIN job' = Jobs /\ job' = [i \in Jobs |-> job'[i]]
  BY <1>1, <1>3, AnotherJob
<1>5. "evening" \in due' => Run = Off
  BY <1>2 DEF AlertInv, RunOK
<1>6. QED BY <1>2, <1>4, <1>5, EveningStands

(* The steps at which the evening's run and what is stored stay as they are. *)
LEMMA InvAround ==
    ASSUME AlertInv,
           \/ Tomorrow \/ Nightly \/ Weekly \/ UNCHANGED alertVars
           \/ \E f \in Papers : Publish(f)
           \/ \E j \in Jobs : Missed(j)
    PROVE  AlertInv'
<1>1. UNCHANGED <<mails, swallowed, stored, reader>>
  BY DEF Tomorrow, Nightly, Weekly, alertVars, Publish, Missed, NothingStored
<1>2. \/ job' = job
      \/ \E j \in {"nightly", "weekly"} : \E r : job' = [job EXCEPT ![j] = r]
  BY DEF Tomorrow, Nightly, Weekly, alertVars, Publish, Missed, Begin
<1>3. Run' = Run /\ DOMAIN job' = Jobs /\ job' = [i \in Jobs |-> job'[i]]
  <2>1. CASE job' = job
    BY <2>1 DEF Run, AlertInv, AlertTypes
  <2>2. CASE \E j \in {"nightly", "weekly"} : \E r : job' = [job EXCEPT ![j] = r]
    BY <2>2, AnotherJob
  <2>3. QED BY <1>2, <2>1, <2>2
<1>4. "evening" \in due' => Run = Off
  <2>1. CASE due' \subseteq due
    BY <2>1 DEF AlertInv, RunOK
  <2>2. CASE Tomorrow
    BY <2>2 DEF Tomorrow, Run, Jobs
  <2>3. Tomorrow \/ due' \subseteq due
    BY DEF Nightly, Weekly, alertVars, Publish, Missed
  <2>4. QED BY <2>1, <2>2, <2>3
<1>5. QED BY <1>1, <1>3, <1>4, EveningStands

LEMMA AlertsStep == ASSUME AlertInv, [AlertNext]_alertVars PROVE AlertInv'
<1>1. CASE Evening
  BY <1>1, InvEvening
<1>2. CASE Look
  BY <1>2, InvLook
<1>3. CASE CapStops
  BY <1>3, InvCapStops
<1>4. CASE Mail
  BY <1>4, InvMail
<1>5. ASSUME NEW f \in Papers, Read(f) PROVE AlertInv'
  BY <1>5, InvEveningRead
<1>6. ASSUME NEW j \in Jobs, Killed(j) PROVE AlertInv'
  BY <1>6, InvKilled
<1>7. ASSUME NEW j \in Jobs, OtherRead(j) PROVE AlertInv'
  BY <1>7, InvOtherRead
<1>8. ASSUME NEW j \in Jobs, OtherDone(j) PROVE AlertInv'
  BY <1>8, InvOtherDone
<1>9. CASE \/ Tomorrow \/ Nightly \/ Weekly \/ UNCHANGED alertVars
           \/ \E f \in Papers : Publish(f)
           \/ \E j \in Jobs : Missed(j)
  BY <1>9, InvAround
<1>10. QED BY <1>1, <1>2, <1>3, <1>4, <1>5, <1>6, <1>7, <1>8, <1>9 DEF AlertNext

-----------------------------------------------------------------------------
(* What the evening run of filing_alert and snapshot_only finds worth a mail *)
(* comes in exactly one, unless that mail fails or the run dies: whatever    *)
(* share classes list the filing, whatever jobs read it besides, and however *)
(* often a run fails, meets the cap or is missed.                          *)
THEOREM AlertsAreMailedOnce == AlertSpec => []MailedOnce
<1>1. AlertInit => AlertInv
  BY AlertsStart
<1>2. AlertInv /\ [AlertNext]_alertVars => AlertInv'
  BY AlertsStep
<1>3. AlertInv => MailedOnce
  <2>1. ASSUME AlertInv, NEW f \in Papers PROVE mails[f] <= 1
    BY <2>1 DEF AlertInv, MailsOK
  <2>2. ASSUME AlertInv, NEW f \in Papers, reader[f] = "evening", stored[f] = "alert", job["evening"] = Off
        PROVE  mails[f] = 1 \/ f \in swallowed
    <3>1. Found = {}
      BY <2>2, NothingIsFoundOff DEF Found, Run
    <3>2. QED BY <2>2, <3>1 DEF AlertInv, AlertsOK
  <2>3. QED BY <2>1, <2>2 DEF MailedOnce, ToldOnce, FoundIsMailed
<1>4. QED BY <1>1, <1>2, <1>3, PTL DEF AlertSpec

-----------------------------------------------------------------------------
(* What one good evening reads.  A run that is not marred has, of the papers *)
(* it saw at its start and whose dates it looks back to, every one in hand   *)
(* that a ticker lists which it is through with; each of them is stored, or  *)
(* was passed over under its filer, the first ticker to list it.             *)

FirstIsFiler(f) == Kind[f] = "activist" /\ Book[SelectInSeq(Book, LAMBDA t : t \in Listed[f])] # Subject[f]
NothingTriedIsUnread == \A f \in tried : stored[f] = "no" => FirstIsFiler(f)

\* The tickers a run is through with, in its first round or its second.
Through == 1..(Len(Book) - Len(Run.left))
ThroughIt(f) == \A i \in Through : Book[i] \in Listed[f] => f \in Run.seen
IsNews(f) == Kind[f] = "news"
LooksFor(f) == f \in Run.saw /\ dated[f] >= Since(f)

PapersOK ==
    /\ day \in Nat /\ dated \in [Papers -> Int] /\ appeared \in [Papers -> Nat \cup {Unpublished}]
    /\ \A f \in Visible : appeared[f] <= dated[f]
    /\ tried \subseteq Papers
ListOK ==
    /\ Len(Run.left) <= Len(Book)
    /\ \A i \in 1..Len(Run.left) : Run.left[i] = Book[Len(Book) - Len(Run.left) + i]
BatchOK ==
    /\ Run.saw \subseteq Visible /\ Run.batch \subseteq Visible
    /\ \A f \in Run.batch :
          /\ Run.left # <<>> /\ Head(Run.left) \in Listed[f] /\ dated[f] >= Since(f)
          /\ Run.step \in {"look", "news"} /\ IsNews(f) = (Run.step = "news")
ProgressOK ==
    ~Run.marred =>
        /\ \A f \in Run.saw \cap Run.seen : stored[f] # "no" \/ FirstIsFiler(f)
        /\ \A f \in Papers : LooksFor(f) =>
              /\ Run.step = "look" /\ ~IsNews(f) => ThroughIt(f)
              /\ Run.step = "news" /\ IsNews(f) => ThroughIt(f)
              /\ Run.step = "news" /\ ~IsNews(f) => f \in Run.seen
              /\ Run.step = "mail" => f \in Run.seen

ReadingOK == ListOK /\ BatchOK /\ ProgressOK
ReadingInv == AlertInv /\ PapersOK /\ ReadingOK /\ NothingTriedIsUnread

LEMMA TheBook ==
    /\ Len(Book) \in Nat /\ DOMAIN Book = 1..Len(Book)
    /\ \A f \in Papers : Subject[f] \in Listed[f] /\ \E i \in 1..Len(Book) : Book[i] \in Listed[f]
<1>1. Book \in Seq(ToSet(Book))
  BY AlertAssumption
<1>2. Len(Book) \in Nat /\ DOMAIN Book = 1..Len(Book)
  BY <1>1
<1>3. ASSUME NEW f \in Papers PROVE Subject[f] \in Listed[f] /\ \E i \in 1..Len(Book) : Book[i] \in Listed[f]
  BY <1>2, AlertAssumption DEF ToSet
<1>4. QED BY <1>2, <1>3

(* The first ticker that lists a paper.                                      *)
LEMMA FirstLister ==
    ASSUME NEW f \in Papers, NEW k \in 1..Len(Book), Book[k] \in Listed[f],
           \A i \in 1..(k - 1) : Book[i] \notin Listed[f]
    PROVE  SelectInSeq(Book, LAMBDA t : t \in Listed[f]) = k
<1> DEFINE I == {i \in 1..Len(Book) : Book[i] \in Listed[f]}
<1>1. k \in I /\ I \subseteq Nat
  BY TheBook
<1>2. \A i \in I : k <= i
  <2>1. ASSUME NEW i \in I, i < k PROVE FALSE
    <3>1. i \in 1..(k - 1) /\ Book[i] \in Listed[f]
      BY <2>1, TheBook
    <3>2. QED BY <3>1
  <2>2. QED BY <2>1, <1>1
<1>3. SelectInSeq(Book, LAMBDA t : t \in Listed[f]) = Min(I)
  BY <1>1 DEF SelectInSeq
<1>4. Min(I) = k
  <2>1. Min(I) \in I /\ \A i \in I : Min(I) <= i
    BY <1>1, <1>2 DEF Min
  <2> HIDE DEF I
  <2>2. Min(I) <= k /\ k <= Min(I)
    BY <1>1, <1>2, <2>1
  <2>3. Min(I) \in Nat
    BY <1>1, <2>1
  <2>4. QED BY <2>2, <2>3
<1>5. QED BY <1>3, <1>4

(* Among four days one is a business day.                                     *)
LEMMA BusinessDay == ASSUME NEW d \in Nat PROVE NextBusinessDay(d) \in Int /\ NextBusinessDay(d) > d
<1> DEFINE S == {e \in d + 1..d + 4 : Weekday(e) < 5}
<1>1. FirstWeekday \in Nat
  BY AlertAssumption
<1>2. (d + 1 + FirstWeekday) % 7 < 5 \/ (d + 2 + FirstWeekday) % 7 < 5 \/ (d + 3 + FirstWeekday) % 7 < 5
  BY <1>1
<1>3. S # {}
  <2>1. d + 1 \in d + 1..d + 4 /\ d + 2 \in d + 1..d + 4 /\ d + 3 \in d + 1..d + 4
    OBVIOUS
  <2>2. QED BY <1>2, <2>1 DEF Weekday
<1>4. S \in SUBSET Nat
  OBVIOUS
<1>5. \E x \in S : \A y \in S : x <= y
  <2> HIDE DEF S
  <2>1. QED BY <1>3, <1>4, LeastNumber
<1>6. Min(S) \in S
  BY <1>5 DEF Min
<1>7. QED BY <1>6 DEF NextBusinessDay

-----------------------------------------------------------------------------
LEMMA NoBatchOff == Off.saw = {} /\ Off.batch = {} /\ Off.left = <<>> /\ Off.step = "off" /\ Off.seen = {}
BY DEF Off

LEMMA NothingLeftOff == Off.saw = {} /\ Off.batch = {} /\ Len(Off.left) = 0 /\ Off.step = "off"
<1>1. Len(<<>>) = 0
  OBVIOUS
<1>2. QED BY <1>1, NoBatchOff

(* A run that is off reads nothing.                                          *)
LEMMA OffReads == ASSUME Run = Off PROVE ReadingOK
<1>1. Run.saw = {} /\ Run.batch = {} /\ Len(Run.left) = 0 /\ Run.step = "off"
  BY NothingLeftOff
<1>2. ListOK
  BY <1>1, TheBook DEF ListOK
<1>3. BatchOK
  BY <1>1 DEF BatchOK
<1>4. ProgressOK
  BY <1>1 DEF ProgressOK, LooksFor
<1>5. QED BY <1>2, <1>3, <1>4 DEF ReadingOK

LEMMA OffReadsNext == ASSUME Run' = Off PROVE ReadingOK'
<1>1. Run'.saw = {} /\ Run'.batch = {} /\ Len(Run'.left) = 0 /\ Run'.step = "off"
  BY NothingLeftOff
<1>2. ListOK'
  BY <1>1, TheBook DEF ListOK
<1>3. BatchOK'
  BY <1>1 DEF BatchOK
<1>4. ProgressOK'
  BY <1>1 DEF ProgressOK, LooksFor
<1>5. QED BY <1>2, <1>3, <1>4 DEF ReadingOK

LEMMA ReadingStarts == ASSUME AlertInit PROVE ReadingInv
<1>1. Run = Off
  BY DEF AlertInit, Run, Jobs
<1>2. Visible = {} /\ PapersOK
  BY DEF AlertInit, Visible, PapersOK
<1>3. NothingTriedIsUnread
  BY DEF AlertInit, NothingTriedIsUnread
<1>4. QED BY <1>1, <1>2, <1>3, OffReads, AlertsStart DEF ReadingInv

LEMMA StillTried ==
    ASSUME ReadingInv, \A f \in Papers : stored[f] # "no" => stored'[f] # "no", UNCHANGED tried
    PROVE  NothingTriedIsUnread'
<1>1. \A f \in tried : f \in Papers
  BY DEF ReadingInv, PapersOK
<1>2. \A f \in tried' : stored'[f] = "no" => FirstIsFiler(f)
  BY <1>1 DEF ReadingInv, NothingTriedIsUnread
<1>3. QED BY <1>2 DEF NothingTriedIsUnread

(* Around the evening's run what was published keeps its date, and what is   *)
(* stored stays.                                                            *)
LEMMA ReadingStands ==
    ASSUME ReadingInv, AlertInv', PapersOK', Run' = Run, Run = Off \/ day' = day,
           \A f \in Visible : f \in Visible' /\ dated'[f] = dated[f],
           \A f \in Papers : stored[f] # "no" => stored'[f] # "no",
           UNCHANGED tried
    PROVE  ReadingInv'
<1>1. NothingTriedIsUnread'
  BY StillTried
<1>2. CASE Run = Off
  BY <1>1, <1>2, OffReadsNext DEF ReadingInv
<1>3. CASE day' = day
  <2>1. ListOK'
    BY DEF ReadingInv, ReadingOK, ListOK
  <2>2. \A f : Since(f)' = Since(f)
    BY <1>3 DEF Since, LookBack
  <2>3. BatchOK'
    <3>1. Run.saw \subseteq Visible /\ Run.batch \subseteq Visible
      BY DEF ReadingInv, ReadingOK, BatchOK
    <3>2. ASSUME NEW f \in Run.batch
          PROVE  /\ Run.left # <<>> /\ Head(Run.left) \in Listed[f] /\ dated'[f] >= Since(f)'
                 /\ Run.step \in {"look", "news"} /\ IsNews(f) = (Run.step = "news")
      BY <2>2, <3>1 DEF ReadingInv, ReadingOK, BatchOK
    <3>3. QED BY <3>1, <3>2 DEF BatchOK, IsNews
  <2>4. ProgressOK'
    <3>1. \A f \in Papers : LooksFor(f)' => LooksFor(f)
      BY <2>2 DEF ReadingInv, ReadingOK, BatchOK, LooksFor
    <3>2. \A f : ThroughIt(f)' <=> ThroughIt(f)
      BY DEF ThroughIt, Through
    <3>3. Run.saw \subseteq Papers
      BY DEF ReadingInv, ReadingOK, BatchOK, Visible
    <3>4. ASSUME ~Run'.marred
          PROVE  \A f \in Run'.saw \cap Run'.seen : stored'[f] # "no" \/ FirstIsFiler(f)
      BY <3>3, <3>4 DEF ReadingInv, ReadingOK, ProgressOK
    <3>5. ASSUME ~Run'.marred, NEW f \in Papers, LooksFor(f)'
          PROVE  /\ Run'.step = "look" /\ ~IsNews(f) => ThroughIt(f)'
                 /\ Run'.step = "news" /\ IsNews(f) => ThroughIt(f)'
                 /\ Run'.step = "news" /\ ~IsNews(f) => f \in Run'.seen
                 /\ Run'.step = "mail" => f \in Run'.seen
      BY <3>1, <3>2, <3>5 DEF ReadingInv, ReadingOK, ProgressOK
    <3>6. QED BY <3>4, <3>5 DEF ProgressOK, IsNews
  <2>5. QED BY <1>1, <2>1, <2>3, <2>4 DEF ReadingInv, ReadingOK
<1>4. QED BY <1>2, <1>3

-----------------------------------------------------------------------------
(* A step of the evening's run.                                             *)
LEMMA ReadingMoves ==
    ASSUME ReadingInv, AlertInv', SameDay, UNCHANGED tried,
           \A f \in Papers : stored[f] # "no" => stored'[f] # "no",
           ListOK', BatchOK', ProgressOK'
    PROVE  ReadingInv'
<1>1. NothingTriedIsUnread'
  BY StillTried
<1>2. PapersOK'
  <2>1. UNCHANGED <<day, appeared, dated, tried>>
    BY DEF SameDay
  <2>2. QED BY <2>1 DEF ReadingInv, PapersOK, Visible
<1>3. QED BY <1>1, <1>2 DEF ReadingInv, ReadingOK

LEMMA RunIs ==
    ASSUME AlertInv, NEW r, job' = [job EXCEPT !["evening"] = r]
    PROVE  Run' = r
BY DEF AlertInv, AlertTypes, Run, Jobs

LEMMA SameLook ==
    ASSUME SameDay
    PROVE  /\ Visible' = Visible /\ dated' = dated /\ day' = day
           /\ \A f : Since(f)' = Since(f)
BY DEF SameDay, Visible, Since, LookBack

LEMMA OneOn == ASSUME NEW n \in Nat, NEW m \in Nat, NEW i \in Nat PROVE n - m + (i + 1) = n - (m - 1) + i
OBVIOUS

LEMMA OneLess ==
    ASSUME NEW n \in Nat, NEW m \in 1..n, NEW l, l = m - 1
    PROVE  \A i : i \in 1..(n - l) => i \in 1..(n - m) \/ i = n - m + 1
OBVIOUS

(* The list in hand and the tickers it is through with.                      *)
LEMMA ListIs ==
    ASSUME ReadingInv
    PROVE  /\ Run.left \in Seq(ToSet(Book)) /\ Len(Run.left) \in Nat
           /\ Run.left # <<>> =>
                 /\ Len(Run.left) \in 1..Len(Book)
                 /\ Head(Run.left) = Book[Len(Book) - Len(Run.left) + 1]
                 /\ Len(Tail(Run.left)) = Len(Run.left) - 1
                 /\ \A i \in 1..(Len(Run.left) - 1) : Tail(Run.left)[i] = Run.left[i + 1]
<1>1. Run.left \in Seq(ToSet(Book))
  BY DEF ReadingInv, AlertInv, AlertTypes, EveningRun
<1>2. Len(Run.left) \in Nat
  BY <1>1
<1>3. Len(Run.left) <= Len(Book) /\ \A i \in 1..Len(Run.left) : Run.left[i] = Book[Len(Book) - Len(Run.left) + i]
  BY DEF ReadingInv, ReadingOK, ListOK
<1>4. ASSUME Run.left # <<>>
      PROVE  /\ Len(Run.left) \in 1..Len(Book)
             /\ Head(Run.left) = Book[Len(Book) - Len(Run.left) + 1]
             /\ Len(Tail(Run.left)) = Len(Run.left) - 1
             /\ \A i \in 1..(Len(Run.left) - 1) : Tail(Run.left)[i] = Run.left[i + 1]
  <2>1. Len(Run.left) >= 1
    BY <1>1, <1>4
  <2>2. 1 \in 1..Len(Run.left) /\ Head(Run.left) = Run.left[1]
    BY <1>1, <1>2, <2>1
  <2>3. /\ Len(Tail(Run.left)) = Len(Run.left) - 1
        /\ \A i \in 1..(Len(Run.left) - 1) : Tail(Run.left)[i] = Run.left[i + 1]
    BY <1>1, <1>4, HeadTailProperties
  <2>4. Head(Run.left) = Book[Len(Book) - Len(Run.left) + 1]
    BY <1>3, <2>2
  <2>5. Len(Run.left) \in 1..Len(Book)
    BY <1>2, <1>3, <2>1, TheBook
  <2>6. QED BY <2>3, <2>4, <2>5
<1>5. QED BY <1>1, <1>2, <1>4

(* What a run that looks for a paper knows of it.                            *)
LEMMA LookedFor ==
    ASSUME ReadingInv, NEW f \in Papers, LooksFor(f), ~Run.marred
    PROVE  /\ f \in Visible
           /\ Run.step = "look" /\ ~IsNews(f) => ThroughIt(f)
           /\ Run.step = "news" /\ IsNews(f) => ThroughIt(f)
           /\ Run.step = "news" /\ ~IsNews(f) => f \in Run.seen
           /\ Run.step = "mail" => f \in Run.seen
BY DEF ReadingInv, ReadingOK, ProgressOK, BatchOK, LooksFor

(* A ticker's list comes, with something in it that is unread.               *)
LEMMA ReadsAList ==
    ASSUME ReadingInv, AlertInv', SameDay, UNCHANGED <<stored, tried>>, Run.left # <<>>,
           Run.step \in {"look", "news"},
           Run' = [Run EXCEPT !.batch = Unread(Head(Run.left), Run)]
    PROVE  ReadingInv'
<1>1. Run \in EveningRun
  BY DEF ReadingInv, AlertInv, AlertTypes
<1>2. /\ Run'.step = Run.step /\ Run'.seen = Run.seen /\ Run'.left = Run.left /\ Run'.saw = Run.saw
      /\ Run'.marred = Run.marred /\ Run'.batch = Unread(Head(Run.left), Run)
  BY <1>1 DEF EveningRun
<1>3. ListOK'
  BY <1>2 DEF ReadingInv, ReadingOK, ListOK
<1>4. BatchOK'
  <2>1. \A f \in Run'.batch :
          /\ f \in Visible /\ Head(Run.left) \in Listed[f] /\ dated[f] >= Since(f)
          /\ IsNews(f) = (Run.step = "news")
    BY <1>2 DEF Unread, IsNews
  <2>2. Run'.saw \subseteq Visible
    BY <1>2 DEF ReadingInv, ReadingOK, BatchOK
  <2>3. ASSUME NEW f \in Run'.batch
        PROVE  /\ Run'.left # <<>> /\ Head(Run'.left) \in Listed[f] /\ dated'[f] >= Since(f)'
               /\ Run'.step \in {"look", "news"} /\ IsNews(f) = (Run'.step = "news")
    BY <1>2, <2>1, SameLook
  <2>4. QED BY <2>1, <2>2, <2>3, SameLook DEF BatchOK, IsNews
<1>5. ProgressOK'
  <2>1. \A f : (LooksFor(f)' <=> LooksFor(f)) /\ (ThroughIt(f)' <=> ThroughIt(f))
    BY <1>2, SameLook DEF LooksFor, ThroughIt, Through
  <2>2. QED BY <1>2, <2>1 DEF ReadingInv, ReadingOK, ProgressOK, IsNews
<1>6. QED BY <1>3, <1>4, <1>5, ReadingMoves

(* A list with nothing unread, or none that came.                            *)
LEMMA PassesATicker ==
    ASSUME ReadingInv, AlertInv', SameDay, UNCHANGED <<stored, tried>>, Run.left # <<>>,
           Run.step \in {"look", "news"}, Run.batch = {},
           \/ Run' = [Run EXCEPT !.left = Tail(@)] /\ Unread(Head(Run.left), Run) = {}
           \/ Run' = [Run EXCEPT !.left = Tail(@), !.marred = TRUE]
    PROVE  ReadingInv'
<1>1. Run \in EveningRun
  BY DEF ReadingInv, AlertInv, AlertTypes
<1>2. /\ Run'.step = Run.step /\ Run'.seen = Run.seen /\ Run'.left = Tail(Run.left) /\ Run'.saw = Run.saw
      /\ Run'.batch = {}
      /\ ~Run'.marred => ~Run.marred /\ Unread(Head(Run.left), Run) = {}
  BY <1>1 DEF EveningRun
<1>3. /\ Len(Run.left) \in 1..Len(Book) /\ Head(Run.left) = Book[Len(Book) - Len(Run.left) + 1]
      /\ Len(Run'.left) = Len(Run.left) - 1
      /\ \A i \in 1..(Len(Run.left) - 1) : Run'.left[i] = Run.left[i + 1]
  BY <1>2, ListIs
<1>4. ListOK'
  <2>1. \A i \in 1..Len(Run.left) : Run.left[i] = Book[Len(Book) - Len(Run.left) + i]
    BY DEF ReadingInv, ReadingOK, ListOK
  <2>2. Len(Run'.left) <= Len(Book)
    BY <1>3, TheBook
  <2>3. ASSUME NEW i \in 1..Len(Run'.left)
        PROVE  Run'.left[i] = Book[Len(Book) - Len(Run'.left) + i]
    <3>1. i \in 1..(Len(Run.left) - 1) /\ i + 1 \in 1..Len(Run.left)
      BY <1>3, TheBook
    <3>2. Run'.left[i] = Book[Len(Book) - Len(Run.left) + (i + 1)]
      BY <1>3, <2>1, <3>1
    <3>3. Len(Book) - Len(Run.left) + (i + 1) = Len(Book) - Len(Run'.left) + i
      <4>1. i \in Nat /\ Len(Book) \in Nat /\ Len(Run.left) \in Nat
        BY <1>3, <3>1, TheBook
      <4>2. Len(Book) - Len(Run.left) + (i + 1) = Len(Book) - (Len(Run.left) - 1) + i
        BY <4>1, OneOn
      <4>3. QED BY <1>3, <4>2
    <3>4. QED BY <3>2, <3>3
  <2>4. QED BY <2>2, <2>3 DEF ListOK
<1>5. BatchOK'
  BY <1>2, SameLook DEF ReadingInv, ReadingOK, BatchOK
<1>6. ProgressOK'
  <2>1. SUFFICES ASSUME ~Run'.marred PROVE ProgressOK'
    BY DEF ProgressOK
  <2>2. ~Run.marred /\ Unread(Head(Run.left), Run) = {}
    BY <1>2, <2>1
  <2>3. \A f \in Run'.saw \cap Run'.seen : stored'[f] # "no" \/ FirstIsFiler(f)
    BY <1>2, <2>2 DEF ReadingInv, ReadingOK, ProgressOK
  <2>4. ASSUME NEW f \in Papers, LooksFor(f)'
        PROVE  /\ Run'.step = "look" /\ ~IsNews(f) => ThroughIt(f)'
               /\ Run'.step = "news" /\ IsNews(f) => ThroughIt(f)'
               /\ Run'.step = "news" /\ ~IsNews(f) => f \in Run'.seen
               /\ Run'.step = "mail" => f \in Run'.seen
    <3>1. LooksFor(f)
      BY <1>2, <2>4, SameLook DEF LooksFor
    <3>2. f \in Visible /\ dated[f] >= Since(f)
      BY <2>2, <3>1, LookedFor DEF LooksFor
    <3>3. \A i : i \in Through' => i \in Through \/ i = Len(Book) - Len(Run.left) + 1
      <4>1. Len(Book) \in Nat
        BY TheBook
      <4>2. QED BY <1>3, <4>1, OneLess DEF Through
    <3>4. IsNews(f) = (Run.step = "news") /\ Head(Run.left) \in Listed[f] => f \in Run.seen
      BY <2>2, <3>2 DEF Unread, IsNews
    <3>5. IsNews(f) = (Run.step = "news") /\ ThroughIt(f) => ThroughIt(f)'
      BY <1>2, <1>3, <3>3, <3>4 DEF ThroughIt
    <3>6. QED BY <1>2, <2>2, <3>1, <3>5, LookedFor DEF IsNews
  <2>5. QED BY <2>3, <2>4 DEF ProgressOK, IsNews
<1>7. QED BY <1>4, <1>5, <1>6, ReadingMoves

LEMMA ThroughAll ==
    ASSUME ReadingInv, Run.left = <<>>, NEW f \in Papers, ThroughIt(f)
    PROVE  f \in Run.seen
<1>1. Len(Run.left) = 0
  OBVIOUS
<1>2. Through = 1..Len(Book)
  BY <1>1, TheBook DEF Through
<1>3. QED BY <1>2, TheBook DEF ThroughIt

(* After the last ticker's filings the news, and after the news the mail.    *)
LEMMA NextRound ==
    ASSUME ReadingInv, AlertInv', SameDay, UNCHANGED <<stored, tried>>, Run.left = <<>>, Run.batch = {},
           \/ Run.step = "look" /\ Run' = [Run EXCEPT !.step = "news", !.left = Book]
           \/ Run.step = "news" /\ Run' = [Run EXCEPT !.step = "mail"]
    PROVE  ReadingInv'
<1>1. Run \in EveningRun
  BY DEF ReadingInv, AlertInv, AlertTypes
<1>2. /\ Run'.seen = Run.seen /\ Run'.saw = Run.saw /\ Run'.batch = {} /\ Run'.marred = Run.marred
      /\ \/ Run.step = "look" /\ Run'.step = "news" /\ Run'.left = Book
         \/ Run.step = "news" /\ Run'.step = "mail" /\ Run'.left = <<>>
  BY <1>1 DEF EveningRun
<1>3. ListOK'
  <2>1. CASE Run'.left = Book
    BY <2>1, TheBook DEF ListOK
  <2>2. CASE Run'.left = <<>>
    <3>1. Len(Run'.left) = 0
      BY <2>2
    <3>2. QED BY <3>1, TheBook DEF ListOK
  <2>3. QED BY <1>2, <2>1, <2>2
<1>4. BatchOK'
  BY <1>2, SameLook DEF ReadingInv, ReadingOK, BatchOK
<1>5. ProgressOK'
  <2>1. SUFFICES ASSUME ~Run'.marred PROVE ProgressOK'
    BY DEF ProgressOK
  <2>2. \A f \in Run'.saw \cap Run'.seen : stored'[f] # "no" \/ FirstIsFiler(f)
    BY <1>2, <2>1 DEF ReadingInv, ReadingOK, ProgressOK
  <2>3. ASSUME NEW f \in Papers, LooksFor(f)'
        PROVE  /\ Run'.step = "look" /\ ~IsNews(f) => ThroughIt(f)'
               /\ Run'.step = "news" /\ IsNews(f) => ThroughIt(f)'
               /\ Run'.step = "news" /\ ~IsNews(f) => f \in Run'.seen
               /\ Run'.step = "mail" => f \in Run'.seen
    <3>1. LooksFor(f)
      BY <1>2, <2>3, SameLook DEF LooksFor
    <3>2. CASE Run.step = "look" /\ Run'.step = "news" /\ Run'.left = Book
      <4>1. Through' = {}
        BY <3>2, TheBook DEF Through
      <4>2. ThroughIt(f)'
        BY <4>1 DEF ThroughIt
      <4>3. ~IsNews(f) => f \in Run.seen
        BY <1>2, <2>1, <3>1, <3>2, LookedFor, ThroughAll
      <4>4. QED BY <1>2, <3>2, <4>2, <4>3
    <3>3. CASE Run.step = "news" /\ Run'.step = "mail"
      <4>1. f \in Run.seen
        BY <1>2, <2>1, <3>1, <3>3, LookedFor, ThroughAll
      <4>2. QED BY <1>2, <3>3, <4>1
    <3>4. QED BY <1>2, <3>2, <3>3
  <2>4. QED BY <2>2, <2>3 DEF ProgressOK, IsNews
<1>6. QED BY <1>3, <1>4, <1>5, ReadingMoves

LEMMA ReadingLook == ASSUME ReadingInv, Look PROVE ReadingInv'
<1>1. job["evening"] = Run /\ AlertInv /\ AlertInv'
  BY InvLook DEF ReadingInv, Run
<1>2. SameDay /\ UNCHANGED <<stored, tried>> /\ Run.step \in {"look", "news"} /\ Run.batch = {}
  BY <1>1 DEF Look, NothingStored
<1>3. CASE Run.left # <<>>
  <2>1. \/ job' = [job EXCEPT !["evening"] = [Run EXCEPT !.batch = Unread(Head(Run.left), Run)]]
        \/ /\ job' = [job EXCEPT !["evening"] = [Run EXCEPT !.left = Tail(@)]]
           /\ Unread(Head(Run.left), Run) = {}
        \/ job' = [job EXCEPT !["evening"] = [Run EXCEPT !.left = Tail(@), !.marred = TRUE]]
    BY <1>1, <1>3 DEF Look
  <2>2. \/ Run' = [Run EXCEPT !.batch = Unread(Head(Run.left), Run)]
        \/ Run' = [Run EXCEPT !.left = Tail(@)] /\ Unread(Head(Run.left), Run) = {}
        \/ Run' = [Run EXCEPT !.left = Tail(@), !.marred = TRUE]
    BY <1>1, <2>1, RunIs
  <2>3. QED BY <1>1, <1>2, <1>3, <2>2, ReadsAList, PassesATicker
<1>4. CASE Run.left = <<>>
  <2>1. job' = [job EXCEPT !["evening"] =
                  IF Run.step = "look" THEN [Run EXCEPT !.step = "news", !.left = Book] ELSE [Run EXCEPT !.step = "mail"]]
    BY <1>1, <1>4 DEF Look
  <2>2. Run' = IF Run.step = "look" THEN [Run EXCEPT !.step = "news", !.left = Book] ELSE [Run EXCEPT !.step = "mail"]
    BY <1>1, <2>1, RunIs
  <2>3. QED BY <1>1, <1>2, <1>4, <2>2, NextRound
<1>5. QED BY <1>3, <1>4

-----------------------------------------------------------------------------
(* A paper in hand that the run saw and looks for has no earlier ticker that *)
(* lists it, or it would have been read there.                              *)
LEMMA FirstAtHand ==
    ASSUME ReadingInv, ~Run.marred, NEW f \in Papers, f \in Run.batch, f \in Run.saw,
           OfTheFiler(f, Head(Run.left))
    PROVE  FirstIsFiler(f)
<1> DEFINE k == Len(Book) - Len(Run.left) + 1
<1>1. /\ Run.left # <<>> /\ Head(Run.left) \in Listed[f] /\ dated[f] >= Since(f)
      /\ Run.step \in {"look", "news"} /\ IsNews(f) = (Run.step = "news")
  BY DEF ReadingInv, ReadingOK, BatchOK
<1>2. Kind[f] = "activist" /\ Head(Run.left) # Subject[f]
  BY DEF OfTheFiler
<1>3. Run.step = "look" /\ ~IsNews(f)
  BY <1>1, <1>2 DEF IsNews
<1>4. ThroughIt(f) /\ f \notin Run.seen
  <2>1. LooksFor(f)
    BY <1>1 DEF LooksFor
  <2>2. f \notin Run.seen
    BY DEF ReadingInv, AlertInv, RunOK
  <2>3. QED BY <1>3, <2>1, <2>2, LookedFor
<1>5. k \in 1..Len(Book) /\ Head(Run.left) = Book[k] /\ Through = 1..(k - 1)
  <2>1. Len(Run.left) \in 1..Len(Book) /\ Head(Run.left) = Book[Len(Book) - Len(Run.left) + 1]
    BY <1>1, ListIs
  <2>2. Len(Book) \in Nat
    BY TheBook
  <2>3. k \in 1..Len(Book) /\ Len(Book) - Len(Run.left) = k - 1
    BY <2>1, <2>2
  <2>4. QED BY <2>1, <2>3 DEF Through
<1> HIDE DEF k
<1>6. \A i \in 1..(k - 1) : Book[i] \notin Listed[f]
  BY <1>4, <1>5 DEF ThroughIt
<1>7. SelectInSeq(Book, LAMBDA t : t \in Listed[f]) = k
  BY <1>1, <1>5, <1>6, FirstLister
<1>8. QED BY <1>2, <1>5, <1>7 DEF FirstIsFiler

(* A paper in hand is read, passed over, or not read for an error.           *)
LEMMA ReadsAPaper ==
    ASSUME ReadingInv, AlertInv', SameDay, UNCHANGED tried, NEW f \in Papers, f \in Run.batch,
           \A g \in Papers : stored[g] # "no" => stored'[g] # "no",
           /\ Run'.step = Run.step /\ Run'.seen = Run.seen \cup {f} /\ Run'.left = Run.left
           /\ Run'.saw = Run.saw /\ Run'.batch = Run.batch \ {f},
           ~Run'.marred => ~Run.marred /\ (stored'[f] # "no" \/ OfTheFiler(f, Head(Run.left)))
    PROVE  ReadingInv'
<1>1. ListOK'
  BY DEF ReadingInv, ReadingOK, ListOK
<1>2. BatchOK'
  BY SameLook DEF ReadingInv, ReadingOK, BatchOK, IsNews
<1>3. ProgressOK'
  <2>1. SUFFICES ASSUME ~Run'.marred PROVE ProgressOK'
    BY DEF ProgressOK
  <2>2. Run.saw \subseteq Papers
    BY DEF ReadingInv, ReadingOK, BatchOK, Visible
  <2>3. ASSUME NEW g \in Run'.saw \cap Run'.seen
        PROVE  stored'[g] # "no" \/ FirstIsFiler(g)
    <3>1. CASE g = f
      BY <2>1, <2>3, <3>1, FirstAtHand
    <3>2. CASE g \in Run.seen
      BY <2>1, <2>2, <2>3, <3>2 DEF ReadingInv, ReadingOK, ProgressOK
    <3>3. QED BY <2>3, <3>1, <3>2
  <2>4. ASSUME NEW g \in Papers, LooksFor(g)'
        PROVE  /\ Run'.step = "look" /\ ~IsNews(g) => ThroughIt(g)'
               /\ Run'.step = "news" /\ IsNews(g) => ThroughIt(g)'
               /\ Run'.step = "news" /\ ~IsNews(g) => g \in Run'.seen
               /\ Run'.step = "mail" => g \in Run'.seen
    <3>1. LooksFor(g)
      BY <2>4, SameLook DEF LooksFor
    <3>2. ThroughIt(g) => ThroughIt(g)'
      BY DEF ThroughIt, Through
    <3>3. QED BY <2>1, <3>1, <3>2, LookedFor
  <2>5. QED BY <2>3, <2>4 DEF ProgressOK, IsNews
<1>4. QED BY <1>1, <1>2, <1>3, ReadingMoves

LEMMA ReadingRead == ASSUME ReadingInv, NEW f \in Papers, Read(f) PROVE ReadingInv'
<1> DEFINE c == [Run EXCEPT !.batch = @ \ {f}, !.seen = @ \cup {f}]
<1>1. job["evening"] = Run /\ AlertInv /\ AlertInv' /\ Run \in EveningRun /\ SameDay /\ UNCHANGED tried /\ f \in Run.batch
  BY InvEveningRead DEF ReadingInv, AlertInv, AlertTypes, Run, Read
<1>2. c \in EveningRun /\ Considered("evening", f) = c
  BY <1>1 DEF EveningRun, Considered, Run
<1>3. /\ c.step = Run.step /\ c.seen = Run.seen \cup {f} /\ c.left = Run.left
      /\ c.saw = Run.saw /\ c.batch = Run.batch \ {f} /\ c.marred = Run.marred
  BY <1>1 DEF EveningRun
<1> HIDE DEF c
<1>4. CASE /\ OfTheFiler(f, Head(Run.left)) /\ job' = [job EXCEPT !["evening"] = c] /\ UNCHANGED stored
  <2>1. Run' = c
    BY <1>1, <1>4, RunIs
  <2>2. QED BY <1>1, <1>3, <1>4, <2>1, ReadsAPaper
<1>5. ASSUME NEW what \in {"alert", "quiet"}, Store("evening", f, what),
             job' = [job EXCEPT !["evening"] = [c EXCEPT !.found = IF what = "alert" THEN Append(@, f) ELSE @]]
      PROVE  ReadingInv'
  <2>1. Run' = [c EXCEPT !.found = IF what = "alert" THEN Append(@, f) ELSE @]
    BY <1>1, <1>5, RunIs
  <2>2. /\ Run'.step = c.step /\ Run'.seen = c.seen /\ Run'.left = c.left
        /\ Run'.saw = c.saw /\ Run'.batch = c.batch /\ Run'.marred = c.marred
    BY <1>2, <2>1 DEF EveningRun
  <2>3. stored'[f] # "no" /\ \A g \in Papers : stored[g] # "no" => stored'[g] # "no"
    BY <1>1, <1>5 DEF Store, AlertInv, AlertTypes
  <2>4. QED BY <1>1, <1>3, <2>2, <2>3, ReadsAPaper
<1>6. CASE job' = [job EXCEPT !["evening"] = [c EXCEPT !.marred = TRUE]] /\ UNCHANGED stored
  <2>1. Run' = [c EXCEPT !.marred = TRUE]
    BY <1>1, <1>6, RunIs
  <2>2. /\ Run'.step = c.step /\ Run'.seen = c.seen /\ Run'.left = c.left
        /\ Run'.saw = c.saw /\ Run'.batch = c.batch /\ Run'.marred = TRUE
    BY <1>2, <2>1 DEF EveningRun
  <2>3. QED BY <1>1, <1>3, <1>6, <2>2, ReadsAPaper
<1>7. CASE OfTheFiler(f, Head(Run.left))
  BY <1>1, <1>2, <1>4, <1>7 DEF Read, NothingStored
<1>8. CASE ~OfTheFiler(f, Head(Run.left))
  <2>1. \/ \E what \in {"alert", "quiet"} :
              /\ Store("evening", f, what)
              /\ job' = [job EXCEPT !["evening"] = [c EXCEPT !.found = IF what = "alert" THEN Append(@, f) ELSE @]]
        \/ job' = [job EXCEPT !["evening"] = [c EXCEPT !.marred = TRUE]] /\ UNCHANGED stored
    BY <1>1, <1>2, <1>8 DEF Read, NothingStored
  <2>2. QED BY <1>5, <1>6, <2>1
<1>9. QED BY <1>7, <1>8

LEMMA ReadingCapStops == ASSUME ReadingInv, CapStops PROVE ReadingInv'
<1>1. job["evening"] = Run /\ AlertInv /\ AlertInv' /\ Run \in EveningRun /\ SameDay /\ UNCHANGED <<tried, stored>>
  BY InvCapStops DEF ReadingInv, AlertInv, AlertTypes, Run, CapStops, NothingStored
<1>2. Run' = [Run EXCEPT !.left = <<>>, !.batch = {}, !.marred = TRUE]
  BY <1>1, RunIs DEF CapStops, AtTheCap
<1>3. Run'.left = <<>> /\ Run'.batch = {} /\ Run'.marred = TRUE /\ Run'.saw = Run.saw
  BY <1>1, <1>2 DEF EveningRun
<1>4. Len(Run'.left) = 0
  BY <1>3
<1>5. ListOK'
  BY <1>4, TheBook DEF ListOK
<1>6. BatchOK'
  BY <1>1, <1>3, SameLook DEF ReadingInv, ReadingOK, BatchOK
<1>7. ProgressOK'
  BY <1>3 DEF ProgressOK
<1>8. QED BY <1>1, <1>5, <1>6, <1>7, ReadingMoves

(* The run is over, in its mail or before.                                   *)
LEMMA ReadingMail == ASSUME ReadingInv, Mail PROVE ReadingInv'
<1>1. /\ job["evening"] = Run /\ AlertInv /\ AlertInv' /\ SameDay /\ UNCHANGED stored /\ Run.step = "mail"
      /\ tried' = IF Run.marred THEN tried ELSE tried \cup {f \in Run.saw : day - appeared[f] <= LookBack(f)}
  BY InvMail DEF ReadingInv, Run, Mail, NothingStored
<1>2. Run' = Off
  BY <1>1, RunIs DEF Mail
<1>3. Run.saw \subseteq Visible /\ Visible \subseteq Papers
  BY DEF ReadingInv, ReadingOK, BatchOK, Visible
<1>4. PapersOK'
  <2>1. UNCHANGED <<day, appeared, dated>> /\ Visible' = Visible
    BY <1>1 DEF SameDay, Visible
  <2>2. tried' \subseteq Papers
    BY <1>1, <1>3 DEF ReadingInv, PapersOK
  <2>3. QED BY <2>1, <2>2 DEF ReadingInv, PapersOK
<1>5. ASSUME ~Run.marred, NEW f \in Run.saw, day - appeared[f] <= LookBack(f)
      PROVE  stored[f] # "no" \/ FirstIsFiler(f)
  <2>1. appeared[f] \in Nat /\ dated[f] \in Int /\ appeared[f] <= dated[f] /\ day \in Nat /\ f \in Papers
    BY <1>3 DEF ReadingInv, PapersOK, Visible
  <2>2. LookBack(f) \in Nat
    BY AlertAssumption DEF LookBack
  <2>3. dated[f] >= Since(f)
    BY <1>5, <2>1, <2>2 DEF Since
  <2>4. f \in Run.seen
    BY <1>1, <1>5, <2>1, <2>3, LookedFor DEF LooksFor
  <2>5. QED BY <1>5, <2>4 DEF ReadingInv, ReadingOK, ProgressOK
<1>6. NothingTriedIsUnread'
  <2>1. \A f \in tried' : stored'[f] = "no" => FirstIsFiler(f)
    BY <1>1, <1>5 DEF ReadingInv, NothingTriedIsUnread
  <2>2. QED BY <2>1 DEF NothingTriedIsUnread
<1>7. QED BY <1>1, <1>2, <1>4, <1>6, OffReadsNext DEF ReadingInv

(* What is under way elsewhere, or over, leaves the papers as they are.      *)
LEMMA PapersStand == ASSUME ReadingInv, SameDay, UNCHANGED tried PROVE PapersOK'
<1>1. UNCHANGED <<day, appeared, dated>> /\ Visible' = Visible
  BY DEF SameDay, Visible
<1>2. QED BY <1>1 DEF ReadingInv, PapersOK

LEMMA ReadingKilled == ASSUME ReadingInv, NEW j \in Jobs, Killed(j) PROVE ReadingInv'
<1>1. /\ AlertInv /\ AlertInv' /\ SameDay /\ UNCHANGED <<stored, tried>> /\ job' = [job EXCEPT ![j] = Off]
  BY InvKilled DEF ReadingInv, Killed, NothingStored
<1>2. PapersOK'
  BY <1>1, PapersStand
<1>3. CASE j = "evening"
  <2>1. Run' = Off
    BY <1>1, <1>3, RunIs
  <2>2. NothingTriedIsUnread'
    BY <1>1, StillTried
  <2>3. QED BY <1>1, <1>2, <2>1, <2>2, OffReadsNext DEF ReadingInv
<1>4. CASE j # "evening"
  <2>1. Run' = Run
    BY <1>1, <1>4, AnotherJob
  <2>2. day' = day /\ \A f \in Visible : f \in Visible' /\ dated'[f] = dated[f]
    BY <1>1, SameLook
  <2>3. QED BY <1>1, <1>2, <2>1, <2>2, ReadingStands
<1>5. QED BY <1>3, <1>4

LEMMA ReadingOthers ==
    ASSUME ReadingInv, NEW j \in Jobs, OtherRead(j) \/ OtherDone(j)
    PROVE  ReadingInv'
<1>1. AlertInv /\ AlertInv' /\ SameDay /\ UNCHANGED tried
  BY InvOtherRead, InvOtherDone DEF ReadingInv, OtherRead, OtherDone
<1>2. j # "evening" /\ \E r : job' = [job EXCEPT ![j] = r]
  <2>1. CASE OtherRead(j)
    BY <2>1 DEF OtherRead
  <2>2. CASE OtherDone(j)
    <3>1. j # "evening"
      BY <1>1, <2>2 DEF OtherDone, AlertInv, AlertTypes, EveningRun, Run
    <3>2. QED BY <2>2, <3>1 DEF OtherDone, Begin
  <2>3. QED BY <2>1, <2>2
<1>3. Run' = Run
  BY <1>1, <1>2, AnotherJob
<1>4. \A f \in Papers : stored[f] # "no" => stored'[f] # "no"
  <2>1. UNCHANGED stored \/ \E f : \E what \in {"alert", "quiet"} : Store(j, f, what)
    BY DEF OtherRead, OtherDone, NothingStored
  <2>2. QED BY <1>1, <2>1 DEF Store, AlertInv, AlertTypes
<1>5. day' = day /\ \A f \in Visible : f \in Visible' /\ dated'[f] = dated[f]
  BY <1>1, SameLook
<1>6. PapersOK'
  BY <1>1, PapersStand
<1>7. QED BY <1>1, <1>3, <1>4, <1>5, <1>6, ReadingStands

(* A run that starts has seen what is stored, and sees what has appeared.    *)
LEMMA ReadingEvening == ASSUME ReadingInv, Evening PROVE ReadingInv'
<1> DEFINE r == [Off EXCEPT !.step = "look", !.seen = Seen, !.left = Book, !.saw = Visible]
<1>1. /\ AlertInv /\ AlertInv' /\ UNCHANGED <<day, appeared, dated, stored, tried>>
      /\ job' = [job EXCEPT !["evening"] = r] \/ job' = job
  BY InvEvening DEF ReadingInv, Evening
<1>2. PapersOK' /\ Visible' = Visible
  BY <1>1 DEF ReadingInv, PapersOK, Visible
<1>3. CASE job' = job
  <2>1. Run' = Run
    BY <1>3 DEF Run
  <2>2. QED BY <1>1, <1>2, <2>1, ReadingStands
<1>4. CASE job' = [job EXCEPT !["evening"] = r]
  <2>1. /\ r.step = "look" /\ r.seen = Seen /\ r.left = Book /\ r.saw = Visible /\ r.batch = {}
    BY DEF Off
  <2> HIDE DEF r
  <2>2. Run' = r
    BY <1>1, <1>4, RunIs
  <2>3. ListOK'
    <3>1. Run'.left = Book /\ Len(Book) \in Nat
      BY <2>1, <2>2, TheBook
    <3>2. \A i \in 1..Len(Book) : Len(Book) - Len(Book) + i = i
      BY <3>1
    <3>3. QED BY <3>1, <3>2 DEF ListOK
  <2>4. BatchOK'
    BY <1>2, <2>1, <2>2 DEF BatchOK
  <2>5. ProgressOK'
    <3>1. Through' = {}
      BY <2>1, <2>2, TheBook DEF Through
    <3>2. \A f : ThroughIt(f)'
      BY <3>1 DEF ThroughIt
    <3>3. \A f \in Run'.seen : stored'[f] # "no"
      BY <1>1, <2>1, <2>2 DEF Seen
    <3>4. Run'.step = "look"
      BY <2>1, <2>2
    <3>5. QED BY <3>2, <3>3, <3>4 DEF ProgressOK
  <2>6. NothingTriedIsUnread'
    BY <1>1, StillTried
  <2>7. QED BY <1>1, <1>2, <2>3, <2>4, <2>5, <2>6 DEF ReadingInv, ReadingOK
<1>5. QED BY <1>1, <1>3, <1>4

(* What is published is dated no earlier than it appears; what was there     *)
(* keeps its date, and a day ends only when no job runs.                     *)
LEMMA ReadingAround ==
    ASSUME ReadingInv,
           \/ Tomorrow \/ Nightly \/ Weekly \/ UNCHANGED alertVars
           \/ \E f \in Papers : Publish(f)
           \/ \E j \in Jobs : Missed(j)
    PROVE  ReadingInv'
<1>1. AlertInv /\ AlertInv' /\ UNCHANGED <<stored, tried>>
  BY InvAround DEF ReadingInv, Tomorrow, Nightly, Weekly, alertVars, Publish, Missed, NothingStored
<1>2. Run' = Run
  <2>1. job' = job \/ \E j \in {"nightly", "weekly"} : \E r : job' = [job EXCEPT ![j] = r]
    BY DEF Tomorrow, Nightly, Weekly, alertVars, Publish, Missed, Begin
  <2>2. CASE job' = job
    BY <2>2 DEF Run
  <2>3. CASE \E j \in {"nightly", "weekly"} : \E r : job' = [job EXCEPT ![j] = r]
    BY <1>1, <2>3, AnotherJob
  <2>4. QED BY <2>1, <2>2, <2>3
<1>3. ASSUME NEW f \in Papers, Publish(f) PROVE ReadingInv'
  <2>1. PICK d \in {day} \cup (IF Kind[f] = "news" THEN {} ELSE {NextBusinessDay(day)}) :
           dated' = [dated EXCEPT ![f] = d]
    BY <1>3 DEF Publish
  <2>2. day' = day /\ appeared' = [appeared EXCEPT ![f] = day] /\ f \notin Visible
    BY <1>3 DEF Publish, Visible
  <2>3. day \in Nat /\ d \in Int /\ day <= d
    <3>1. day \in Nat
      BY DEF ReadingInv, PapersOK
    <3>2. NextBusinessDay(day) \in Int /\ NextBusinessDay(day) > day
      BY <3>1, BusinessDay
    <3>3. d = day \/ d = NextBusinessDay(day)
      BY <2>1
    <3>4. QED BY <3>1, <3>2, <3>3
  <2>4. \A g \in Papers : /\ appeared'[g] = IF g = f THEN day ELSE appeared[g]
                          /\ dated'[g] = IF g = f THEN d ELSE dated[g]
    BY <2>1, <2>2 DEF ReadingInv, PapersOK
  <2>5. \A g \in Visible : g \in Visible' /\ dated'[g] = dated[g]
    BY <2>2, <2>4 DEF Visible
  <2>6. PapersOK'
    <3>1. dated' \in [Papers -> Int] /\ appeared' \in [Papers -> Nat \cup {Unpublished}]
      BY <2>1, <2>2, <2>3 DEF ReadingInv, PapersOK
    <3>2. \A g \in Visible' : appeared'[g] <= dated'[g]
      BY <2>3, <2>4 DEF ReadingInv, PapersOK, Visible
    <3>3. QED BY <1>1, <2>2, <3>1, <3>2 DEF ReadingInv, PapersOK
  <2>7. \A g \in Papers : stored[g] # "no" => stored'[g] # "no"
    BY <1>1
  <2>8. QED BY <1>1, <1>2, <2>2, <2>5, <2>6, <2>7, ReadingStands
<1>4. CASE UNCHANGED <<appeared, dated>> /\ (day' = day \/ (day' = day + 1 /\ Run = Off))
  <2>1. Visible' = Visible
    BY <1>4 DEF Visible
  <2>2. PapersOK'
    BY <1>1, <1>4, <2>1 DEF ReadingInv, PapersOK
  <2>3. QED BY <1>1, <1>2, <1>4, <2>1, <2>2, ReadingStands
<1>5. Tomorrow => Run = Off
  BY DEF Tomorrow, Run, Jobs
<1>6. \/ \E f \in Papers : Publish(f)
      \/ UNCHANGED <<appeared, dated>> /\ (day' = day \/ (day' = day + 1 /\ Run = Off))
  BY <1>5 DEF Tomorrow, Nightly, Weekly, alertVars, Missed
<1>7. QED BY <1>3, <1>4, <1>6

LEMMA ReadingStep == ASSUME ReadingInv, [AlertNext]_alertVars PROVE ReadingInv'
<1>1. CASE Evening
  BY <1>1, ReadingEvening
<1>2. CASE Look
  BY <1>2, ReadingLook
<1>3. CASE CapStops
  BY <1>3, ReadingCapStops
<1>4. CASE Mail
  BY <1>4, ReadingMail
<1>5. ASSUME NEW f \in Papers, Read(f) PROVE ReadingInv'
  BY <1>5, ReadingRead
<1>6. ASSUME NEW j \in Jobs, Killed(j) PROVE ReadingInv'
  BY <1>6, ReadingKilled
<1>7. ASSUME NEW j \in Jobs, OtherRead(j) \/ OtherDone(j) PROVE ReadingInv'
  BY <1>7, ReadingOthers
<1>8. CASE \/ Tomorrow \/ Nightly \/ Weekly \/ UNCHANGED alertVars
           \/ \E f \in Papers : Publish(f)
           \/ \E j \in Jobs : Missed(j)
  BY <1>8, ReadingAround
<1>9. QED BY <1>1, <1>2, <1>3, <1>4, <1>5, <1>6, <1>7, <1>8 DEF AlertNext

-----------------------------------------------------------------------------
(* An evening of filing_alert.run that goes through leaves unread no paper it *)
(* saw within its look-back, whatever failed on the evenings before, however *)
(* EDGAR dates it and whatever the other jobs store meanwhile - but a 13D    *)
(* whose filer comes before its subject in the book.                         *)
THEOREM NothingInReachIsMissed == AlertSpec => []OneGoodEveningReadsIt
<1>1. AlertInit => ReadingInv
  BY ReadingStarts
<1>2. ReadingInv /\ [AlertNext]_alertVars => ReadingInv'
  BY ReadingStep
<1>3. ReadingInv => OneGoodEveningReadsIt
  BY DEF ReadingInv, NothingTriedIsUnread, FirstIsFiler, OneGoodEveningReadsIt
<1>4. QED BY <1>1, <1>2, <1>3, PTL DEF AlertSpec

-----------------------------------------------------------------------------
(* The moonshot basket.                                                    *)

(***************************************************************************)
(* What is worked out of a set by taking out one member after the other: a   *)
(* function on its subsets.                                                *)
(***************************************************************************)
TakenOut(g, u, V, pick, base, step) ==
    /\ g \in [SUBSET u -> V]
    /\ \A s \in SUBSET u : g[s] = IF s = {} THEN base ELSE step[s][g[s \ {pick[s]}]]

\* What the members of S are taken out by, and put together by.
Takes(S, V, pick, base, step) ==
    /\ IsFiniteSet(S) /\ base \in V
    /\ \A s \in SUBSET S : s # {} => pick[s] \in s /\ step[s] \in [V -> V]

LEMMA SmallestSet ==
    ASSUME NEW F, NEW S \in F, \A s \in F : IsFiniteSet(s)
    PROVE  \E s \in F : \A u \in F : Cardinality(s) <= Cardinality(u)
<1> DEFINE N == {Cardinality(s) : s \in F}
<1>1. N \in SUBSET Nat /\ N # {}
  BY FS_CardinalityType
<1>2. PICK n \in N : \A m \in N : n <= m
  BY <1>1, LeastNumber
<1>3. QED BY <1>2

(* A collection of a finite set's subsets that has one has a smallest one, and  *)
(* nothing less than it.                                                   *)
LEMMA NothingSmaller ==
    ASSUME NEW S, IsFiniteSet(S), NEW F \in SUBSET SUBSET S, F # {}
    PROVE  \E u \in F : IsFiniteSet(u) /\ \A v \in SUBSET u : v # u => v \notin F
<1>1. \A u \in F : IsFiniteSet(u)
  BY FS_Subset
<1>2. PICK u \in F : \A v \in F : Cardinality(u) <= Cardinality(v)
  <2>1. PICK v \in F : TRUE
    OBVIOUS
  <2>2. QED BY <1>1, <2>1, SmallestSet
<1>3. ASSUME NEW v \in SUBSET u, v # u PROVE v \notin F
  <2>1. Cardinality(v) <= Cardinality(u) /\ (Cardinality(u) = Cardinality(v) => u = v)
    BY <1>1, FS_Subset
  <2>2. Cardinality(v) \in Nat /\ Cardinality(u) \in Nat
    BY <1>1, FS_Subset, FS_CardinalityType
  <2>3. QED BY <1>2, <1>3, <2>1, <2>2
<1>4. QED BY <1>1, <1>3

LEMMA TakenOutAlike ==
    ASSUME NEW V, NEW pick, NEW base, NEW step, NEW S, Takes(S, V, pick, base, step),
           NEW g, NEW h, NEW u \in SUBSET S, NEW v \in SUBSET S,
           TakenOut(g, u, V, pick, base, step), TakenOut(h, v, V, pick, base, step),
           NEW s \in SUBSET (u \cap v)
    PROVE  g[s] = h[s]
<1> DEFINE F == {t \in SUBSET (u \cap v) : g[t] # h[t]}
<1>1. SUFFICES ASSUME F # {} PROVE FALSE
  OBVIOUS
<1>2. F \in SUBSET SUBSET S /\ IsFiniteSet(S)
  BY DEF Takes
<1>3. PICK t \in F : \A r \in SUBSET t : r # t => r \notin F
  <2> HIDE DEF F
  <2>1. QED BY <1>1, <1>2, NothingSmaller
<1>4. t \in SUBSET u /\ t \in SUBSET v /\ t \in SUBSET S /\ g[t] # h[t]
  OBVIOUS
<1>5. /\ g[t] = IF t = {} THEN base ELSE step[t][g[t \ {pick[t]}]]
      /\ h[t] = IF t = {} THEN base ELSE step[t][h[t \ {pick[t]}]]
  BY <1>4 DEF TakenOut
<1>6. t # {}
  BY <1>4, <1>5
<1>7. pick[t] \in t
  BY <1>4, <1>6 DEF Takes
<1>8. g[t \ {pick[t]}] = h[t \ {pick[t]}]
  <2>1. t \ {pick[t]} \notin F
    BY <1>3, <1>7
  <2>2. QED BY <1>4, <2>1
<1>9. QED BY <1>4, <1>5, <1>6, <1>8

LEMMA CanBeTakenOut ==
    ASSUME NEW V, NEW pick, NEW base, NEW step, NEW S, Takes(S, V, pick, base, step)
    PROVE  \E g : TakenOut(g, S, V, pick, base, step)
<1> DEFINE F == {u \in SUBSET S : ~\E g : TakenOut(g, u, V, pick, base, step)}
<1>1. SUFFICES ASSUME F # {} PROVE FALSE
  OBVIOUS
<1>2. F \in SUBSET SUBSET S /\ IsFiniteSet(S)
  BY DEF Takes
<1>3. PICK u \in F : \A v \in SUBSET u : v # u => v \notin F
  <2> HIDE DEF F
  <2>1. QED BY <1>1, <1>2, NothingSmaller
<1>4. u \in SUBSET S /\ ~\E g : TakenOut(g, u, V, pick, base, step)
  OBVIOUS
<1>5. \A v \in SUBSET u : v # u => \E g : TakenOut(g, v, V, pick, base, step)
  BY <1>3, <1>4
<1> HIDE DEF F
<1> DEFINE The(v) == CHOOSE g : TakenOut(g, v, V, pick, base, step)
           Less(s) == s \ {pick[s]}
           g == [s \in SUBSET u |-> IF s = {} THEN base ELSE step[s][The(Less(s))[Less(s)]]]
<1>6. \A v \in SUBSET u : v # u => TakenOut(The(v), v, V, pick, base, step)
  BY <1>5
<1>7. \A s \in SUBSET u : s # {} => Less(s) \in SUBSET s /\ Less(s) # s /\ Less(s) # u
  BY <1>4 DEF Takes
<1> HIDE DEF The, Less
<1>8. g \in [SUBSET u -> V]
  <2>1. ASSUME NEW s \in SUBSET u, s # {} PROVE step[s][The(Less(s))[Less(s)]] \in V
    <3>1. Less(s) \in SUBSET u /\ TakenOut(The(Less(s)), Less(s), V, pick, base, step)
      BY <1>6, <1>7, <2>1
    <3>2. The(Less(s))[Less(s)] \in V
      BY <3>1 DEF TakenOut
    <3>3. step[s] \in [V -> V]
      BY <1>4, <2>1 DEF Takes
    <3>4. QED BY <3>2, <3>3
  <2>2. base \in V
    BY DEF Takes
  <2>3. QED BY <2>1, <2>2
<1>9. ASSUME NEW s \in SUBSET u, s # {} PROVE g[Less(s)] = The(Less(s))[Less(s)]
  <2> DEFINE v == Less(s)
  <2>1. v \in SUBSET u /\ v # u /\ TakenOut(The(v), v, V, pick, base, step)
    BY <1>6, <1>7, <1>9
  <2> HIDE DEF v
  <2>2. CASE v = {}
    <3>1. The(v)[v] = base
      BY <2>1, <2>2 DEF TakenOut
    <3>2. g[v] = base
      BY <2>1, <2>2
    <3>3. QED BY <3>1, <3>2 DEF v
  <2>3. CASE v # {}
    <3>1. Less(v) \in SUBSET v /\ Less(v) \in SUBSET u /\ Less(v) # u
      BY <1>7, <2>1, <2>3
    <3>2. TakenOut(The(Less(v)), Less(v), V, pick, base, step)
      BY <1>6, <3>1
    <3>3. The(v)[v] = step[v][The(v)[Less(v)]]
      BY <2>1, <2>3 DEF TakenOut, Less
    <3>4. The(v)[Less(v)] = The(Less(v))[Less(v)]
      <4>1. Less(v) \in SUBSET (v \cap Less(v)) /\ v \in SUBSET S /\ Less(v) \in SUBSET S
        BY <1>4, <2>1, <3>1
      <4>2. QED BY <2>1, <3>2, <4>1, TakenOutAlike
    <3>5. g[v] = step[v][The(Less(v))[Less(v)]]
      BY <2>1, <2>3
    <3>6. QED BY <3>3, <3>4, <3>5 DEF v
  <2>4. QED BY <2>2, <2>3
<1>10. \A s \in SUBSET u : g[s] = IF s = {} THEN base ELSE step[s][g[Less(s)]]
  <2>1. ASSUME NEW s \in SUBSET u PROVE g[s] = IF s = {} THEN base ELSE step[s][The(Less(s))[Less(s)]]
    OBVIOUS
  <2> HIDE DEF g
  <2>2. QED BY <1>9, <2>1
<1> HIDE DEF g
<1>11. TakenOut(g, u, V, pick, base, step)
  BY <1>8, <1>10 DEF TakenOut, Less
<1>12. QED BY <1>4, <1>11


-----------------------------------------------------------------------------
(* The basket's spread over industries and biotechs.                        *)
Spread(S) ==
    /\ \A i \in {IndustryOf[c] : c \in Companies} \ {""} : Cardinality({m \in S : IndustryOf[m] = i}) <= MaxPerIndustry
    /\ Cardinality(S \cap Biotechs) <= MaxBiotech

LEMMA BasketNumbers ==
    /\ IsFiniteSet(Companies) /\ Slots \in Nat /\ MaxPerIndustry \in Nat /\ MaxBiotech \in Nat
    /\ \A S \in SUBSET Companies : IsFiniteSet(S) /\ Cardinality(S) \in Nat
BY BasketAssumption, FS_Subset, FS_CardinalityType

LEMMA LessCrowded ==
    ASSUME NEW S \in SUBSET Companies, NEW T \in SUBSET S, Spread(S)
    PROVE  Spread(T)
<1>1. ASSUME NEW A \in SUBSET Companies, NEW B \in SUBSET A, NEW n \in Nat, Cardinality(A) <= n PROVE Cardinality(B) <= n
  <2>1. IsFiniteSet(A) /\ Cardinality(A) \in Nat /\ Cardinality(B) \in Nat
    BY <1>1, BasketNumbers
  <2>2. Cardinality(B) <= Cardinality(A)
    BY <2>1, FS_Subset
  <2>3. QED BY <1>1, <2>1, <2>2
<1>2. ASSUME NEW i \in {IndustryOf[c] : c \in Companies} \ {""} PROVE Cardinality({m \in T : IndustryOf[m] = i}) <= MaxPerIndustry
  <2> DEFINE A == {m \in S : IndustryOf[m] = i}
             B == {m \in T : IndustryOf[m] = i}
  <2>1. Cardinality(A) <= MaxPerIndustry /\ A \in SUBSET Companies /\ B \in SUBSET A
    BY DEF Spread
  <2> HIDE DEF A, B
  <2>2. Cardinality(B) <= MaxPerIndustry
    BY <1>1, <2>1, BasketNumbers
  <2>3. QED BY <2>2 DEF B
<1>3. Cardinality(T \cap Biotechs) <= MaxBiotech
  <2>1. Cardinality(S \cap Biotechs) <= MaxBiotech /\ S \cap Biotechs \in SUBSET Companies /\ T \cap Biotechs \in SUBSET (S \cap Biotechs)
    BY DEF Spread
  <2>2. QED BY <1>1, <2>1, BasketNumbers
<1>4. QED BY <1>2, <1>3 DEF Spread

(* A company that is not crowded out leaves the spread as it must be.          *)
LEMMA RoomForOneMore ==
    ASSUME NEW S \in SUBSET Companies, NEW c \in Companies, Spread(S), ~Crowded(c, S)
    PROVE  Spread(S \cup {c})
<1>1. ASSUME NEW A \in SUBSET Companies, NEW n \in Nat, ~(Cardinality(A) >= n) PROVE Cardinality(A \cup {c}) <= n
  <2>1. IsFiniteSet(A) /\ Cardinality(A) \in Nat
    BY <1>1, BasketNumbers
  <2>2. Cardinality(A \cup {c}) \in {Cardinality(A), Cardinality(A) + 1}
    BY <2>1, FS_AddElement
  <2>3. QED BY <1>1, <2>1, <2>2
<1>2. ASSUME NEW i \in {IndustryOf[d] : d \in Companies} \ {""} PROVE Cardinality({m \in S \cup {c} : IndustryOf[m] = i}) <= MaxPerIndustry
  <2> DEFINE A == {m \in S : IndustryOf[m] = i}
             B == {m \in S \cup {c} : IndustryOf[m] = i}
  <2>1. Cardinality(A) <= MaxPerIndustry /\ A \in SUBSET Companies
    BY DEF Spread
  <2>2. CASE IndustryOf[c] # i
    <3>1. B = A
      BY <2>2
    <3>2. QED BY <2>1, <3>1
  <2>3. CASE IndustryOf[c] = i
    <3>1. B = A \cup {c}
      BY <2>3
    <3>2. ~(Cardinality(A) >= MaxPerIndustry)
      BY <1>2, <2>3 DEF Crowded
    <3> HIDE DEF A, B
    <3>3. Cardinality(A \cup {c}) <= MaxPerIndustry
      BY <1>1, <2>1, <3>2, BasketNumbers
    <3>4. Cardinality(B) <= MaxPerIndustry
      BY <3>1, <3>3
    <3>5. QED BY <3>4 DEF B
  <2>4. QED BY <2>2, <2>3
<1>3. Cardinality((S \cup {c}) \cap Biotechs) <= MaxBiotech
  <2>1. CASE c \notin Biotechs
    <3>1. (S \cup {c}) \cap Biotechs = S \cap Biotechs
      BY <2>1
    <3>2. QED BY <3>1 DEF Spread
  <2>2. CASE c \in Biotechs
    <3>1. (S \cup {c}) \cap Biotechs = (S \cap Biotechs) \cup {c}
      BY <2>2
    <3>2. ~(Cardinality(S \cap Biotechs) >= MaxBiotech) /\ S \cap Biotechs \in SUBSET Companies
      BY <2>2 DEF Crowded
    <3>3. QED BY <1>1, <3>1, <3>2, BasketNumbers
  <2>3. QED BY <2>1, <2>2
<1>4. QED BY <1>2, <1>3 DEF Spread

\* The company fill_slots puts last.
Largest(S) == CHOOSE x \in S : \A y \in S : CapOf[y] <= CapOf[x]

LEMMA SomeLargest ==
    ASSUME NEW S \in SUBSET Companies, S # {}
    PROVE  Largest(S) \in S
<1> DEFINE Most(u, x) == x \in u /\ \A y \in u : CapOf[y] <= CapOf[x]
           F == {u \in SUBSET S : u # {} /\ ~\E x \in u : Most(u, x)}
<1>1. SUFFICES ASSUME F # {} PROVE FALSE
  BY DEF Largest
<1>2. IsFiniteSet(S) /\ F \in SUBSET SUBSET S
  BY BasketNumbers
<1>3. PICK u \in F : \A v \in SUBSET u : v # u => v \notin F
  <2> HIDE DEF F
  <2>1. QED BY <1>1, <1>2, NothingSmaller
<1>4. PICK x \in u : TRUE
  OBVIOUS
<1>5. \A y \in u : CapOf[y] \in Nat
  BY BasketAssumption
<1>6. u \ {x} \notin F
  <2>1. u \ {x} \in SUBSET u /\ u \ {x} # u
    BY <1>4
  <2> HIDE DEF F
  <2>2. QED BY ONLY <1>3, <2>1
<1>7. CASE u \ {x} = {}
  BY <1>4, <1>5, <1>7
<1>8. CASE u \ {x} # {}
  <2>1. PICK z \in u \ {x} : Most(u \ {x}, z)
    BY <1>6, <1>8
  <2>2. Most(u, z) \/ Most(u, x)
    BY <1>4, <1>5, <2>1
  <2>3. QED BY <1>4, <2>1, <2>2
<1>9. QED BY <1>7, <1>8

Filling(g, C, open, held) ==
    g = [S \in SUBSET C |->
            IF S = {} THEN {}
            ELSE LET c == CHOOSE x \in S : \A y \in S : CapOf[y] <= CapOf[x]
                     before == g[S \ {c}]
                 IN  IF Cardinality(before) >= open \/ Crowded(c, before \cup held) THEN before ELSE before \cup {c}]

LEMMA SlotsCanBeFilled ==
    ASSUME NEW C \in SUBSET Companies, NEW open, NEW held
    PROVE  \E g : Filling(g, C, open, held) /\ fill_slots(C, open, held) = g[C]
<1> DEFINE V == SUBSET C
           pick == [S \in SUBSET C |-> Largest(S)]
           Next1(S, b) == IF Cardinality(b) >= open \/ Crowded(Largest(S), b \cup held) THEN b ELSE b \cup {Largest(S)}
           step == [S \in SUBSET C |-> [b \in V |-> IF Largest(S) \in C THEN Next1(S, b) ELSE b]]
<1>1. \A S \in SUBSET C : S # {} => Largest(S) \in S /\ pick[S] = Largest(S)
  BY SomeLargest
<1>2. Takes(C, V, pick, {}, step)
  <2>1. ASSUME NEW S \in SUBSET C PROVE step[S] \in [V -> V]
    <3>1. step[S] = [b \in V |-> IF Largest(S) \in C THEN Next1(S, b) ELSE b]
      OBVIOUS
    <3>2. \A b \in V : (IF Largest(S) \in C THEN Next1(S, b) ELSE b) \in V
      OBVIOUS
    <3> HIDE DEF Next1, V, step
    <3>3. QED BY <3>1, <3>2
  <2>2. IsFiniteSet(C)
    BY BasketNumbers
  <2> HIDE DEF step, pick
  <2>3. QED BY <1>1, <2>1, <2>2 DEF Takes
<1>3. PICK g : TakenOut(g, C, V, pick, {}, step)
  <2> HIDE DEF step, pick, V
  <2>1. QED BY <1>2, CanBeTakenOut
<1>4. \A S \in SUBSET C : S # {} =>
          g[S] = (IF Cardinality(g[S \ {Largest(S)}]) >= open \/ Crowded(Largest(S), g[S \ {Largest(S)}] \cup held)
                  THEN g[S \ {Largest(S)}] ELSE g[S \ {Largest(S)}] \cup {Largest(S)})
  <2>1. SUFFICES ASSUME NEW S \in SUBSET C, S # {} PROVE g[S] = Next1(S, g[S \ {Largest(S)}])
    OBVIOUS
  <2>2. g[S] = step[S][g[S \ {Largest(S)}]]
    <3> HIDE DEF step, pick
    <3>1. QED BY <1>1, <1>3, <2>1 DEF TakenOut
  <2>3. Largest(S) \in C /\ g[S \ {Largest(S)}] \in V
    BY <1>1, <1>3, <2>1 DEF TakenOut
  <2> HIDE DEF Next1, V
  <2>4. QED BY <2>2, <2>3
<1>5. g \in [SUBSET C -> V] /\ ({} \in SUBSET C => g[{}] = {})
  BY <1>3 DEF TakenOut
<1> HIDE DEF V, pick, step
<1>6. Filling(g, C, open, held)
  <2>1. g = [S \in SUBSET C |-> g[S]]
    BY <1>5
  <2>2. \A S \in SUBSET C :
           g[S] = IF S = {} THEN {}
                  ELSE LET c == CHOOSE x \in S : \A y \in S : CapOf[y] <= CapOf[x]
                           before == g[S \ {c}]
                       IN  IF Cardinality(before) >= open \/ Crowded(c, before \cup held) THEN before ELSE before \cup {c}
    BY <1>4, <1>5 DEF Largest
  <2> DEFINE R(S) == IF S = {} THEN {}
                     ELSE LET c == CHOOSE x \in S : \A y \in S : CapOf[y] <= CapOf[x]
                              before == g[S \ {c}]
                          IN  IF Cardinality(before) >= open \/ Crowded(c, before \cup held) THEN before ELSE before \cup {c}
             f == [S \in SUBSET C |-> R(S)]
  <2>3. \A S \in SUBSET C : g[S] = f[S]
    BY <2>2
  <2>4. f = [S \in SUBSET C |-> f[S]]
    OBVIOUS
  <2> HIDE DEF R
  <2>5. g = f
    <3> HIDE DEF f
    <3>1. QED BY <2>1, <2>3, <2>4
  <2> USE DEF R
  <2>6. QED BY <2>5, Zenon DEF Filling
<1>7. fill_slots(C, open, held) = (CHOOSE f : Filling(f, C, open, held))[C]
  BY Zenon DEF fill_slots, Filling
<1>8. Filling(CHOOSE f : Filling(f, C, open, held), C, open, held)
  <2> HIDE DEF Filling
  <2>1. QED BY <1>6, Zenon
<1>9. QED BY <1>7, <1>8

(* The list is of candidates.                                                *)
LEMMA SlotsAreOfTheList ==
    ASSUME NEW C \in SUBSET Companies, NEW open, NEW held
    PROVE  fill_slots(C, open, held) \in SUBSET C
<1>1. PICK g : Filling(g, C, open, held) /\ fill_slots(C, open, held) = g[C]
  BY SlotsCanBeFilled
<1>2. \A S \in SUBSET C :
        g[S] = IF S = {} THEN {}
               ELSE IF Cardinality(g[S \ {Largest(S)}]) >= open \/ Crowded(Largest(S), g[S \ {Largest(S)}] \cup held)
               THEN g[S \ {Largest(S)}] ELSE g[S \ {Largest(S)}] \cup {Largest(S)}
  BY <1>1 DEF Filling, Largest
<1> DEFINE F == {S \in SUBSET C : g[S] \notin SUBSET C}
<1>3. SUFFICES ASSUME F # {} PROVE FALSE
  BY <1>1
<1>4. IsFiniteSet(C) /\ F \in SUBSET SUBSET C
  BY BasketNumbers
<1>5. PICK S \in F : \A v \in SUBSET S : v # S => v \notin F
  <2> HIDE DEF F
  <2>1. QED BY <1>3, <1>4, NothingSmaller
<1>6. S \in SUBSET C /\ g[S] \notin SUBSET C
  OBVIOUS
<1>7. S # {}
  BY <1>2, <1>6
<1>8. Largest(S) \in S
  BY <1>6, <1>7, SomeLargest
<1>9. g[S \ {Largest(S)}] \in SUBSET C
  <2>1. S \ {Largest(S)} \notin F
    BY <1>5, <1>8
  <2>2. QED BY <1>6, <2>1
<1> DEFINE c == Largest(S)
           b == g[S \ {c}]
<1>10. g[S] = IF Cardinality(b) >= open \/ Crowded(c, b \cup held) THEN b ELSE b \cup {c}
  BY <1>2, <1>6, <1>7
<1>11. c \in C /\ b \in SUBSET C
  BY <1>6, <1>8, <1>9
<1> HIDE DEF F, c, b
<1>12. QED BY <1>6, <1>10, <1>11

(* The list leaves the spread as it must be, with the members it counted.     *)
LEMMA SlotsKeepTheSpread ==
    ASSUME NEW C \in SUBSET Companies, NEW open, NEW held \in SUBSET Companies, Spread(held)
    PROVE  fill_slots(C, open, held) \in SUBSET C /\ Spread(fill_slots(C, open, held) \cup held)
<1>1. PICK g : Filling(g, C, open, held) /\ fill_slots(C, open, held) = g[C]
  BY SlotsCanBeFilled
<1>2. \A S \in SUBSET C :
        g[S] = IF S = {} THEN {}
               ELSE IF Cardinality(g[S \ {Largest(S)}]) >= open \/ Crowded(Largest(S), g[S \ {Largest(S)}] \cup held)
               THEN g[S \ {Largest(S)}] ELSE g[S \ {Largest(S)}] \cup {Largest(S)}
  BY <1>1 DEF Filling, Largest
<1> DEFINE F == {S \in SUBSET C : ~(g[S] \in SUBSET C /\ Spread(g[S] \cup held))}
<1>3. SUFFICES ASSUME F # {} PROVE FALSE
  BY <1>1
<1>4. IsFiniteSet(C) /\ F \in SUBSET SUBSET C
  BY BasketNumbers
<1>5. PICK S \in F : \A v \in SUBSET S : v # S => v \notin F
  <2> HIDE DEF F
  <2>1. QED BY <1>3, <1>4, NothingSmaller
<1>6. S \in SUBSET C /\ ~(g[S] \in SUBSET C /\ Spread(g[S] \cup held))
  OBVIOUS
<1>7. S # {}
  <2>1. ASSUME S = {} PROVE g[S] = {} /\ g[S] \cup held = held
    BY <1>2, <2>1
  <2>2. QED BY <1>6, <2>1
<1> DEFINE c == Largest(S)
           b == g[S \ {c}]
<1>8. c \in S
  BY <1>6, <1>7, SomeLargest
<1>9. b \in SUBSET C /\ Spread(b \cup held)
  <2>1. S \ {c} \notin F
    BY <1>5, <1>8
  <2>2. QED BY <1>6, <2>1
<1>10. g[S] = IF Cardinality(b) >= open \/ Crowded(c, b \cup held) THEN b ELSE b \cup {c}
  BY <1>2, <1>6, <1>7
<1> HIDE DEF F, c, b
<1>11. CASE Cardinality(b) >= open \/ Crowded(c, b \cup held)
  BY <1>6, <1>9, <1>10, <1>11
<1>12. CASE ~(Cardinality(b) >= open \/ Crowded(c, b \cup held))
  <2>1. g[S] = b \cup {c} /\ g[S] \cup held = (b \cup held) \cup {c}
    BY <1>10, <1>12
  <2>2. Spread((b \cup held) \cup {c})
    BY <1>6, <1>8, <1>9, <1>12, RoomForOneMore
  <2>3. QED BY <1>6, <1>8, <1>9, <2>1, <2>2
<1>13. QED BY <1>11, <1>12


-----------------------------------------------------------------------------
(* What splits make of a share between two days.                             *)
Prod(S) == MapThenFoldSet(Times, 1, RatioOf, AnyOf, S)
Producing(g, S) ==
    g = [s \in SUBSET S |-> IF s = {} THEN 1 ELSE LET x == AnyOf(s) IN Times(RatioOf(x), g[s \ {x}])]
Picks(S) == [s \in SUBSET S |-> AnyOf(s)]
Multiplies(S) == [s \in SUBSET S |-> [n \in Int |-> IF s = {} THEN n ELSE AnyOf(s).ratio * n]]

LEMMA ProdChosen == ASSUME NEW S, \E g : Producing(g, S) PROVE \E g : Producing(g, S) /\ Prod(S) = g[S]
BY DEF Prod, Producing, MapThenFoldSet

LEMMA AnyOfIt == ASSUME NEW s, s # {} PROVE AnyOf(s) \in s
BY DEF AnyOf

LEMMA SplitsMultiply ==
    ASSUME NEW S \in SUBSET Split, IsFiniteSet(S), NEW u \in SUBSET S
    PROVE  Takes(u, Int, Picks(S), 1, Multiplies(S))
<1>1. IsFiniteSet(u)
  BY FS_Subset
<1>2. ASSUME NEW s \in SUBSET u, s # {} PROVE Picks(S)[s] \in s /\ Multiplies(S)[s] \in [Int -> Int]
  <2>1. AnyOf(s) \in s /\ AnyOf(s).ratio \in Int
    BY <1>2, AnyOfIt DEF Split
  <2>2. Multiplies(S)[s] = [n \in Int |-> AnyOf(s).ratio * n]
    BY <1>2 DEF Multiplies
  <2>3. \A n \in Int : AnyOf(s).ratio * n \in Int
    BY <2>1
  <2>4. QED BY <1>2, <2>1, <2>2, <2>3 DEF Picks
<1>3. QED BY <1>1, <1>2 DEF Takes

LEMMA ProducingIsTakenOut ==
    ASSUME NEW S \in SUBSET Split, IsFiniteSet(S), NEW u \in SUBSET S, NEW g
    PROVE  Producing(g, u) <=> TakenOut(g, u, Int, Picks(S), 1, Multiplies(S))
<1>0. \A s \in SUBSET u : s # {} => /\ AnyOf(s) \in s /\ AnyOf(s).ratio \in Int /\ s \in SUBSET S /\ s \ {AnyOf(s)} \in SUBSET u
                                   /\ Picks(S)[s] = AnyOf(s)
                                   /\ Multiplies(S)[s] = [n \in Int |-> AnyOf(s).ratio * n]
  BY AnyOfIt DEF Split, Picks, Multiplies
<1>1. ASSUME Producing(g, u) PROVE TakenOut(g, u, Int, Picks(S), 1, Multiplies(S))
  <2>1. \A s \in SUBSET u : g[s] = IF s = {} THEN 1 ELSE AnyOf(s).ratio * g[s \ {AnyOf(s)}]
    BY <1>1 DEF Producing, Times, RatioOf
  <2>2. \A s \in SUBSET u : g[s] \in Int
    <3> DEFINE F == {s \in SUBSET u : g[s] \notin Int}
    <3>1. SUFFICES ASSUME F # {} PROVE FALSE
      OBVIOUS
    <3>2. IsFiniteSet(u) /\ F \in SUBSET SUBSET u
      BY FS_Subset
    <3>3. PICK s \in F : \A v \in SUBSET s : v # s => v \notin F
      <4> HIDE DEF F
      <4>1. QED BY <3>1, <3>2, NothingSmaller
    <3>4. s \in SUBSET u /\ g[s] \notin Int
      OBVIOUS
    <3> HIDE DEF F
    <3>4a. g[s] = IF s = {} THEN 1 ELSE AnyOf(s).ratio * g[s \ {AnyOf(s)}]
      BY <2>1, <3>4
    <3>4b. s # {}
      BY <3>4, <3>4a
    <3> USE DEF F
    <3>5. s \ {AnyOf(s)} \notin F
      BY <1>0, <3>3, <3>4, <3>4b
    <3>6. g[s \ {AnyOf(s)}] \in Int /\ AnyOf(s).ratio \in Int
      BY <1>0, <3>4, <3>4b, <3>5
    <3> DEFINE n == g[s \ {AnyOf(s)}]
               m == AnyOf(s).ratio
    <3>7. g[s] \in Int
      <4>1. g[s] = m * n /\ m \in Int /\ n \in Int
        BY <3>4a, <3>4b, <3>6
      <4> HIDE DEF m, n, F
      <4>2. QED BY <4>1
    <3>8. QED BY <3>4, <3>7
  <2>3. g \in [SUBSET u -> Int]
    <3>1. g = [s \in SUBSET u |-> g[s]]
      BY <1>1 DEF Producing
    <3>2. QED BY <2>2, <3>1
  <2>4. \A s \in SUBSET u : g[s] = IF s = {} THEN 1 ELSE Multiplies(S)[s][g[s \ {Picks(S)[s]}]]
    <3>1. SUFFICES ASSUME NEW s \in SUBSET u, s # {} PROVE g[s] = Multiplies(S)[s][g[s \ {Picks(S)[s]}]]
      <4>1. g[{}] = 1
        BY <2>1
      <4>2. QED BY <4>1
    <3> DEFINE x == AnyOf(s)
               n == g[s \ {x}]
    <3>2. Picks(S)[s] = x /\ Multiplies(S)[s] = [k \in Int |-> x.ratio * k] /\ s \ {x} \in SUBSET u
      BY <1>0, <3>1
    <3>3. n \in Int
      BY <2>2, <3>2
    <3>4. g[s] = x.ratio * n
      BY <2>1, <3>1
    <3> HIDE DEF x, n
    <3>5. Multiplies(S)[s][n] = x.ratio * n
      BY <3>2, <3>3
    <3>6. QED BY <3>2, <3>4, <3>5 DEF n
  <2>5. QED BY <2>3, <2>4 DEF TakenOut
<1>2. ASSUME TakenOut(g, u, Int, Picks(S), 1, Multiplies(S)) PROVE Producing(g, u)
  <2>1. g \in [SUBSET u -> Int] /\ g = [s \in SUBSET u |-> g[s]]
    BY <1>2 DEF TakenOut
  <2>2. \A s \in SUBSET u : g[s] = IF s = {} THEN 1 ELSE AnyOf(s).ratio * g[s \ {AnyOf(s)}]
    <3>1. {} \in SUBSET u => g[{}] = 1
      BY <1>2 DEF TakenOut
    <3>2. SUFFICES ASSUME NEW s \in SUBSET u, s # {} PROVE g[s] = AnyOf(s).ratio * g[s \ {AnyOf(s)}]
      BY <3>1
    <3> DEFINE x == AnyOf(s)
               n == g[s \ {x}]
    <3>3. Picks(S)[s] = x /\ Multiplies(S)[s] = [k \in Int |-> x.ratio * k] /\ s \ {x} \in SUBSET u
      BY <1>0, <3>2
    <3>4. n \in Int
      BY <2>1, <3>3
    <3>5. g[s] = Multiplies(S)[s][n]
      <4>1. g[s] = Multiplies(S)[s][g[s \ {Picks(S)[s]}]]
        BY <1>2, <3>2 DEF TakenOut
      <4>2. QED BY <3>3, <4>1
    <3> HIDE DEF n
    <3>6. Multiplies(S)[s][n] = x.ratio * n
      <4> HIDE DEF x
      <4>1. QED BY <3>3, <3>4
    <3>7. QED BY <3>5, <3>6 DEF n
  <2>3. QED BY <2>1, <2>2 DEF Producing, Times, RatioOf
<1>3. QED BY <1>1, <1>2

LEMMA ProdForm ==
    ASSUME NEW S \in SUBSET Split, IsFiniteSet(S), NEW u \in SUBSET S
    PROVE  \E g : TakenOut(g, u, Int, Picks(S), 1, Multiplies(S)) /\ Prod(u) = g[u]
<1>1. PICK h : TakenOut(h, u, Int, Picks(S), 1, Multiplies(S))
  BY SplitsMultiply, CanBeTakenOut
<1>2. \E g : Producing(g, u)
  BY <1>1, ProducingIsTakenOut
<1>3. PICK g : Producing(g, u) /\ Prod(u) = g[u]
  BY <1>2, ProdChosen
<1>4. QED BY <1>3, ProducingIsTakenOut

LEMMA ProdStep ==
    ASSUME NEW S \in SUBSET Split, IsFiniteSet(S)
    PROVE  /\ Prod(S) \in Int
           /\ Prod(S) = IF S = {} THEN 1 ELSE AnyOf(S).ratio * Prod(S \ {AnyOf(S)})
<1> DEFINE R == S \ {AnyOf(S)}
<1>1. S \in SUBSET S /\ R \in SUBSET S
  OBVIOUS
<1> HIDE DEF R
<1>2. PICK g : TakenOut(g, S, Int, Picks(S), 1, Multiplies(S)) /\ Prod(S) = g[S]
  BY <1>1, ProdForm
<1>3. PICK h : TakenOut(h, R, Int, Picks(S), 1, Multiplies(S)) /\ Prod(R) = h[R]
  BY <1>1, ProdForm
<1>4. g[R] = h[R]
  <2>1. Takes(S, Int, Picks(S), 1, Multiplies(S)) /\ R \in SUBSET (S \cap R)
    BY <1>1, SplitsMultiply
  <2>2. QED BY <1>1, <1>2, <1>3, <2>1, TakenOutAlike
<1>5. g[S] \in Int /\ g[S] = IF S = {} THEN 1 ELSE AnyOf(S).ratio * g[R]
  <2>1. g[S] \in Int /\ g[R] \in Int
    BY <1>1, <1>2 DEF TakenOut
  <2>2. g[S] = IF S = {} THEN 1 ELSE Multiplies(S)[S][g[R]]
    BY <1>1, <1>2 DEF TakenOut, Picks, R
  <2>3. QED BY <1>1, <2>1, <2>2 DEF Multiplies
<1>6. QED BY <1>2, <1>3, <1>4, <1>5 DEF R

LEMMA Reordered ==
    ASSUME NEW a \in Int, NEW b \in Int, NEW c \in Int
    PROVE  a * (b * c) = b * (a * c) /\ a * (b * c) = (a * b) * c /\ a * b = b * a /\ a * b \in Int
OBVIOUS

(* Any split may be taken out first.                                        *)
LEMMA ProdTakesOut ==
    ASSUME NEW S \in SUBSET Split, IsFiniteSet(S), NEW z \in S
    PROVE  Prod(S) = z.ratio * Prod(S \ {z})
<1> DEFINE F == {u \in SUBSET S : \E x \in u : Prod(u) # x.ratio * Prod(u \ {x})}
<1>1. SUFFICES ASSUME F # {} PROVE FALSE
  OBVIOUS
<1>2. PICK u \in F : IsFiniteSet(u) /\ \A v \in SUBSET u : v # u => v \notin F
  <2>1. F \in SUBSET SUBSET S
    OBVIOUS
  <2> HIDE DEF F
  <2>2. QED BY <1>1, <2>1, NothingSmaller
<1>3. u \in SUBSET S /\ u \in SUBSET Split
  OBVIOUS
<1>4. PICK x \in u : Prod(u) # x.ratio * Prod(u \ {x})
  OBVIOUS
<1> DEFINE c == AnyOf(u)
<1>5. c \in u /\ Prod(u) = c.ratio * Prod(u \ {c})
  BY <1>2, <1>3, <1>4, AnyOfIt, ProdStep
<1> HIDE DEF c
<1>6. c # x
  BY <1>4, <1>5
<1>7. ASSUME NEW y \in u, NEW w \in u, w # y PROVE Prod(u \ {y}) = w.ratio * Prod((u \ {y}) \ {w})
  <2>1. u \ {y} \notin F /\ w \in u \ {y} /\ u \ {y} \in SUBSET S
    BY <1>2, <1>3, <1>7
  <2>2. QED BY <2>1
<1> HIDE DEF F
<1> DEFINE r == Prod((u \ {c}) \ {x})
<1>8. Prod(u \ {c}) = x.ratio * r
  BY <1>5, <1>6, <1>7
<1>9. Prod(u \ {x}) = c.ratio * r
  <2>1. (u \ {c}) \ {x} = (u \ {x}) \ {c}
    OBVIOUS
  <2>2. QED BY <1>5, <1>6, <1>7, <2>1
<1>10. r \in Int
  <2>1. IsFiniteSet((u \ {c}) \ {x}) /\ (u \ {c}) \ {x} \in SUBSET Split
    BY <1>2, <1>3, FS_Subset
  <2>2. QED BY <2>1, ProdStep
<1>11. c.ratio \in Int /\ x.ratio \in Int
  BY <1>3, <1>5 DEF Split
<1> HIDE DEF r
<1>12. c.ratio * (x.ratio * r) = x.ratio * (c.ratio * r)
  BY <1>10, <1>11, Reordered
<1>13. QED BY <1>4, <1>5, <1>8, <1>9, <1>12

LEMMA ProdOfBoth ==
    ASSUME NEW A \in SUBSET Split, NEW B \in SUBSET Split, IsFiniteSet(A), IsFiniteSet(B), A \cap B = {}
    PROVE  Prod(A \cup B) = Prod(A) * Prod(B)
<1> DEFINE F == {u \in SUBSET A : Prod(u \cup B) # Prod(u) * Prod(B)}
<1>1. SUFFICES ASSUME F # {} PROVE FALSE
  OBVIOUS
<1>2. PICK u \in F : IsFiniteSet(u) /\ \A v \in SUBSET u : v # u => v \notin F
  <2>1. F \in SUBSET SUBSET A
    OBVIOUS
  <2> HIDE DEF F
  <2>2. QED BY <1>1, <2>1, NothingSmaller
<1>3. u \in SUBSET A /\ u \in SUBSET Split /\ Prod(u \cup B) # Prod(u) * Prod(B)
  OBVIOUS
<1>4. Prod(B) \in Int /\ Prod(u) \in Int
  BY <1>2, <1>3, ProdStep
<1>5. u # {}
  <2>1. ASSUME u = {} PROVE Prod(u) = 1 /\ u \cup B = B
    BY <1>2, <1>3, <2>1, ProdStep
  <2>2. 1 * Prod(B) = Prod(B)
    BY <1>4
  <2>3. QED BY <1>3, <2>1, <2>2
<1>6. PICK z \in u : TRUE
  BY <1>5
<1> DEFINE v == u \ {z}
<1>7. v \notin F
  BY <1>2, <1>6
<1>8. Prod(v \cup B) = Prod(v) * Prod(B)
  BY <1>3, <1>7
<1> HIDE DEF F
<1>9. Prod(u) = z.ratio * Prod(v)
  BY <1>2, <1>3, ProdTakesOut
<1>10. Prod(u \cup B) = z.ratio * Prod(v \cup B)
  <2>1. (u \cup B) \ {z} = v \cup B /\ IsFiniteSet(u \cup B) /\ u \cup B \in SUBSET Split
    BY <1>2, <1>3, <1>6, FS_Union
  <2>2. QED BY <2>1, ProdTakesOut
<1>11. z.ratio \in Int /\ Prod(v) \in Int
  <2>1. IsFiniteSet(v) /\ v \in SUBSET Split
    BY <1>2, <1>3, FS_Subset
  <2>2. QED BY <1>3, <2>1, ProdStep DEF Split
<1> HIDE DEF v
<1>12. z.ratio * (Prod(v) * Prod(B)) = (z.ratio * Prod(v)) * Prod(B)
  BY <1>4, <1>11, Reordered
<1>13. QED BY <1>3, <1>8, <1>9, <1>10, <1>12


-----------------------------------------------------------------------------
LEMMA BasketDays ==
    /\ TODAY \in Nat /\ YEAR \in Nat /\ YEAR > 0 /\ STALE_DAYS \in Nat /\ Filed \in Nat /\ Unknown \in Int
    /\ \A c \in Counts : c \in Nat /\ c <= TODAY
BY BasketAssumption, ReportAssumption

LEMMA SplitsForm ==
    ASSUME NEW r \in Reports, NEW a \in Int, NEW b \in Int
    PROVE  /\ {x \in r.splits : a < x.day /\ x.day <= b} \in SUBSET Split
           /\ IsFiniteSet({x \in r.splits : a < x.day /\ x.day <= b})
           /\ SplitsIn(r, a, b) = Prod({x \in r.splits : a < x.day /\ x.day <= b})
           /\ SplitsIn(r, a, b) \in Int
<1> DEFINE S == {x \in r.splits : a < x.day /\ x.day <= b}
<1>1. r.splits \in SUBSET Split /\ IsFiniteSet(r.splits)
  BY ReportAssumption DEF Report
<1>2. S \in SUBSET Split /\ IsFiniteSet(S)
  BY <1>1, FS_Subset
<1>3. SplitsIn(r, a, b) = Prod(S)
  BY DEF SplitsIn, Prod
<1> HIDE DEF S
<1>4. Prod(S) \in Int
  BY <1>2, ProdStep
<1>5. QED BY <1>2, <1>3, <1>4 DEF S

LEMMA SplitsAreWhole ==
    ASSUME NEW r \in Reports
    PROVE  \A a, b \in Int : SplitsIn(r, a, b) \in Int /\ SplitsIn(r, -1, b) \in Int
<1>1. -1 \in Int
  OBVIOUS
<1>2. QED BY <1>1, SplitsForm

(* Splits from one day to another are those up to a day between and since.     *)
LEMMA SplitsBetween ==
    ASSUME NEW r \in Reports, NEW a \in Int, NEW b \in Int, NEW c \in Int, a <= b, b <= c
    PROVE  SplitsIn(r, a, c) = SplitsIn(r, a, b) * SplitsIn(r, b, c)
<1> DEFINE A == {x \in r.splits : a < x.day /\ x.day <= b}
           B == {x \in r.splits : b < x.day /\ x.day <= c}
           C == {x \in r.splits : a < x.day /\ x.day <= c}
<1>1. r.splits \in SUBSET Split
  BY ReportAssumption DEF Report
<1>2. C = A \cup B /\ A \cap B = {}
  BY <1>1 DEF Split
<1>3. /\ A \in SUBSET Split /\ IsFiniteSet(A) /\ SplitsIn(r, a, b) = Prod(A)
      /\ B \in SUBSET Split /\ IsFiniteSet(B) /\ SplitsIn(r, b, c) = Prod(B)
      /\ SplitsIn(r, a, c) = Prod(C)
  BY SplitsForm
<1> HIDE DEF A, B, C
<1>4. QED BY <1>2, <1>3, ProdOfBoth

(* Shares as of a day are those of the last count known, through the splits     *)
(* since the count.                                                        *)
LEMMA LastCount ==
    ASSUME NEW r \in Reports, NEW then \in Int
    PROVE  \/ SharesAt(r, then) = Unknown
           \/ \E c \in Counts :
                 /\ c + Filed <= then /\ then - (c + Filed) <= STALE_DAYS
                 /\ \A d \in Counts : d + Filed <= then => d <= c
                 /\ SharesAt(r, then) = AsCounted(r, c) * SplitsIn(r, c, then)
<1> DEFINE known == {c \in Counts : c + Filed <= then}
           count == Max(known)
<1>1. SUFFICES ASSUME known # {}, ~(then - (count + Filed) > STALE_DAYS)
               PROVE  \E c \in Counts :
                         /\ c + Filed <= then /\ then - (c + Filed) <= STALE_DAYS
                         /\ \A d \in Counts : d + Filed <= then => d <= c
                         /\ SharesAt(r, then) = AsCounted(r, c) * SplitsIn(r, c, then)
  BY DEF SharesAt
<1>2. SharesAt(r, then) = AsCounted(r, count) * SplitsIn(r, count, then)
  BY <1>1 DEF SharesAt
<1>3. count \in known /\ \A d \in known : d <= count
  <2> DEFINE Before == {TODAY - c : c \in known}
  <2>1. Before \in SUBSET Nat /\ Before # {}
    BY <1>1, BasketDays
  <2>2. PICK n \in Before : \A m \in Before : n <= m
    BY <2>1, LeastNumber
  <2>3. PICK x \in known : n = TODAY - x
    BY <2>2
  <2>4. \A d \in known : x >= d
    <3>1. SUFFICES ASSUME NEW d \in known PROVE x >= d
      OBVIOUS
    <3>2. TODAY - x <= TODAY - d
      BY <2>2, <2>3
    <3>3. x \in Nat /\ d \in Nat
      BY BasketDays
    <3>4. QED BY <3>2, <3>3, BasketDays
  <2>5. count \in known /\ \A d \in known : count >= d
    <3>1. count = CHOOSE y \in known : \A d \in known : y >= d
      BY DEF Max
    <3> HIDE DEF known, count
    <3>2. QED BY <2>4, <3>1
  <2>6. \A d \in known : count \in Nat /\ d \in Nat
    BY <2>5, BasketDays
  <2> HIDE DEF known, count
  <2>7. QED BY <2>5, <2>6
<1>4. count \in Counts /\ count + Filed <= then /\ then - (count + Filed) <= STALE_DAYS
  <2>1. count \in Counts /\ count + Filed <= then
    BY <1>3
  <2> HIDE DEF count
  <2>2. QED BY <1>1, <2>1, BasketDays
<1>5. \A d \in Counts : d + Filed <= then => d <= count
  BY <1>3
<1> HIDE DEF count
<1>6. QED BY <1>2, <1>4, <1>5

\* What a company's shares have been split into by today, and what it had issued by half-years.
Whole(r) == SplitsIn(r, -1, TODAY)
Issued(r, k) == IF k = 0 THEN (100 + r.before) * (100 + r.last) ELSE IF k = 1 THEN (100 + r.before) * 100 ELSE 10000

LEMMA IssuedForm ==
    ASSUME NEW r \in Reports, NEW k \in 0..2
    PROVE  Issued(r, k) \in Int /\ Whole(r) \in Int
<1>1. r.before \in Int /\ r.last \in Int
  BY ReportAssumption DEF Report
<1>2. (100 + r.before) * (100 + r.last) \in Int /\ (100 + r.before) * 100 \in Int
  BY <1>1
<1>3. Whole(r) \in Int
  BY BasketDays, SplitsAreWhole DEF Whole
<1>4. QED BY <1>2, <1>3 DEF Issued

(* The shares of today, of a year and of two years ago, in today's.            *)
LEMMA SharesInTodays ==
    ASSUME NEW r \in Reports, NEW k \in 0..2, SharesAt(r, TODAY - k * YEAR) # Unknown
    PROVE  SharesAt(r, TODAY - k * YEAR) * SplitsIn(r, TODAY - k * YEAR, TODAY) = Issued(r, k) * Whole(r)
<1> DEFINE then == TODAY - k * YEAR
<1>1. then \in Int /\ then <= TODAY
  BY BasketDays
<1>2. PICK c \in Counts :
         /\ c + Filed <= then /\ then - (c + Filed) <= STALE_DAYS
         /\ \A d \in Counts : d + Filed <= then => d <= c
         /\ SharesAt(r, then) = AsCounted(r, c) * SplitsIn(r, c, then)
  <2> HIDE DEF then
  <2>1. SharesAt(r, then) # Unknown
    BY DEF then
  <2>2. QED BY <1>1, <2>1, LastCount
<1>3. c \in Nat /\ c <= then /\ Filed \in Nat
  BY <1>1, <1>2, BasketDays
<1>4. c >= then - YEAR \div 2
  <2>1. PICK d \in Counts : d + Filed <= then /\ d >= then - YEAR \div 2
    BY <1>2, CountsAreTimely
  <2>2. d <= c /\ d \in Nat
    BY <1>2, <2>1, BasketDays
  <2>3. YEAR \div 2 \in Int
    BY BasketDays
  <2>4. QED BY <1>1, <1>3, <2>1, <2>2, <2>3
<1>5. Outstanding(r, c) = Issued(r, k)
  <2>1. YEAR \div 2 \in Int /\ YEAR \div 2 < YEAR /\ YEAR \in Int /\ TODAY \in Int
    BY BasketDays
  <2>2. CASE k = 0
    <3>1. c >= TODAY - YEAR \div 2
      BY <1>4, <2>1, <2>2
    <3>2. QED BY <2>2, <3>1 DEF Outstanding, Issued
  <2>3. CASE k = 1
    <3>1. ~(c >= TODAY - YEAR \div 2) /\ c >= TODAY - YEAR - YEAR \div 2
      BY <1>3, <1>4, <2>1, <2>3
    <3>2. QED BY <2>3, <3>1 DEF Outstanding, Issued
  <2>4. CASE k = 2
    <3>1. ~(c >= TODAY - YEAR \div 2) /\ ~(c >= TODAY - YEAR - YEAR \div 2)
      BY <1>3, <1>4, <2>1, <2>4
    <3>2. QED BY <2>4, <3>1 DEF Outstanding, Issued
  <2>5. QED BY <2>2, <2>3, <2>4
<1> DEFINE a == SplitsIn(r, -1, c)
           b == SplitsIn(r, c, then)
           e == SplitsIn(r, then, TODAY)
           i == Issued(r, k)
<1>6. a \in Int /\ b \in Int /\ e \in Int /\ i \in Int
  <2>1. i \in Int
    BY IssuedForm
  <2>2. c \in Int /\ TODAY \in Int
    BY <1>3, BasketDays
  <2>3. QED BY <1>1, <2>1, <2>2, SplitsAreWhole
<1>7. SplitsIn(r, -1, then) = a * b
  <2>1. -1 <= c /\ -1 \in Int
    BY <1>3
  <2>2. QED BY <1>1, <1>3, <2>1, SplitsBetween
<1>8. Whole(r) = SplitsIn(r, -1, then) * e
  <2>1. -1 <= then /\ -1 \in Int /\ TODAY \in Int
    BY <1>1, <1>3, BasketDays
  <2>2. QED BY <1>1, <2>1, SplitsBetween DEF Whole
<1>9. SharesAt(r, then) = (i * a) * b
  BY <1>2, <1>5 DEF AsCounted
<1> HIDE DEF a, b, e, i
<1>10. ((i * a) * b) * e = i * ((a * b) * e)
  <2>1. (i * a) * b = i * (a * b) /\ a * b \in Int
    BY <1>6, Reordered
  <2>2. QED BY <1>6, <2>1, Reordered
<1>11. SharesAt(r, then) * e = i * Whole(r)
  BY <1>7, <1>8, <1>9, <1>10
<1>12. QED BY <1>11 DEF e, i

(* What the screen and the check see of a company.                           *)
LEMMA SnapshotForm ==
    ASSUME NEW r \in Reports
    PROVE  LET s == snapshot(r) IN
           /\ s \in Report
           /\ s.shares \in {Unknown, Issued(r, 0) * Whole(r)} /\ s.shares1 \in {Unknown, Issued(r, 1) * Whole(r)}
           /\ s.shares2 \in {Unknown, Issued(r, 2) * Whole(r)}
           /\ \A k \in {"revenue", "revenue1", "revenue2", "margin", "gross", "gross1", "flow", "cash", "last", "before"} : s[k] = r[k]
<1> DEFINE s == snapshot(r)
           s0 == SharesAt(r, TODAY)
           s1 == _in_todays_shares(r, TODAY - YEAR)
           s2 == _in_todays_shares(r, TODAY - 2 * YEAR)
<1>1. r \in Report
  BY ReportAssumption
<1>2. s0 \in {Unknown, Issued(r, 0) * Whole(r)}
  <2>1. SUFFICES ASSUME s0 # Unknown PROVE s0 = Issued(r, 0) * Whole(r)
    OBVIOUS
  <2>2. TODAY - 0 * YEAR = TODAY /\ TODAY \in Int
    BY BasketDays
  <2>3. s0 * SplitsIn(r, TODAY, TODAY) = Issued(r, 0) * Whole(r)
    <3>1. 0 \in 0..2
      OBVIOUS
    <3>2. SharesAt(r, TODAY - 0 * YEAR) * SplitsIn(r, TODAY - 0 * YEAR, TODAY) = Issued(r, 0) * Whole(r)
      BY <2>1, <2>2, <3>1, SharesInTodays
    <3>3. QED BY <2>2, <3>2
  <2>4. SplitsIn(r, TODAY, TODAY) = 1
    <3>1. r.splits \in SUBSET Split
      BY <1>1 DEF Report
    <3>2. {x \in r.splits : TODAY < x.day /\ x.day <= TODAY} = {}
      BY <2>2, <3>1 DEF Split
    <3>3. SplitsIn(r, TODAY, TODAY) = Prod({})
      BY <2>2, <3>2, SplitsForm
    <3>4. Prod({}) = 1
      <4>1. {} \in SUBSET Split /\ IsFiniteSet({})
        BY FS_EmptySet
      <4>2. QED BY <4>1, ProdStep
    <3>5. QED BY <3>3, <3>4
  <2>5. s0 \in Int
    <3>1. PICK c \in Counts : s0 = AsCounted(r, c) * SplitsIn(r, c, TODAY)
      BY <2>1, <2>2, LastCount
    <3>2. c \in Int
      BY BasketDays
    <3>3. Outstanding(r, c) \in Int
      <4>1. r.before \in Int /\ r.last \in Int
        BY <1>1 DEF Report
      <4>2. (100 + r.before) * (100 + r.last) \in Int /\ (100 + r.before) * 100 \in Int
        BY <4>1
      <4>3. QED BY <4>2 DEF Outstanding
    <3>4. SplitsIn(r, -1, c) \in Int /\ SplitsIn(r, c, TODAY) \in Int
      BY <2>2, <3>2, SplitsAreWhole
    <3>5. AsCounted(r, c) \in Int
      BY <3>3, <3>4, Reordered DEF AsCounted
    <3>6. QED BY <3>1, <3>4, <3>5, Reordered
  <2> HIDE DEF s0
  <2>6. s0 * 1 = s0
    BY <2>5
  <2>7. QED BY <2>3, <2>4, <2>6
<1>3. s1 \in {Unknown, Issued(r, 1) * Whole(r)}
  <2>1. TODAY - 1 * YEAR = TODAY - YEAR /\ 1 \in 0..2
    BY BasketDays
  <2>2. SharesAt(r, TODAY - YEAR) # Unknown => SharesAt(r, TODAY - YEAR) * SplitsIn(r, TODAY - YEAR, TODAY) = Issued(r, 1) * Whole(r)
    BY <2>1, SharesInTodays
  <2>3. QED BY <2>2 DEF _in_todays_shares
<1>4. s2 \in {Unknown, Issued(r, 2) * Whole(r)}
  <2>1. 2 \in 0..2
    OBVIOUS
  <2>2. SharesAt(r, TODAY - 2 * YEAR) # Unknown => SharesAt(r, TODAY - 2 * YEAR) * SplitsIn(r, TODAY - 2 * YEAR, TODAY) = Issued(r, 2) * Whole(r)
    BY <2>1, SharesInTodays
  <2>3. QED BY <2>2 DEF _in_todays_shares
<1>5. s0 \in Int /\ s1 \in Int /\ s2 \in Int
  <2>1. \A k \in 0..2 : Issued(r, k) * Whole(r) \in Int
    BY IssuedForm, Reordered
  <2> HIDE DEF s0, s1, s2
  <2>2. QED BY <1>2, <1>3, <1>4, <2>1, BasketDays
<1>6. s = [r EXCEPT !.shares = s0, !.shares1 = s1, !.shares2 = s2]
  BY DEF snapshot
<1> HIDE DEF s0, s1, s2
<1>7. /\ s \in Report /\ s.shares = s0 /\ s.shares1 = s1 /\ s.shares2 = s2
      /\ \A k \in {"revenue", "revenue1", "revenue2", "margin", "gross", "gross1", "flow", "cash", "last", "before"} : s[k] = r[k]
  <2> HIDE DEF s
  <2>1. QED BY <1>1, <1>5, <1>6 DEF Report
<1> HIDE DEF s
<1>8. QED BY <1>2, <1>3, <1>4, <1>7 DEF s

(* For every report, what was issued is what the counts grow by.               *)
LEMMA OnlyIssuesGrow ==
    ASSUME NEW r \in Reports
    PROVE  LET s == snapshot(r) IN
           /\ Told(s.shares) /\ Told(s.shares1) => 100 * (s.shares - s.shares1) = r.last * s.shares1
           /\ Told(s.shares1) /\ Told(s.shares2) => 100 * (s.shares1 - s.shares2) = r.before * s.shares2
<1> DEFINE s == snapshot(r)
           w == Whole(r)
           p == r.before
           q == r.last
<1>1. p \in Int /\ q \in Int /\ w \in Int
  BY ReportAssumption, IssuedForm DEF Report
<1>2. /\ Told(s.shares) => s.shares = ((100 + p) * (100 + q)) * w
      /\ Told(s.shares1) => s.shares1 = ((100 + p) * 100) * w
      /\ Told(s.shares2) => s.shares2 = 10000 * w
  BY SnapshotForm DEF Told, Issued
<1> HIDE DEF p, q, w
<1>3. ((100 + p) * 100) * w \in Int
  BY <1>1
<1>4. 100 * (((100 + p) * (100 + q)) * w - ((100 + p) * 100) * w) = q * (((100 + p) * 100) * w)
  BY <1>1
<1>5. 100 * (((100 + p) * 100) * w - 10000 * w) = p * (10000 * w)
  BY <1>1
<1> HIDE DEF s
<1>6. /\ Told(s.shares) /\ Told(s.shares1) => 100 * (s.shares - s.shares1) = q * s.shares1
      /\ Told(s.shares1) /\ Told(s.shares2) => 100 * (s.shares1 - s.shares2) = p * s.shares2
  BY <1>2, <1>4, <1>5
<1>7. QED BY <1>6 DEF s, p, q

(* A company that passes the screen breaks no rule for selling on the same       *)
(* figures.                                                                *)
Passes(r) == r.facts /\ entry_reasons(snapshot(r)) = {}

LEMMA PassingIsNoBreak ==
    ASSUME NEW r \in Reports, Passes(r)
    PROVE  thesis_breaks(r) \subseteq {"going concern"}
<1> DEFINE s == snapshot(r)
<1>1. s \in Report /\ Unknown \in Int
  BY SnapshotForm, BasketDays
<1>2. entry_reasons(s) = {}
  BY DEF Passes
<1> HIDE DEF s
<1>3. /\ s.revenue1 > 0 /\ 100 * (s.revenue - s.revenue1) >= 25 * s.revenue1
      /\ GrowsAtMost(s.shares, s.shares1, 10)
      /\ HasCashFor(s, 2)
  <2> DEFINE rules == [growth |-> Told(s.revenue1) /\ s.revenue1 > 0 /\ 100 * (s.revenue - s.revenue1) >= 25 * s.revenue1,
                  margin |-> Told(s.margin) /\ s.margin \in -20..5,
                  gross |-> (Told(s.gross) /\ s.gross >= 40) \/ (Told(s.gross) /\ Told(s.gross1) /\ s.gross - s.gross1 > 1),
                  dilution |-> GrowsAtMost(s.shares, s.shares1, 10),
                  runway |-> HasCashFor(s, 2)]
  <2>1. {k \in DOMAIN rules : ~rules[k]} = {}
    BY <1>2 DEF entry_reasons
  <2>2. "growth" \in DOMAIN rules /\ "dilution" \in DOMAIN rules /\ "runway" \in DOMAIN rules
    OBVIOUS
  <2>3. rules["growth"] /\ rules["dilution"] /\ rules["runway"]
    <3> HIDE DEF rules
    <3>1. QED BY <2>1, <2>2
  <2>4. QED BY <2>3
<1>4. s.flow \in Int /\ s.cash \in Int /\ s.shares \in Int /\ s.shares1 \in Int /\ s.revenue \in Int /\ s.revenue1 \in Int
  BY <1>1 DEF Report
<1>5. ~RunsOutIn(s, 1)
  BY <1>3, <1>4 DEF RunsOutIn, HasCashFor
<1>6. ~GrowsMore(s.shares, s.shares1, 15)
  BY <1>3, <1>4 DEF GrowsMore, GrowsAtMost
<1>7. ~(s.revenue < s.revenue1)
  BY <1>3, <1>4
<1> DEFINE broken == [cash |-> RunsOutIn(s, 1),
                   shares |-> GrowsMore(s.shares, s.shares1, 15) /\ GrowsMore(s.shares1, s.shares2, 15),
                   revenue |-> Told(s.revenue) /\ Told(s.revenue1) /\ Told(s.revenue2) /\ s.revenue < s.revenue1 /\ s.revenue1 < s.revenue2]
<1>8. {k \in DOMAIN broken : broken[k]} = {}
  <2>1. DOMAIN broken = {"cash", "shares", "revenue"}
    OBVIOUS
  <2>2. ~broken["cash"] /\ ~broken["shares"] /\ ~broken["revenue"]
    BY <1>5, <1>6, <1>7
  <2> HIDE DEF broken
  <2>3. QED BY <2>1, <2>2
<1>9. thesis_breaks(r) = (IF r.doubt THEN {"going concern"} ELSE {}) \cup (IF r.facts THEN {k \in DOMAIN broken : broken[k]} ELSE {})
  BY DEF thesis_breaks, s
<1> HIDE DEF broken
<1>10. QED BY <1>8, <1>9

-----------------------------------------------------------------------------
BasketInv ==
    /\ filing \in [Companies -> Reports]
    /\ members \in SUBSET Companies /\ proposed \in SUBSET Companies /\ bought \in SUBSET members
    /\ Cardinality(members) <= Slots
    /\ ~askew => Spread(members \cup proposed)
    /\ \A c \in proposed \cup bought : Passes(filing[c])

LEMMA BasketStarts == ASSUME BasketInit PROVE BasketInv
<1>1. members \cup proposed = {} /\ Cardinality({}) = 0
  BY FS_EmptySet DEF BasketInit
<1>2. Spread({})
  <2>1. ASSUME NEW i PROVE Cardinality({m \in {} : IndustryOf[m] = i}) <= MaxPerIndustry
    <3>1. {m \in {} : IndustryOf[m] = i} = {}
      OBVIOUS
    <3>2. Cardinality({m \in {} : IndustryOf[m] = i}) = 0
      BY <1>1, <3>1
    <3>3. QED BY <3>2, BasketNumbers
  <2>2. Cardinality({} \cap Biotechs) <= MaxBiotech
    <3>1. {} \cap Biotechs = {}
      OBVIOUS
    <3>2. Cardinality({} \cap Biotechs) = 0
      BY <1>1, <3>1
    <3>3. QED BY <3>2, BasketNumbers
  <2>3. QED BY <2>1, <2>2 DEF Spread
<1>3. Cardinality(members) <= Slots
  BY <1>1, BasketNumbers DEF BasketInit
<1>4. QED BY <1>1, <1>2, <1>3 DEF BasketInit, BasketInv

LEMMA InvScreen == ASSUME BasketInv, screen PROVE BasketInv'
<1> DEFINE passed == {c \in Companies \ members : filing[c].facts /\ entry_reasons(snapshot(filing[c])) = {}}
           seen == {m \in members : filing[m].facts}
           open == IF Cardinality(members) < Slots THEN Slots - Cardinality(members) ELSE 0
<1>1. /\ proposed' = fill_slots(passed, open, seen) /\ askew' = (askew \/ seen # members)
      /\ UNCHANGED <<filing, members, bought, news>>
  BY DEF screen
<1>2. passed \in SUBSET Companies /\ seen \in SUBSET members /\ members \in SUBSET Companies /\ \A c \in passed : Passes(filing[c])
  BY DEF BasketInv, Passes
<1> HIDE DEF passed, seen, open
<1>3. proposed' \in SUBSET passed
  <2>1. Spread(seen) \/ ~Spread(seen)
    OBVIOUS
  <2>2. QED BY <1>1, <1>2, SlotsAreOfTheList
<1>4. ~askew' => Spread(members' \cup proposed')
  <2>1. SUFFICES ASSUME ~askew' PROVE Spread(members' \cup proposed')
    OBVIOUS
  <2>2. ~askew /\ seen = members
    BY <1>1, <2>1
  <2>3. Spread(members)
    <3>1. members \cup proposed \in SUBSET Companies /\ Spread(members \cup proposed)
      BY <2>2 DEF BasketInv
    <3>2. QED BY <3>1, LessCrowded
  <2>4. Spread(fill_slots(passed, open, members) \cup members)
    BY <1>2, <2>3, SlotsKeepTheSpread
  <2>5. members' \cup proposed' = fill_slots(passed, open, members) \cup members
    BY <1>1, <2>2
  <2>6. QED BY <2>4, <2>5
<1>5. \A c \in proposed' \cup bought' : Passes(filing[c])' 
  <2>1. \A c \in proposed' \cup bought : Passes(filing[c])
    BY <1>2, <1>3 DEF BasketInv
  <2>2. QED BY <1>1, <2>1 DEF Passes
<1>6. QED BY <1>1, <1>2, <1>3, <1>4, <1>5 DEF BasketInv, Spread


LEMMA InvAddMember == ASSUME BasketInv, NEW c \in Companies, add_member(c) PROVE BasketInv'
<1>1. /\ c \in members \/ Cardinality(members) < Slots
      /\ members' = members \cup {c} /\ proposed' = proposed \ {c}
      /\ bought' = IF c \in proposed THEN bought \cup {c} ELSE bought
      /\ askew' = (askew \/ (c \notin proposed /\ c \notin members)) /\ filing' = filing
  BY DEF add_member
<1>2. Cardinality(members') <= Slots
  <2>1. IsFiniteSet(members) /\ Cardinality(members) \in Nat /\ Slots \in Nat
    BY FS_Subset, FS_CardinalityType, BasketAssumption DEF BasketInv
  <2>2. CASE c \in members
    BY <1>1, <2>2 DEF BasketInv
  <2>3. CASE c \notin members
    <3>1. Cardinality(members \cup {c}) = Cardinality(members) + 1
      BY <2>1, <2>3, FS_AddElement
    <3>2. QED BY <1>1, <2>1, <2>3, <3>1
  <2>4. QED BY <2>2, <2>3
<1>3. ~askew' => Spread(members' \cup proposed')
  <2>1. SUFFICES ASSUME ~askew' PROVE Spread(members' \cup proposed')
    OBVIOUS
  <2>2. ~askew /\ (c \in proposed \/ c \in members)
    BY <1>1, <2>1
  <2>3. members' \cup proposed' = members \cup proposed
    BY <1>1, <2>2
  <2>4. QED BY <2>2, <2>3 DEF BasketInv
<1>4. \A x \in proposed' \cup bought' : Passes(filing[x])'
  <2>1. proposed' \cup bought' \subseteq proposed \cup bought
    BY <1>1
  <2>2. \A x \in proposed' \cup bought' : Passes(filing[x])
    BY <2>1 DEF BasketInv
  <2>3. QED BY <1>1, <2>2 DEF Passes
<1>5. members' \in SUBSET Companies /\ proposed' \in SUBSET Companies /\ bought' \in SUBSET members'
  BY <1>1 DEF BasketInv
<1>6. filing' \in [Companies -> Reports]
  BY <1>1 DEF BasketInv
<1>7. QED BY <1>2, <1>3, <1>4, <1>5, <1>6 DEF BasketInv, Spread

LEMMA InvRemoveMember == ASSUME BasketInv, NEW c \in Companies, remove_member(c) PROVE BasketInv'
<1>1. /\ members' = members \ {c} /\ bought' = bought \ {c}
      /\ proposed' = proposed /\ askew' = askew /\ filing' = filing
  BY DEF remove_member
<1>2. members' \in SUBSET Companies /\ proposed' \in SUBSET Companies /\ bought' \in SUBSET members'
  BY <1>1 DEF BasketInv
<1>3. Cardinality(members') <= Slots
  <2>1. IsFiniteSet(members) /\ members' \subseteq members
    BY <1>1, FS_Subset, BasketAssumption DEF BasketInv
  <2>2. Cardinality(members') \in Nat /\ Cardinality(members) \in Nat /\ Cardinality(members') <= Cardinality(members)
    BY <2>1, FS_Subset, FS_CardinalityType
  <2>3. QED BY <2>2, BasketAssumption DEF BasketInv
<1>4. ~askew' => Spread(members' \cup proposed')
  <2>1. SUFFICES ASSUME ~askew' PROVE Spread(members' \cup proposed')
    OBVIOUS
  <2>2. members \cup proposed \in SUBSET Companies /\ Spread(members \cup proposed) /\ members' \cup proposed' \in SUBSET (members \cup proposed)
    BY <1>1, <2>1 DEF BasketInv
  <2>3. QED BY <2>2, LessCrowded
<1>5. \A x \in proposed' \cup bought' : Passes(filing[x])'
  <2>1. \A x \in proposed' \cup bought' : Passes(filing[x])
    BY <1>1 DEF BasketInv
  <2>2. QED BY <1>1, <2>1 DEF Passes
<1>6. filing' \in [Companies -> Reports]
  BY <1>1 DEF BasketInv
<1>7. QED BY <1>2, <1>3, <1>4, <1>5, <1>6 DEF BasketInv, Spread

LEMMA InvNews == ASSUME BasketInv, NEW c \in Companies, News(c) PROVE BasketInv'
<1>1. PICK r \in Reports : filing' = [filing EXCEPT ![c] = r]
  BY DEF News
<1>2. proposed' = {} /\ bought' = bought \ {c} /\ members' = members /\ askew' = askew
  BY DEF News
<1>3. filing' \in [Companies -> Reports] /\ \A x \in Companies : x # c => filing'[x] = filing[x]
  BY <1>1 DEF BasketInv
<1>4. members' \in SUBSET Companies /\ proposed' \in SUBSET Companies /\ bought' \in SUBSET members' /\ bought' \in SUBSET Companies
  BY <1>2 DEF BasketInv
<1>5. Cardinality(members') <= Slots
  BY <1>2 DEF BasketInv
<1>6. ~askew' => Spread(members' \cup proposed')
  <2>1. SUFFICES ASSUME ~askew' PROVE Spread(members' \cup proposed')
    OBVIOUS
  <2>2. members \cup proposed \in SUBSET Companies /\ Spread(members \cup proposed) /\ members' \cup proposed' \in SUBSET (members \cup proposed)
    BY <1>2, <2>1 DEF BasketInv
  <2>3. QED BY <2>2, LessCrowded
<1>7. \A x \in proposed' \cup bought' : Passes(filing[x])'
  <2>1. SUFFICES ASSUME NEW x \in bought' PROVE Passes(filing[x])'
    BY <1>2
  <2>2. x \in bought /\ x # c /\ x \in Companies
    BY <1>2, <1>4
  <2>3. filing'[x] = filing[x] /\ Passes(filing[x])
    BY <1>3, <2>2 DEF BasketInv
  <2>4. QED BY <2>3 DEF Passes
<1>8. QED BY <1>3, <1>4, <1>5, <1>6, <1>7 DEF BasketInv, Spread

LEMMA BasketStep == ASSUME BasketInv, [BasketNext]_basketVars PROVE BasketInv'
<1>1. CASE screen
  BY <1>1, InvScreen
<1>2. ASSUME NEW c \in Companies, add_member(c) PROVE BasketInv'
  BY <1>2, InvAddMember
<1>3. ASSUME NEW c \in Companies, remove_member(c) PROVE BasketInv'
  BY <1>3, InvRemoveMember
<1>4. ASSUME NEW c \in Companies, News(c) PROVE BasketInv'
  BY <1>4, InvNews
<1>5. CASE UNCHANGED basketVars
  <2>1. filing' = filing /\ members' = members /\ proposed' = proposed /\ bought' = bought /\ askew' = askew
    BY <1>5 DEF basketVars
  <2>2. QED BY <2>1 DEF BasketInv, Spread, Passes
<1>6. QED BY <1>1, <1>2, <1>3, <1>4, <1>5 DEF BasketNext

LEMMA BasketHolds == ASSUME BasketInv PROVE BasketIsSound
<1>1. SpreadIsKept
  <2>1. SUFFICES ASSUME ~askew
                 PROVE  /\ \A i \in {IndustryOf[c] : c \in Companies} \ {""} : Cardinality({m \in members : IndustryOf[m] = i}) <= MaxPerIndustry
                        /\ Cardinality(members \cap Biotechs) <= MaxBiotech
    BY DEF SpreadIsKept, BasketInv
  <2>2. members \cup proposed \in SUBSET Companies /\ Spread(members \cup proposed) /\ members \in SUBSET (members \cup proposed)
    BY <2>1 DEF BasketInv
  <2>3. Spread(members)
    BY <2>2, LessCrowded
  <2>4. QED BY <2>3 DEF Spread
<1>2. NoBuyIsABreak
  <2>1. \A c \in proposed \cup bought : filing[c] \in Reports /\ Passes(filing[c])
    BY DEF BasketInv
  <2>2. \A c \in proposed \cup bought : thesis_breaks(filing[c]) \subseteq {"going concern"}
    BY <2>1, PassingIsNoBreak
  <2>3. \A m \in bought : member_breaks[m] = thesis_breaks(filing[m])
    BY DEF BasketInv, member_breaks
  <2>4. QED BY <2>2, <2>3 DEF NoBuyIsABreak
<1>3. SplitsAreNoIssue
  <2>1. \A c \in Companies : filing[c] \in Reports
    BY DEF BasketInv
  <2>2. QED BY <2>1, OnlyIssuesGrow DEF SplitsAreNoIssue
<1>4. QED BY <1>1, <1>2, <1>3 DEF BasketIsSound

(* Whatever the companies, their filings and the spread asked for: who buys    *)
(* what the screen proposes keeps the spread, is not told to sell before the   *)
(* company files anew, and no split is taken for an issue of shares            *)
(* (discover/moonshot.py, fill_slots, entry_reasons and thesis_breaks).        *)
THEOREM TheBasketIsSound == BasketSpec => []BasketIsSound
<1>1. BasketInit => BasketInv
  BY BasketStarts
<1>2. BasketInv /\ [BasketNext]_basketVars => BasketInv'
  BY BasketStep
<1>3. BasketInv => BasketIsSound
  BY BasketHolds
<1>4. QED BY <1>1, <1>2, <1>3, PTL DEF BasketSpec
==============================================================================
