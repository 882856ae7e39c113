----------------------------- MODULE HubRanges -----------------------------
(***************************************************************************)
(* The interval arithmetic behind the gaps of the stream: pruned_ranges as *)
(* rows of (first, last) positions that prunes merge, and the gap lists    *)
(* Pull and ScanPublications compute from them.  HubStream keeps the same  *)
(* information as a plain set of positions; here the arithmetic is shown   *)
(* to maintain and to report exactly that set.                             *)
(*                                                                         *)
(* One scope; an entry is its position.                                    *)
(***************************************************************************)
EXTENDS Integers, Sequences, SequencesExt

CONSTANT MaxPosition   \* bound: positions published

ASSUME PositionAssumption == MaxPosition \in Nat

VARIABLES
  next,     \* scope_counters.next_sequence
  held,     \* sequence numbers of the publications
  ranges,   \* pruned_ranges
  low       \* repo_scopes.low_water_sequence

vars == <<next, held, ranges, low>>

HighWater == next - 1
Span(r) == r.from .. r.to
PrunedPositions == UNION {Span(r) : r \in ranges}

Init ==
  /\ next = 1
  /\ held = {}
  /\ ranges = {}
  /\ low = 0

-----------------------------------------------------------------------------
(* Gap lists. *)

(* Fault: a gap is extended across a change of reason. *)
AddGap_AnyReason(gaps, from, to, reason) ==
  IF from > to THEN gaps
  ELSE IF gaps # <<>> /\ Last(gaps).to + 1 = from
       THEN [gaps EXCEPT ![Len(gaps)].to = to]
  ELSE Append(gaps, [from |-> from, to |-> to, reason |-> reason])

(* addGap: a gap that continues the last one, for the same reason, extends *)
(* it.                                                                     *)
AddGap(gaps, from, to, reason) ==
  IF from > to THEN gaps
  ELSE IF gaps # <<>> /\ Last(gaps).reason = reason /\ Last(gaps).to + 1 = from
       THEN [gaps EXCEPT ![Len(gaps)].to = to]
  ELSE Append(gaps, [from |-> from, to |-> to, reason |-> reason])

(* ORDER BY a column whose values differ. *)
OrderedBy(S, column(_)) ==
  [i \in 1 .. Cardinality(S) |->
     CHOOSE x \in S : Cardinality({y \in S : column(y) < column(x)}) = i - 1]

InOrder(S) == OrderedBy(S, LAMBDA q : q)

(* pruneReport: the deleted positions in order, as gaps. *)
ReportedGaps(gone) ==
  FoldLeft(LAMBDA gaps, q : AddGap(gaps, q, q, "pruned"), <<>>, InOrder(gone))

(* The rows a range query selects, bounds included. *)
Overlapping(R, from, to) == {r \in R : r.to >= from /\ r.from <= to}

RowsInOrder(R) == OrderedBy(R, LAMBDA r : r.from)

(* Fault: a range that begins before the question is reported whole. *)
AddMissingGaps_Unclamped(gaps, R, from, to) ==
  LET Step(acc, r) ==
        [gaps |-> AddGap(AddGap(acc.gaps, acc.from, r.from - 1, "unavailable"),
                         r.from, IF r.to > to THEN to ELSE r.to, "pruned"),
         from |-> r.to + 1]
      all == FoldLeft(Step, [gaps |-> gaps, from |-> from],
                      RowsInOrder(Overlapping(R, from, to)))
  IN  AddGap(all.gaps, all.from, to, "unavailable")

(* addMissingGaps: positions without an entry are pruned where a range      *)
(* covers them, and unavailable where none does.                            *)
AddMissingGaps(gaps, R, from, to) ==
  LET Step(acc, r) ==
        LET first == IF r.from < acc.from THEN acc.from ELSE r.from
            last == IF r.to > to THEN to ELSE r.to
        IN  [gaps |-> AddGap(AddGap(acc.gaps, acc.from, r.from - 1, "unavailable"),
                             first, last, "pruned"),
             from |-> last + 1]
      all == FoldLeft(Step, [gaps |-> gaps, from |-> from],
                      RowsInOrder(Overlapping(R, from, to)))
  IN  IF from > to THEN gaps
      ELSE AddGap(all.gaps, all.from, to, "unavailable")

-----------------------------------------------------------------------------
(* Merging. *)

(* The range that replaces every range touching first .. last.  Widening    *)
(* until nothing changes ends at the smallest interval out of which no      *)
(* range that touches it sticks.                                            *)
Widened(R, first, last) ==
  LET wide == {i \in [from : {first} \cup {r.from : r \in R},
                      to : {last} \cup {r.to : r \in R}] :
                 /\ i.from <= first /\ last <= i.to
                 /\ \A r \in Overlapping(R, i.from - 1, i.to + 1) :
                       i.from <= r.from /\ r.to <= i.to}
  IN  [from |-> Max({i.from : i \in wide}), to |-> Min({i.to : i \in wide})]

(* Fault: the rows that go are not widened into the one that stays. *)
MergePrunedRange_DropsBridged(R, first, last) ==
  (R \ Overlapping(R, first - 1, last + 1)) \cup {[from |-> first, to |-> last]}

(* mergePrunedRange: one range replaces every range it touches. *)
MergePrunedRange(R, first, last) ==
  LET r == Widened(R, first, last)
  IN  (R \ Overlapping(R, r.from - 1, r.to + 1)) \cup {r}

(* The part of PruneHub that records a batch of deleted entries. *)
RecordPruned(R, gone) ==
  FoldLeft(LAMBDA S, g : MergePrunedRange(S, g.from, g.to), R, ReportedGaps(gone))

LowWater(left) ==
  Max({low, IF left = {} THEN HighWater ELSE Min(left) - 1})

Publish ==
  /\ next <= MaxPosition
  /\ next' = next + 1
  /\ held' = held \cup {next}
  /\ UNCHANGED <<ranges, low>>

PruneBatch(gone) ==
  /\ gone # {}
  /\ held' = held \ gone
  /\ ranges' = RecordPruned(ranges, gone)
  /\ low' = LowWater(held \ gone)
  /\ UNCHANGED next

Next == Publish \/ \E gone \in SUBSET held : PruneBatch(gone)

Spec == Init /\ [][Next]_vars

-----------------------------------------------------------------------------
(* Reading. *)

(* The rows both readers walk in order: what lies between two rows is       *)
(* missing, and a row in "hidden" is reported instead of delivered.  Pull   *)
(* joins it to the gap before, ScanPublications appends one gap for each.   *)
Report(gaps, q, joins) ==
  IF joins THEN AddGap(gaps, q, q, "filtered")
  ELSE Append(gaps, [from |-> q, to |-> q, reason |-> "filtered"])

WalkRows(gaps, start, rows, hidden, joins) ==
  LET Step(acc, q) ==
        LET g == AddMissingGaps(acc.gaps, ranges, acc.at + 1, q - 1)
        IN  [gaps |-> IF q \in hidden THEN Report(g, q, joins) ELSE g,
             at |-> q]
  IN  FoldLeft(Step, [gaps |-> gaps, at |-> start], InOrder(rows))

(* Both readers begin by skipping to the low-water mark. *)
Skip(after) ==
  IF after < low
  THEN [gaps |-> AddGap(<<>>, after + 1, low, "pruned"), at |-> low]
  ELSE [gaps |-> <<>>, at |-> after]

(* Pull: at most "limit" positions. *)
Pull(after, limit, hidden) ==
  LET start == Skip(after)
      end == IF HighWater <= start.at THEN start.at
             ELSE Min({HighWater, start.at + limit})
      rows == held \cap (start.at + 1 .. end)
      walked == WalkRows(start.gaps, start.at, rows, hidden, TRUE)
  IN  [gaps |-> AddMissingGaps(walked.gaps, ranges, walked.at + 1, end),
       at |-> end, shown |-> rows \ hidden]

(* ScanPublications: at most "limit" rows, and nothing beyond the last. *)
ScanPublications(after, limit, hidden) ==
  LET start == Skip(after)
      above == InOrder({q \in held : q > start.at})
      rows == ToSet(SubSeq(above, 1, Min({limit, Len(above)})))
      walked == WalkRows(start.gaps, start.at, rows, hidden, FALSE)
  IN  [gaps |-> walked.gaps, at |-> walked.at, shown |-> rows \ hidden]

-----------------------------------------------------------------------------
(* Properties. *)

(* The stream promised to readers, with the pruned positions read off the   *)
(* ranges: merging loses no position and invents none, over any sequence of *)
(* batches that bridge, touch or lie between earlier ones.                  *)
Feed == INSTANCE HubFeed WITH
          Scopes <- {1},
          issued <- [s \in {1} |-> HighWater],
          held <- [s \in {1} |-> held],
          gone <- [s \in {1} |-> PrunedPositions]

RangesKeepTheFeed == Feed!Spec

(* What a page says of positions: the gaps in order, every position passed  *)
(* either shown or in one gap, and each gap's reason true of each position  *)
(* in it.                                                                   *)
PageAccountsFor(page, after, hidden) ==
  LET g == page.gaps
      Said(reason) == UNION {Span(g[i]) : i \in {j \in DOMAIN g : g[j].reason = reason}}
      passed == after + 1 .. page.at
  IN  /\ \A i \in DOMAIN g : g[i].from <= g[i].to
      /\ \A i \in 1 .. Len(g) - 1 : g[i].to < g[i + 1].from
      /\ Said("pruned") = passed \cap PrunedPositions
      /\ Said("filtered") = passed \cap held \cap hidden
      /\ Said("unavailable") = {}
      /\ page.shown = (passed \cap held) \ hidden

(* A page of Pull accounts for every position between the cursor and the    *)
(* position it proposes, whatever was pruned in between, in as few gaps as  *)
(* there are runs of one reason.                                            *)
PullAccounts ==
  \A after \in 0 .. HighWater, limit \in 1 .. MaxPosition, hidden \in SUBSET held :
     LET page == Pull(after, limit, hidden)
         g == page.gaps
     IN  /\ PageAccountsFor(page, after, hidden)
         /\ \A i \in 1 .. Len(g) - 1 :
               g[i].to + 1 = g[i + 1].from => g[i].reason # g[i + 1].reason

(* A page of ScanPublications does the same up to its last row; and a       *)
(* scanner that starts at 0 and goes on from where each page ended has seen *)
(* every entry there is once it makes no more progress.                     *)
ScanAccounts ==
  \A after \in 0 .. HighWater, limit \in 1 .. MaxPosition :
     \A hidden \in {{}, held, {q \in held : q % 2 = 0}} :
        LET page == ScanPublications(after, limit, hidden)
        IN  /\ PageAccountsFor(page, after, hidden)
            /\ page.at = after => \A q \in held : q <= after

(* Both readers account for what they pass. *)
ReadersAccount == PullAccounts /\ ScanAccounts
=============================================================================
