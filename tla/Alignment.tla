------------------------------- MODULE Alignment ------------------------------
(***************************************************************************)
(* The alignment engine (alignment/): the REF selection is sampled, DUT    *)
(* windows are searched, a banded dynamic time warping follows each of the *)
(* best ones row by row, and a path becomes a piecewise linear mapping of  *)
(* times.  One behaviour is one call of alignSelection.                    *)
(*                                                                         *)
(* Times and values are whole multiples of a unit, Unit of them to a       *)
(* nanosecond and ten to a value of 1; where the code divides doubles a    *)
(* quotient is rounded down.  A series has one channel, and its features   *)
(* are its values.  Arrays are functions from 0, as in the code.           *)
(***************************************************************************)
EXTENDS Integers, FiniteSets, Sequences, FiniteSetsExt, SequencesExt

CONSTANTS
    Requests,   \* bound: the calls, [ref, dut, start, end, limits, options]
    Unit,       \* of time, in a nanosecond
    MaxGood     \* bound: the windows that correlate better than the others

ASSUME AlignmentBounds == Unit \in Nat \ {0} /\ MaxGood \in Nat

Count(a) == Cardinality(DOMAIN a)
Final(a) == a[Count(a) - 1]

IsSeries(s) ==
    LET n == Count(s.timestamps)
    IN  /\ n \in Nat
        /\ s \in [timestamps : [0..(n - 1) -> Int], values : [0..(n - 1) -> Int]]

LimitNames == {"maxSamples", "maxFeatureValues", "maxCoarseSamples", "maxCoarseOperations",
               "maxDtwSamples", "maxDtwCells", "maxMappingPoints", "maxOperations"}
OptionNames == {"minimumSamples", "minScale", "maxScale", "scaleSteps", "probeCount", "candidateCount",
                "separationRatio", "fineCandidateCount", "bandRatio", "paddingRatio",
                "transitionPenalty", "endpointPenalty", "tolerance", "scales"}

(* The options the engine accepts; ratios and scales are in percent.       *)
AreOptions(o) ==
    /\ DOMAIN o = OptionNames
    /\ \A k \in OptionNames \ {"scales", "tolerance"} : o[k] \in Nat
    /\ o.tolerance \in Int
    /\ IsFiniteSet(o.scales) /\ o.scales \subseteq Nat \ {0}
    /\ o.minimumSamples >= 4
    /\ 1 <= o.minScale /\ o.minScale <= o.maxScale /\ o.scaleSteps >= 1
    /\ o.probeCount >= 8 /\ o.candidateCount >= 1 /\ o.separationRatio <= 100
    /\ o.fineCandidateCount >= 1
    /\ o.bandRatio <= 100 /\ o.paddingRatio <= 100

(* Series of any numbers, any limits and accepted options.  A selection is *)
(* of at least a hundred units, if not empty: the least that a percentage  *)
(* of it is not rounded to nothing.                                        *)
ASSUME RequestTypes ==
    \A r \in Requests :
        /\ DOMAIN r = {"ref", "dut", "start", "end", "limits", "options"}
        /\ IsSeries(r.ref) /\ IsSeries(r.dut)
        /\ r.start \in Int /\ r.end \in Int
        /\ r.limits \in [LimitNames -> Nat]
        /\ AreOptions(r.options) /\ r.options.probeCount <= r.limits.maxCoarseSamples
        /\ r.start < r.end => r.end - r.start >= 100

(* Traces have whole nanoseconds (perfetto-tools.mjs: rowsToSeries), and   *)
(* so has a selection of one.                                              *)
ASSUME WholeNanoseconds ==
    \A r \in Requests :
        \A t \in {r.start, r.end} \cup {r.ref.timestamps[i] : i \in DOMAIN r.ref.timestamps} :
            Unit * (t \div Unit) = t

VARIABLES
    request,
    stage,          \* what is done next
    error,          \* the code of the AlignmentError
    reference,      \* the selected REF series
    candidates,     \* coarse candidates still to be followed
    sampled,        \* the series, band and penalties of the warping under way
    rows,           \* its rows, cost and direction of each cell
    results,        \* the paths found
    mapping,
    operations      \* of the execution guard

vars == <<request, stage, error, reference, candidates, sampled, rows, results, mapping, operations>>

Limits == request.limits
Options == request.options
Distance(x, y) == IF x < y THEN y - x ELSE x - y
Ceiling(x, y) == (x + y - 1) \div y
Clamp(x, low, high) == Max({low, Min({high, x})})

Stages == {"select", "coarse", "dtw", "row", "backtrack", "map", "done", "failed"}

TypeOK ==
    /\ stage \in Stages /\ request \in Requests
    /\ (stage = "failed") = (error # "none")
    /\ stage \notin {"select", "failed"} => operations \in 1..Limits.maxOperations
    /\ stage = "row" => Len(rows) < Count(sampled.ref.timestamps)
    /\ stage = "map" => Len(results) \in 1..Options.fineCandidateCount

Nothing == [ref |-> <<>>, dut |-> <<>>, start |-> 0, end |-> 0, radius |-> 0,
            transition |-> 0, endpoint |-> 0, candidate |-> <<0, 0>>]
NoMapping == [points |-> <<>>, collapsed |-> <<>>, capped |-> FALSE]

Init ==
    /\ request \in Requests
    /\ stage = "select" /\ error = "none"
    /\ reference = Nothing
    /\ candidates = <<>> /\ results = <<>>
    /\ sampled = Nothing /\ rows = <<>>
    /\ mapping = NoMapping
    /\ operations = 0

-----------------------------------------------------------------------------
(* Series. *)

(* What a loop has at each of first..last: next makes it from the value    *)
(* before.                                                                 *)
Loop(first, last, initial, next) ==
    LET at[k \in first..last] == IF k = first THEN initial ELSE next[k][at[k - 1]]
    IN  at

(* One step of a binary search in an interval, and the search: as many     *)
(* steps as the interval has elements are enough.                          *)
Narrowed(values, target, low, high) ==
    LET middle == (low + high) \div 2
    IN  IF low >= high THEN <<low, high>>
        ELSE IF values[middle] < target THEN <<middle + 1, high>>
        ELSE <<low, middle>>

SearchFrom(values, target, low, high) ==
    LET next == [k \in 1..(high - low) |->
                    [v \in (low..high) \X (low..high) |-> Narrowed(values, target, v[1], v[2])]]
    IN  Loop(0, high - low, <<low, high>>, next)[high - low][1]

lowerBound(values, target) == SearchFrom(values, target, 0, Count(values))

(* The line through two points, at x. *)
Line(x1, y1, x2, y2, x) == y1 + ((y2 - y1) * (x - x1)) \div (x2 - x1)

interpolateVectorAt(series, timestamp) ==
    LET times == series.timestamps
        right == lowerBound(times, timestamp)
    IN  IF timestamp <= times[0] THEN series.values[0]
        ELSE IF timestamp >= Final(times) THEN Final(series.values)
        ELSE IF times[right] = timestamp THEN series.values[right]
        ELSE Line(times[right - 1], series.values[right - 1], times[right], series.values[right], timestamp)

(* The samples of the range, the ends of the range among them. *)
NaturalCount(series, start, end) ==
    LET times == series.timestamps
        first == lowerBound(times, start)
        last == lowerBound(times, end)
        exactStart == times[first] = start
        exactEnd == times[last] = end
        points == (IF exactEnd THEN last + 1 ELSE last) - first
    IN  Max({2, points + (IF exactStart THEN 0 ELSE 1) + (IF exactEnd THEN 0 ELSE 1)})

(* Seeded fault: the last sample stops short of the end. *)
SampleTimesShort(start, end, count) == [i \in 0..(count - 1) |-> start + ((end - start) * i) \div count]

SampleTimes(start, end, count) == [i \in 0..(count - 1) |-> start + ((end - start) * i) \div (count - 1)]

InRange(series, start, end) == start < end /\ start >= series.timestamps[0] /\ end <= Final(series.timestamps)

sampleSeriesRange(series, start, end, maximum) ==
    LET count == Max({2, Min({maximum, NaturalCount(series, start, end)})})
        times == SampleTimes(start, end, count)
    IN  [timestamps |-> times,
         values |-> [i \in 0..(count - 1) |-> interpolateVectorAt(series, times[i])]]

(* validateTimeSeries and, for the features, the limit of extractFeatures: *)
(* a channel has its values, their deltas and their activity.              *)
FeatureDimensions == 3
SeriesError(series, minimum) ==
    LET times == series.timestamps
        n == Count(times)
    IN  IF n < minimum THEN "INVALID_SERIES"
        ELSE IF n > Limits.maxSamples THEN "LIMIT_EXCEEDED"
        ELSE IF \E i \in 1..(n - 1) : times[i] <= times[i - 1] THEN "NON_MONOTONIC_TIME"
        ELSE IF n > Limits.maxFeatureValues THEN "LIMIT_EXCEEDED"
        ELSE "none"

(* Each of the three feature matrices is standardised in two passes. *)
FeatureOperations(series) == 2 * FeatureDimensions * Count(series.timestamps)

MinLimits == [maxSamples |-> 2, maxFeatureValues |-> 2, maxCoarseSamples |-> 8, maxCoarseOperations |-> 64,
              maxDtwSamples |-> 2, maxDtwCells |-> 1, maxMappingPoints |-> 2, maxOperations |-> 1]

resolveLimits == \A k \in DOMAIN MinLimits : Limits[k] >= MinLimits[k]

Fails(code) == stage' = "failed" /\ error' = code
Continues(next) == stage' = next /\ error' = error

(* Seeded fault: the operations of the step are counted after the check. *)
CheckpointBefore(spent, next) ==
    /\ operations' = operations + spent
    /\ IF operations > Limits.maxOperations THEN Fails("LIMIT_EXCEEDED") ELSE next

(* A checkpoint of the guard: the operations of a step are counted, and    *)
(* too many of them, or too much time, end the call.                       *)
Checkpoint(spent, next) ==
    /\ operations' = operations + spent
    /\ \/ operations' > Limits.maxOperations /\ Fails("LIMIT_EXCEEDED")
       \/ operations' <= Limits.maxOperations /\ next
       \/ operations' <= Limits.maxOperations /\ Fails("TIME_BUDGET_EXCEEDED")

FirstError(codes) ==
    LET bad == {k \in DOMAIN codes : codes[k] # "none"}
    IN  IF bad = {} THEN "none" ELSE codes[Min(bad)]

(* alignSelection and alignTimeSeries, up to the features. *)
Select ==
    LET r == request
        selected == sampleSeriesRange(r.ref, r.start, r.end, Limits.maxSamples)
        before == FirstError(<<
            IF resolveLimits THEN "none" ELSE "INVALID_OPTIONS",
            SeriesError(r.ref, 2),
            IF InRange(r.ref, r.start, r.end) THEN "none" ELSE "INVALID_RANGE">>)
        after == FirstError(<<
            SeriesError(selected, Options.minimumSamples),
            SeriesError(r.dut, Options.minimumSamples)>>)
    IN  /\ stage = "select"
        /\ IF before # "none" THEN Fails(before) /\ UNCHANGED <<reference, operations>>
           ELSE IF after # "none" THEN Fails(after) /\ UNCHANGED <<reference, operations>>
           ELSE /\ reference' = selected
                /\ Checkpoint(FeatureOperations(selected) + FeatureOperations(r.dut),
                     IF FeatureDimensions * Max({Count(selected.timestamps), Count(r.dut.timestamps)})
                            > Limits.maxFeatureValues
                     THEN Fails("LIMIT_EXCEEDED") ELSE Continues("coarse"))
        /\ UNCHANGED <<request, candidates, sampled, rows, results, mapping>>

-----------------------------------------------------------------------------
(* The coarse search; scales are in percent. *)

makeScales ==
    LET o == Options
        steps == {o.minScale + ((o.maxScale - o.minScale) * i) \div (o.scaleSteps - 1) : i \in 0..(o.scaleSteps - 1)}
    IN  IF o.scales # {} THEN o.scales
        ELSE IF o.scaleSteps = 1 THEN {Clamp(100, o.minScale, o.maxScale)}
        ELSE steps \cup ({100} \cap (o.minScale)..(o.maxScale))

Duration(series) == Final(series.timestamps) - series.timestamps[0]
eligibleScales == {s \in makeScales : Duration(reference) * s <= Duration(request.dut) * 100}
operationsPerStart == Options.probeCount * FeatureDimensions
maximumStartsPerScale ==
    Min({Limits.maxCoarseSamples, Limits.maxCoarseOperations \div (operationsPerStart * Cardinality(eligibleScales))})

(* The windows of a scale: from the start of the DUT series to its end. *)
Windows(scale) ==
    LET window == (Duration(reference) * scale) \div 100
        available == Duration(request.dut) - window
        natural == IF available = 0 THEN 1
                   ELSE Max({2, Min({Count(request.dut.timestamps),
                                     Ceiling(available * Options.probeCount, Duration(reference)) + 1})})
        count == Min({maximumStartsPerScale, natural})
        start(i) == request.dut.timestamps[0] + (IF count = 1 THEN 0 ELSE (available * i) \div (count - 1))
    IN  {[dutStart |-> start(i), dutEnd |-> start(i) + window, scale |-> scale] : i \in 0..(count - 1)}

rawCandidates == UNION {Windows(s) : s \in eligibleScales}

(* Logarithms of the scales that differ by less than 0.08. *)
scaleSimilarity(a, b) == 10000 * Max({a.scale, b.scale}) < 10833 * Min({a.scale, b.scale})

isSameBasin(a, b) ==
    /\ scaleSimilarity(a, b)
    /\ 100 * Distance(a.dutStart, b.dutStart)
            < Min({a.dutEnd - a.dutStart, b.dutEnd - b.dutStart}) * Options.separationRatio

(* The first of some candidates: by score, start and scale. *)
First(good, set) ==
    LET best == IF set \cap good = {} THEN set ELSE set \cap good
        start == Min({c.dutStart : c \in best})
        scale == Min({c.scale : c \in {d \in best : d.dutStart = start}})
    IN  CHOOSE c \in best : c.dutStart = start /\ c.scale = scale

selectDistinctCandidates(good, all, count) ==
    LET free(selected) == {c \in all \ Range(selected) : \A k \in DOMAIN selected : ~isSameBasin(selected[k], c)}
        next == [k \in 1..count |-> [selected \in Seq(all) |->
                    IF free(selected) = {} THEN selected ELSE Append(selected, First(good, free(selected)))]]
    IN  Loop(0, count, <<>>, next)[count]

(* findCoarseCandidates; which windows correlate best is open. *)
FindCandidates ==
    /\ stage = "coarse"
    /\ IF eligibleScales = {} THEN Fails("NO_CANDIDATE") /\ UNCHANGED <<candidates, operations>>
       ELSE IF maximumStartsPerScale < 1 THEN Fails("LIMIT_EXCEEDED") /\ UNCHANGED <<candidates, operations>>
       ELSE \E good \in UNION {kSubset(k, rawCandidates) : k \in 0..MaxGood} :
            /\ candidates' = selectDistinctCandidates(good, rawCandidates, Options.candidateCount)
            /\ Checkpoint(operationsPerStart * Cardinality(rawCandidates), Continues("dtw"))
    /\ UNCHANGED <<request, reference, sampled, rows, results, mapping>>

-----------------------------------------------------------------------------
(* The constrained warping of one candidate. *)

nearestIndex(times, target) ==
    LET low == SearchFrom(times, target, 0, Count(times) - 1)
    IN  IF low = 0 THEN 0
        ELSE IF Distance(times[low], target) < Distance(times[low - 1], target) THEN low ELSE low - 1

(* Seeded fault: the padding is not cut at the ends of the series. *)
PaddedUncut(low, high, x) == x

Padded(low, high, x) == Clamp(x, low, high)

(* The columns of the band in a row. *)
Span(s) == Max({1, s.end - s.start})
LastRow(s) == Count(s.ref.timestamps) - 1
BandStart(s, i) == Max({0, s.start + (Span(s) * i) \div LastRow(s) - s.radius})
BandEnd(s, i) == Min({Count(s.dut.timestamps) - 1, s.start + Ceiling(Span(s) * i, LastRow(s)) + s.radius})
BandRange(s, i) == BandStart(s, i)..BandEnd(s, i)

Cells(s) == MapThenSumSet(LAMBDA i : Cardinality(BandRange(s, i)), DOMAIN s.ref.timestamps)

StartDtw ==
    LET c == Head(candidates)
        dut == request.dut
        padding == ((c.dutEnd - c.dutStart) * Options.paddingRatio) \div 100
        low == dut.timestamps[0]
        high == Final(dut.timestamps)
        rangeStart == Padded(low, high, c.dutStart - padding)
        rangeEnd == Padded(low, high, c.dutEnd + padding)
        refSampled == sampleSeriesRange(reference, reference.timestamps[0], Final(reference.timestamps),
                                        Limits.maxDtwSamples)
        dutSampled == sampleSeriesRange(dut, rangeStart, rangeEnd, Limits.maxDtwSamples)
        start == nearestIndex(dutSampled.timestamps, c.dutStart)
        end == nearestIndex(dutSampled.timestamps, c.dutEnd)
        s == [ref |-> refSampled, dut |-> dutSampled, start |-> start, end |-> end,
              radius |-> Max({3, Ceiling(Max({1, end - start}) * Options.bandRatio, 100)}),
              transition |-> Options.transitionPenalty, endpoint |-> Options.endpointPenalty,
              candidate |-> <<c.dutStart, c.dutEnd>>]
    IN  /\ stage = "dtw"
        /\ IF ~InRange(dut, rangeStart, rangeEnd) THEN Fails("INVALID_RANGE") /\ UNCHANGED sampled
           ELSE /\ sampled' = s
                /\ IF Cells(s) > Limits.maxDtwCells THEN Fails("LIMIT_EXCEEDED") ELSE Continues("row")
        /\ candidates' = Tail(candidates)
        /\ rows' = <<>>
        /\ UNCHANGED <<request, reference, results, mapping, operations>>

(* A cost is a number or, of a cell that no path reaches, infinite. *)
Infinity == -1
Cost == Nat \cup {Infinity}
Plus(cost, more) == IF cost = Infinity THEN Infinity ELSE cost + more
Less(x, y) == x # Infinity /\ (y = Infinity \/ x < y)

localDistance(s, i, j) ==
    LET difference == Clamp(s.ref.values[i] - s.dut.values[j], -80, 80)
    IN  difference * difference

(* Penalties are in hundredths of a squared value of 1. *)
EndPenalty(s, j, expected) == (s.endpoint * Distance(j, expected)) \div s.radius

valueAt(row, j) == IF j \in DOMAIN row THEN row[j].cost ELSE Infinity

(* Seeded fault: a step up is taken for a diagonal one that costs more. *)
BestOfTwo(diagonal, up, left) ==
    IF Less(left, diagonal) THEN [cost |-> left, direction |-> "left"]
    ELSE [cost |-> diagonal, direction |-> "diagonal"]

BestStep(diagonal, up, left) ==
    IF Less(left, diagonal) /\ Less(left, up) THEN [cost |-> left, direction |-> "left"]
    ELSE IF Less(up, diagonal) THEN [cost |-> up, direction |-> "up"]
    ELSE [cost |-> diagonal, direction |-> "diagonal"]

(* A cell, from the row above and the cost of the cell on its left: what   *)
(* its best step costs, and its distance.                                  *)
CellAt(s, above, i, j, left) ==
    LET best == BestStep(valueAt(above, j - 1), Plus(valueAt(above, j), s.transition), Plus(left, s.transition))
    IN  [cost |-> Plus(best.cost, localDistance(s, i, j)), direction |-> best.direction]

Directions == {"diagonal", "up", "left"}

FirstRow(s) ==
    [j \in BandRange(s, 0) |-> [cost |-> localDistance(s, 0, j) + EndPenalty(s, j, s.start), direction |-> "start"]]

RowOf(s, above, i) ==
    LET first == BandStart(s, i)
        last == BandEnd(s, i)
        next == [j \in (first + 1)..last |->
                    [before \in [cost : Cost, direction : Directions] |-> CellAt(s, above, i, j, before.cost)]]
    IN  Loop(first, last, CellAt(s, above, i, first, Infinity), next)

DtwRow ==
    LET i == Len(rows)
        row == IF i = 0 THEN FirstRow(sampled) ELSE RowOf(sampled, rows[i], i)
    IN  /\ stage = "row"
        /\ rows' = Append(rows, row)
        /\ Checkpoint(Cardinality(DOMAIN row),
                Continues(IF i + 1 = Count(sampled.ref.timestamps) THEN "backtrack" ELSE "row"))
        /\ UNCHANGED <<request, reference, candidates, sampled, results, mapping>>

(* The cells that the directions in a table of rows lead back to, from a   *)
(* cell to the first row or out of the band, and the path: the same cells  *)
(* from the first row on.                                                  *)
InBand(table, c) == c[2] \in DOMAIN table[c[1] + 1]

Came(table, c) ==
    LET direction == table[c[1] + 1][c[2]].direction
    IN  IF direction = "diagonal" THEN <<c[1] - 1, c[2] - 1>>
        ELSE IF direction = "up" THEN <<c[1] - 1, c[2]>>
        ELSE <<c[1], c[2] - 1>>

Stops(table, c) == c[1] = 0 \/ ~InBand(table, c)

Longest(s) == Count(s.ref.timestamps) + Count(s.dut.timestamps)

Walk(s, table, cell) ==
    LET next == [k \in 1..Longest(s) |-> [c \in Nat \X Int |-> IF Stops(table, c) THEN c ELSE Came(table, c)]]
    IN  Loop(0, Longest(s), cell, next)

PathTo(s, table, cell) ==
    LET back == Walk(s, table, cell)
        stops == {k \in 0..Longest(s) : Stops(table, back[k])}
        steps == Min(stops)
    IN  IF stops = {} \/ ~InBand(table, back[steps]) THEN <<>>
        ELSE [k \in 1..(steps + 1) |-> back[steps + 1 - k]]

EndCost(s, row, j) == Plus(valueAt(row, j), EndPenalty(s, j, s.end))
BestEnds(s, row) == {j \in DOMAIN row : \A k \in DOMAIN row : ~Less(EndCost(s, row, k), EndCost(s, row, j))}

Backtrack ==
    LET row == Last(rows)
        end == Min(BestEnds(sampled, row))
        path == PathTo(sampled, rows, <<Len(rows) - 1, end>>)
    IN  /\ stage = "backtrack"
        /\ IF EndCost(sampled, row, end) = Infinity \/ path = <<>> THEN Fails("DTW_FAILED") /\ UNCHANGED results
           ELSE /\ results' = Append(results,
                        [k \in DOMAIN path |-> [index |-> path[k],
                                                referenceTime |-> sampled.ref.timestamps[path[k][1]],
                                                dutTime |-> sampled.dut.timestamps[path[k][2]]]])
                /\ Continues(IF candidates = <<>> \/ Len(results) + 1 = Options.fineCandidateCount THEN "map" ELSE "dtw")
        /\ UNCHANGED <<request, reference, candidates, sampled, rows, mapping, operations>>

-----------------------------------------------------------------------------
(* The mapping. *)

(* The elements of a finite set of numbers in order: a k-th is the largest *)
(* of k of them.                                                           *)
UpTo(set, x) == {y \in set : y <= x}
Sorted(set) == [k \in 1..Cardinality(set) |-> CHOOSE x \in set : Cardinality(UpTo(set, x)) = k]

(* The mean of the values of an interval. *)
Mean(values) ==
    LET first == Min(DOMAIN values)
        last == Max(DOMAIN values)
        next == [k \in (first + 1)..last |-> [total \in Int |-> total + values[k]]]
    IN  Loop(first, last, values[first], next)[last] \div (last - first + 1)

(* The points of the path, one for each time of REF. *)
Collapsed(path) ==
    LET times == Sorted({path[k].referenceTime : k \in DOMAIN path})
        at(t) == {k \in DOMAIN path : path[k].referenceTime = t}
    IN  [n \in DOMAIN times |->
            [refTime |-> times[n], dutTime |-> Mean([k \in at(times[n]) |-> path[k].dutTime])]]

perpendicularError(p, start, end) ==
    Distance(p.dutTime, Line(start.refTime, start.dutTime, end.refTime, end.dutTime, p.refTime))

(* simplifyRdp: the points that are kept; a stretch is taken from a stack  *)
(* and, if a point in it is too far off, split there.                      *)
Kept(points, tolerance) ==
    LET n == Len(points)
        next == [step \in 1..(2 * n) |-> [v \in [keep : SUBSET (1..n), stack : Seq((1..n) \X (1..n))] |->
            IF v.stack = <<>> THEN v
            ELSE LET start == Last(v.stack)[1]
                     end == Last(v.stack)[2]
                     off(k) == perpendicularError(points[k], points[start], points[end])
                     between == (start + 1)..(end - 1)
                     worst == Max({off(k) : k \in between})
                     at == Min({k \in between : off(k) = worst})
                 IN  IF between = {} \/ worst <= tolerance THEN [v EXCEPT !.stack = Front(@)]
                     ELSE [keep |-> v.keep \cup {at}, stack |-> Front(v.stack) \o <<<<start, at>>, <<at, end>>>>]]]
    IN  Loop(0, 2 * n, [keep |-> {1, n}, stack |-> <<<<1, n>>>>], next)[2 * n].keep

simplifyRdp(points, tolerance) ==
    IF Len(points) <= 2 \/ tolerance <= 0 THEN points
    ELSE LET kept == Sorted(Kept(points, tolerance)) IN [k \in DOMAIN kept |-> points[kept[k]]]

Round(x, y) == (2 * x + y) \div (2 * y)

(* Seeded fault: the points are taken at equal distances from the first. *)
CapFromFirst(points, maximum) ==
    IF Len(points) <= maximum THEN points
    ELSE [k \in 1..maximum |-> points[1 + ((k - 1) * Len(points)) \div maximum]]

capPoints(points, maximum) ==
    IF Len(points) <= maximum THEN points
    ELSE [k \in 1..maximum |-> points[1 + Round((k - 1) * (Len(points) - 1), maximum - 1)]]

Tolerance(points) ==
    IF Options.tolerance >= 0 THEN Options.tolerance
    ELSE Max({1, Distance(points[1].dutTime, points[Len(points)].dutTime) \div 1000})

Ascending(points) ==
    \A k \in 2..Len(points) :
        points[k - 1].refTime < points[k].refTime /\ points[k - 1].dutTime <= points[k].dutTime

(* buildTimeMapping, of the result with the highest confidence, whichever  *)
(* it is.                                                                  *)
BuildMapping ==
    /\ stage = "map"
    /\ \E best \in Range(results) :
        LET points == Collapsed(best)
            simple == simplifyRdp(points, Tolerance(points))
        IN  IF Len(points) < 2 THEN Fails("INVALID_MAPPING") /\ UNCHANGED mapping
            ELSE /\ mapping' = [points |-> capPoints(simple, Limits.maxMappingPoints), collapsed |-> points,
                                capped |-> Len(simple) > Limits.maxMappingPoints]
                 /\ IF Ascending(mapping'.points) THEN Continues("done") ELSE Fails("INVALID_MAPPING")
    /\ UNCHANGED <<request, reference, candidates, sampled, rows, results, operations>>

(* normalizePoints *)
RefToDut(points) == [k \in DOMAIN points |-> [input |-> points[k].refTime, output |-> points[k].dutTime]]
DutToRef(points) ==
    LET times == Sorted({points[k].dutTime : k \in DOMAIN points})
        at(t) == {k \in DOMAIN points : points[k].dutTime = t}
    IN  [n \in DOMAIN times |->
            [input |-> times[n], output |-> Mean([k \in at(times[n]) |-> points[k].refTime])]]

(* interpolatePoints: the point that ends the segment of a value. *)
Segment(points, value) == SearchFrom([k \in 1..Len(points) |-> points[k].input], value, 2, Len(points))

interpolatePoints(points, value, extrapolation) ==
    LET n == Len(points)
        line(k) == Line(points[k - 1].input, points[k - 1].output, points[k].input, points[k].output, value)
    IN  IF value <= points[1].input
        THEN IF value = points[1].input \/ extrapolation = "clamp" THEN points[1].output ELSE line(2)
        ELSE IF value >= points[n].input
        THEN IF value = points[n].input \/ extrapolation = "clamp" THEN points[n].output ELSE line(n)
        ELSE line(Segment(points, value))

mapRefToDut(points, t, extrapolation) == interpolatePoints(RefToDut(points), t, extrapolation)
mapDutToRef(points, t, extrapolation) == interpolatePoints(DutToRef(points), t, extrapolation)

mappedRange == <<mapRefToDut(mapping.points, request.start, "clamp"), mapRefToDut(mapping.points, request.end, "clamp")>>

(* addOrigin: whole nanoseconds. *)
Nanoseconds(t) == Round(t, Unit)

-----------------------------------------------------------------------------

Next == Select \/ FindCandidates \/ StartDtw \/ DtwRow \/ Backtrack \/ BuildMapping

Spec == Init /\ [][Next]_vars

-----------------------------------------------------------------------------
(* Properties. *)

(* What a valid request may fail of: its limits, no window that fits, no   *)
(* time, or a band without a path; never of what the engine has made up    *)
(* itself on the way (dtw.mjs, mapping.mjs: ranges and mappings rejected). *)
FailuresAreTheCallers ==
    reference # Nothing => error \in {"none", "LIMIT_EXCEEDED", "NO_CANDIDATE", "TIME_BUDGET_EXCEEDED", "DTW_FAILED"}

(* The candidates lie in the DUT series, and two of the same scale start   *)
(* well apart; a window left out is near a candidate of about its scale,   *)
(* or comes after all that were wanted; and the search has kept to its     *)
(* operations.                                                             *)
CandidatesAreDistinct ==
    LET chosen == Range(candidates)
        apart(c, d) == 100 * Distance(c.dutStart, d.dutStart)
                            >= Options.separationRatio * Min({c.dutEnd - c.dutStart, d.dutEnd - d.dutStart})
    IN  /\ candidates # <<>>
        /\ \A c \in chosen : InRange(request.dut, c.dutStart, c.dutEnd)
        /\ \A c, d \in chosen : c.scale = d.scale => c = d \/ apart(c, d)
        /\ Len(candidates) < Options.candidateCount =>
                \A c \in rawCandidates : \E d \in chosen : ~apart(c, d) \/ c = d
        /\ operationsPerStart * Cardinality(rawCandidates) <= Limits.maxCoarseOperations

(* Both sampled series run from one end of their range to the other, keep  *)
(* to the values around, and the band starts and ends at the samples that  *)
(* are nearest to the candidate.                                           *)
SamplesCoverTheRange ==
    LET s == sampled
        nearest(k, t) == \A j \in DOMAIN s.dut.timestamps :
                            Distance(s.dut.timestamps[k], t) <= Distance(s.dut.timestamps[j], t)
    IN  /\ s.ref.timestamps[0] = request.start /\ Final(s.ref.timestamps) = request.end
        /\ s.dut.timestamps[0] <= s.candidate[1] /\ s.candidate[2] <= Final(s.dut.timestamps)
        /\ \A x \in {s.ref, s.dut} :
            /\ \A i \in 1..(Count(x.timestamps) - 1) : x.timestamps[i - 1] < x.timestamps[i]
            /\ Count(x.timestamps) <= Limits.maxDtwSamples
        /\ \A i \in DOMAIN s.dut.timestamps, k \in 1..(Count(request.dut.timestamps) - 1) :
            LET times == request.dut.timestamps  v == request.dut.values
            IN  s.dut.timestamps[i] \in times[k - 1]..times[k] =>
                    s.dut.values[i] \in Min({v[k - 1], v[k]})..Max({v[k - 1], v[k]})
        /\ nearest(s.start, s.candidate[1]) /\ nearest(s.end, s.candidate[2])

(* What the warping starts from is sound: the candidates of the search are *)
(* distinct and complete, and the samples of one cover its range.          *)
WindowsAreSound ==
    /\ stage = "dtw" /\ results = <<>> => CandidatesAreDistinct
    /\ stage = "row" => SamplesCoverTheRange

(* All the ways through the band from its first row, by length, and what   *)
(* each costs.                                                             *)
WaysOn(s, cell) ==
    {c \in {<<cell[1] + 1, cell[2] + 1>>, <<cell[1] + 1, cell[2]>>, <<cell[1], cell[2] + 1>>} :
        c[1] \in 1..LastRow(s) /\ c[2] \in BandRange(s, c[1])}

StepCost(s, from, to) ==
    localDistance(s, to[1], to[2]) + (IF from[1] = to[1] \/ from[2] = to[2] THEN s.transition ELSE 0)

Longer(s, w) ==
    LET end == Last(w.cells)
    IN  {[cells |-> Append(w.cells, c), cost |-> w.cost + StepCost(s, end, c)] : c \in WaysOn(s, end)}

Ways(s) ==
    LET starts == {[cells |-> <<<<0, j>>>>, cost |-> localDistance(s, 0, j) + EndPenalty(s, j, s.start)] :
                        j \in BandRange(s, 0)}
        next == [n \in 2..Longest(s) |->
                    [ways \in SUBSET [cells : Seq(Nat \X Nat), cost : Nat] |-> UNION {Longer(s, w) : w \in ways}]]
    IN  Loop(1, Longest(s), starts, next)

(* Those to the last row, and their whole costs. *)
WaysThrough(s) == {w \in UNION {Ways(s)[n] : n \in 1..Longest(s)} : Last(w.cells)[1] = LastRow(s)}
WholeCost(s, w) == w.cost + EndPenalty(s, Last(w.cells)[2], s.end)

(* The path found is a way through the whole band and the cheapest of all; *)
(* the warping fails only if there is none.                                *)
PathIsCheapest ==
    /\ rows # <<>> /\ results # <<>> /\ stage \in {"dtw", "map"} =>
        LET path == Last(results)
        IN  \E w \in WaysThrough(sampled) :
                /\ w.cells = [k \in DOMAIN path |-> path[k].index]
                /\ \A v \in WaysThrough(sampled) : WholeCost(sampled, w) <= WholeCost(sampled, v)
    /\ error = "DTW_FAILED" => WaysThrough(sampled) = {}

(* A mapping begins and ends where the path does, stays within its limit   *)
(* and, unless it was cut to it, within the tolerance (and the rounding);  *)
(* in whole nanoseconds, as the caller gets it, it is still a mapping.     *)
MappingFollowsPath ==
    LET points == mapping.points  all == mapping.collapsed
    IN  /\ Len(points) \in 2..Limits.maxMappingPoints
        /\ points[1] = all[1] /\ points[Len(points)] = all[Len(all)]
        /\ Ascending(all)
        /\ mapping.capped \/ \A k \in DOMAIN all :
            Distance(mapRefToDut(points, all[k].refTime, "clamp"), all[k].dutTime) <= Tolerance(all) + 1
        /\ Ascending([k \in DOMAIN points |->
                [refTime |-> Nanoseconds(points[k].refTime), dutTime |-> Nanoseconds(points[k].dutTime)]])

(* Times map in order, in both directions and beyond the ends, and a point *)
(* maps to itself and, unless others have its time, back; the selection    *)
(* maps into the DUT series.                                               *)
MappingKeepsOrder ==
    LET points == mapping.points
        times == {k * (Unit \div 4) : k \in 0..((4 * Final(request.ref.timestamps)) \div Unit)}
        forward(t) == mapRefToDut(points, t, "linear")
        back(t) == mapDutToRef(points, t, "linear")
    IN  /\ \A t \in times : t + Unit \div 4 \in times => forward(t) <= forward(t + Unit \div 4)
        /\ \A p \in Range(points) : forward(p.refTime) = p.dutTime
        /\ Len(DutToRef(points)) > 1 =>
            /\ \A p, q \in Range(points) : p.dutTime < q.dutTime => back(p.dutTime) < back(q.dutTime)
            /\ \A p \in Range(points) : (\A q \in Range(points) : q.dutTime = p.dutTime => q = p) => back(p.dutTime) = p.refTime
        /\ mappedRange[1] <= mappedRange[2]
        /\ mappedRange[1] >= request.dut.timestamps[0] /\ mappedRange[2] <= Final(request.dut.timestamps)

(* The mapping that the caller gets is the path, in order. *)
MappingIsSound == stage = "done" => MappingFollowsPath /\ MappingKeepsOrder
=============================================================================
