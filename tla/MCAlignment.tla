----------------------------- MODULE MCAlignment ------------------------------
(* Instances of Alignment.                                                 *)
EXTENDS Alignment

(* Two nanoseconds. *)
Tick == 2 * Unit

Array(s) == [i \in 0..(Len(s) - 1) |-> s[i + 1]]
Times(s) == Array([i \in DOMAIN s |-> s[i] * Tick])
Every(step, n) == [i \in 0..(n - 1) |-> i * step]

Hill == [timestamps |-> Every(Tick, 6), values |-> Array(<<0, 10, 20, 10, 0, 0>>)]

Waves == {
    <<0, 0, 10, 20, 10, 0, 0>>,
    <<0, 10, 20, 20, 20, 10, 0>>,
    <<20, 0, 20, 0, 20, 0, 20>>,
    <<0, 0, 0, 0, 0, 0, 0>>,
    <<20, 10, 0, 0, 10, 20, 10>>}

Duts == {[timestamps |-> Every(Tick, 7), values |-> Array(w)] : w \in Waves}
Gaps == [timestamps |-> Times(<<0, 1, 3, 4, 7>>), values |-> Array(<<0, 10, 20, 10, 0>>)]
Slow == [timestamps |-> Every(8 * Unit, 6), values |-> Hill.values]
Fine == [timestamps |-> Every(Unit, 26), values |-> [i \in 0..25 |-> IF i < 12 THEN i ELSE 24 - i]]
Bad == [timestamps |-> Times(<<0, 2, 2, 3, 4>>), values |-> Array(<<0, 0, 0, 0, 0>>)]

UsualLimits == [maxSamples |-> 30, maxFeatureValues |-> 90, maxCoarseSamples |-> 8, maxCoarseOperations |-> 192,
                maxDtwSamples |-> 30, maxDtwCells |-> 120, maxMappingPoints |-> 8, maxOperations |-> 1000]
UsualOptions == [minimumSamples |-> 4, scales |-> {}, minScale |-> 80, maxScale |-> 120, scaleSteps |-> 2,
                 probeCount |-> 8, candidateCount |-> 3, separationRatio |-> 12, fineCandidateCount |-> 2,
                 bandRatio |-> 14, paddingRatio |-> 12, transitionPenalty |-> 1, endpointPenalty |-> 5,
                 tolerance |-> -1]
Usual(dut) == [ref |-> Hill, dut |-> dut, start |-> Tick, end |-> 4 * Tick,
               limits |-> UsualLimits, options |-> UsualOptions]

LimitChanges == {[UsualLimits EXCEPT !.maxDtwSamples = 2], [UsualLimits EXCEPT !.maxDtwSamples = 3],
                 [UsualLimits EXCEPT !.maxMappingPoints = 2], [UsualLimits EXCEPT !.maxMappingPoints = 3],
                 [UsualLimits EXCEPT !.maxDtwCells = 15], [UsualLimits EXCEPT !.maxOperations = 220],
                 [UsualLimits EXCEPT !.maxFeatureValues = 12], [UsualLimits EXCEPT !.maxMappingPoints = 1]}
OptionChanges == {[UsualOptions EXCEPT !.scales = {100}, !.separationRatio = 100],
                  [UsualOptions EXCEPT !.scales = {100}, !.transitionPenalty = 150, !.tolerance = 0],
                  [UsualOptions EXCEPT !.scales = {140}, !.paddingRatio = 100, !.bandRatio = 100],
                  [UsualOptions EXCEPT !.scales = {300}], [UsualOptions EXCEPT !.scaleSteps = 9],
                  [UsualOptions EXCEPT !.scaleSteps = 1, !.endpointPenalty = 0, !.transitionPenalty = 0, !.tolerance = Unit]}

SomeRequests ==
    LET usual == {Usual(d) : d \in Duts}
        short == Usual(CHOOSE d \in Duts : TRUE)
    IN  usual
        \cup {[u EXCEPT !.limits = l] : u \in usual, l \in LimitChanges}
        \cup {[u EXCEPT !.options = o] : u \in usual, o \in OptionChanges}
        \cup {[u EXCEPT !.start = Unit, !.end = 7 * Unit] : u \in usual}
        \cup {[Usual(Gaps) EXCEPT !.end = 5 * Tick], Usual(Bad), [short EXCEPT !.ref = Bad],
              [short EXCEPT !.end = Tick], [short EXCEPT !.end = 2 * Tick],
              [Usual(Fine) EXCEPT !.ref = Slow, !.start = 8 * Unit, !.end = 32 * Unit,
                                  !.options.scales = {100}, !.options.bandRatio = 0]}
=============================================================================
