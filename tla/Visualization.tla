--------------------------- MODULE Visualization ----------------------------
(***************************************************************************)
(* What src/src/porcupine/visualization.go makes of a finished verbose      *)
(* check: computeVisualizationData sorts the linearizations of a partition, *)
(* replays each of them and notes for every operation which one to show     *)
(* when a reader of the page selects it.                                    *)
(***************************************************************************)
EXTENDS Porcupine

\* checkParallel's set of unique linearizations.  The code tells them apart by
\* pointer; checkSingle never keeps two that are equal.
Partials(key) ==
    {search[key].longest[id] : id \in DOMAIN search[key].longest} \ {<<>>}

\* sort.Slice is not stable and the set comes out of a map in any order: all
\* arrangements of the longest first.
Sorted(partials) ==
    {s \in SetToSeqs(partials) :
        \A i, j \in DOMAIN s : i < j => Len(s[i]) >= Len(s[j])}

\* The states that model.Step goes through.
Replay(h, partial) ==
    LET state[j \in 0 .. Len(partial)] ==
          IF j = 0 THEN Empty
          ELSE StepState(state[j - 1], h[CallOf(h, partial[j])].op)
    IN  state

\* "valid partial linearization returned non-ok result from model step"
Panics(h, partials) ==
    \E i \in DOMAIN partials : \E j \in DOMAIN partials[i] :
       ~ StepOk(Replay(h, partials[i])[j - 1], h[CallOf(h, partials[i][j])].op)

\* Mutant: largestIndex is overwritten whatever largestSize is.
LargestAny(partials) ==
    [id \in UNION {Range(partials[i]) : i \in DOMAIN partials} |->
       CHOOSE i \in DOMAIN partials :
          /\ id \in Range(partials[i])
          /\ \A j \in i + 1 .. Len(partials) : id \notin Range(partials[j])]

\* largestIndex: by operation, the first linearization that contains it and is
\* longer than those before it that do.
Largest(partials) ==
    [id \in UNION {Range(partials[i]) : i \in DOMAIN partials} |->
       CHOOSE i \in DOMAIN partials :
          /\ id \in Range(partials[i])
          /\ \A j \in DOMAIN partials : id \in Range(partials[j]) =>
                \/ Len(partials[j]) < Len(partials[i])
                \/ Len(partials[j]) = Len(partials[i]) /\ i <= j]

-----------------------------------------------------------------------------
\* "longest linearizable prefix that includes the given entry", for the page
\* that VisualizePath writes: replaying never panics, the linearization shown
\* for an operation is a longest of all legal ones that contain it, and an
\* operation that is shown none ('Not part of any partial linearization.') is
\* in none, although the cache kept checkSingle from trying most of them.  A
\* search that was killed promises the first part alone.
ReportExplains ==
    (computeInfo /\ loop.st \in {"Ok", "Illegal", "Unknown"}) =>
       \A key \in Keys :
          LET h == Part(key)
              legal == IF kill THEN {} ELSE LegalPrefixes(h)
          IN  \A partials \in Sorted(Partials(key)) :
                 /\ ~ Panics(h, partials)
                 /\ \A o \in legal : \A k \in DOMAIN o :
                       LET shown == Largest(partials)
                       IN  /\ o[k] \in DOMAIN shown
                           /\ Len(partials[shown[o[k]]]) >= Len(o)
                           /\ \E x \in DOMAIN partials[shown[o[k]]] :
                                 partials[shown[o[k]]][x] = o[k]
=============================================================================
