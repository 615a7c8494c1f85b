------------------------- MODULE TabletSearchProofs -------------------------
(***************************************************************************)
(* The binary search is correct for every ordered table, of any length,    *)
(* and every key.                                                          *)
(***************************************************************************)
EXTENDS TabletSearch, TabletTableProofs

\* The loop invariant holds before the first probe of FindTabletIndex.
LEMMA SearchInitInv == SearchInit => SearchInv
  BY TablesAssumption DEF SearchInit, SearchInv

\* Mid lies in the interval that is left and both branches of the loop keep
\* the invariant: sortedness carries the probe's outcome over to every tablet
\* on its side.
LEMMA SearchNextInv == SearchInv /\ [SearchNext]_searchVars => SearchInv'
<1> SUFFICES ASSUME SearchInv, [SearchNext]_searchVars PROVE SearchInv'
  OBVIOUS
<1> USE DEF SearchInv
<1>1. CASE Halve
  <2>1. /\ Mid \in Int /\ left <= Mid /\ Mid < right
        /\ Mid + 1 \in 1..Len(table)
        /\ left \in Nat /\ right \in Nat /\ Len(table) \in Nat /\ key \in Int
        /\ table' = table /\ key' = key /\ answer' = answer
    BY <1>1 DEF Halve, Mid, Key
  <2>2. \A i \in DOMAIN table : /\ table[i].start_key \in Nat
                                /\ table[i].end_key \in Nat
    BY TabletFields
  <2>3. \A i, j \in DOMAIN table : i < j => table[i].start_key < table[j].start_key
    BY <2>2 DEF NonEmptyRanges, Ordered, Empty
  <2>4. DOMAIN table = 1..Len(table)
    OBVIOUS
  <2>5. CASE table[Mid + 1].start_key <= key
    <3>1. left' = Mid + 1 /\ right' = right
      BY <1>1, <2>5 DEF Halve, StartsAtOrBefore, AfterProbe
    <3>2. \A i \in 1..(Mid + 1) : table[i].start_key <= key
      <4> SUFFICES ASSUME NEW i \in 1..(Mid + 1) PROVE table[i].start_key <= key
        OBVIOUS
      <4>1. i \in DOMAIN table /\ Mid + 1 \in DOMAIN table /\ (i < Mid + 1 \/ i = Mid + 1)
        BY <2>1, <2>4
      <4> QED
        BY ONLY <2>1, <2>2, <2>3, <2>5, <4>1
    <3> QED
      BY <2>1, <3>1, <3>2
  <2>6. CASE ~(table[Mid + 1].start_key <= key)
    <3>1. right' = Mid /\ left' = left
      BY <1>1, <2>6 DEF Halve, StartsAtOrBefore
    <3>2. \A i \in (Mid + 1)..Len(table) : table[i].start_key > key
      <4> SUFFICES ASSUME NEW i \in (Mid + 1)..Len(table) PROVE table[i].start_key > key
        OBVIOUS
      <4>1. i \in DOMAIN table /\ Mid + 1 \in DOMAIN table /\ (Mid + 1 < i \/ i = Mid + 1)
        BY <2>1, <2>4
      <4> QED
        BY ONLY <2>1, <2>2, <2>3, <2>6, <4>1
    <3> QED
      BY <2>1, <3>1, <3>2
  <2> QED
    BY <2>5, <2>6
<1>2. CASE Return
  BY <1>2 DEF Return
<1>3. CASE UNCHANGED searchVars
  BY <1>3 DEF searchVars
<1> QED
  BY <1>1, <1>2, <1>3 DEF SearchNext

\* When the loop ends the last tablet that starts at or below the key is
\* tablet left; the end check decides between it and no route at all.
LEMMA SearchNextCorrect ==
    SearchInv /\ SearchCorrect /\ [SearchNext]_searchVars => SearchCorrect'
<1> SUFFICES ASSUME SearchInv, SearchCorrect, [SearchNext]_searchVars
             PROVE  SearchCorrect'
  OBVIOUS
<1>1. CASE Halve
  BY <1>1 DEF Halve, SearchCorrect
<1>2. CASE Return
  <2>1. /\ left = right /\ left \in 0..Len(table) /\ key \in Nat
        /\ table' = table /\ key' = key
        /\ DOMAIN table = 1..Len(table) /\ Len(table) \in Nat
    BY <1>2 DEF Return, SearchInv, Key
  <2>2. \A i \in DOMAIN table : /\ table[i].start_key \in Nat
                                /\ table[i].end_key \in Nat
    BY TabletFields DEF SearchInv
  <2>3. \A i \in DOMAIN table : i <= left <=> table[i].start_key <= key
    BY <2>1, <2>2 DEF SearchInv
  <2>4. \A i \in DOMAIN table : i < left => ~InRange(key, table[i].start_key, table[i].end_key)
    <3> SUFFICES ASSUME NEW i \in DOMAIN table, i < left
                 PROVE  ~InRange(key, table[i].start_key, table[i].end_key)
      OBVIOUS
    <3>1. left \in DOMAIN table /\ table[left].start_key <= key
      BY <2>1, <2>3
    <3>2. table[i].end_key # Empty /\ table[i].end_key <= table[left].start_key
      BY <3>1 DEF SearchInv, Ordered
    <3> QED
      BY <2>1, <2>2, <3>1, <3>2 DEF InRange
  <2>5. \A i \in DOMAIN table : i > left => ~InRange(key, table[i].start_key, table[i].end_key)
    BY <2>1, <2>3 DEF InRange
  <2>6. CASE left = 0
    BY <1>2, <2>1, <2>5, <2>6 DEF Return, SearchCorrect
  <2>7. CASE left # 0
    <3>1. left \in DOMAIN table /\ table[left].start_key <= key
      BY <2>1, <2>3, <2>7
    <3>2. answer' = IF InRange(key, table[left].start_key, table[left].end_key)
                    THEN left ELSE 0
      BY <1>2, <2>1, <2>2, <2>7, <3>1 DEF Return, NotBelowEndOf, InRange
    <3> QED
      BY <2>1, <2>4, <2>5, <2>7, <3>1, <3>2 DEF SearchCorrect
  <2> QED
    BY <2>6, <2>7
<1>3. CASE UNCHANGED searchVars
  BY <1>3 DEF searchVars, SearchCorrect
<1> QED
  BY <1>1, <1>2, <1>3 DEF SearchNext

\* The loop invariant of the binary search: every start_key left of the
\* interval is at most the key, every one right of it is above.
THEOREM SearchInvAlways == SearchSpec => []SearchInv
  BY SearchInitInv, SearchNextInv, PTL DEF SearchSpec

\* FindTabletIndex, GetTabletRoute and FindRoute return the one tablet that
\* contains the key and report no route only if there is none, for every
\* ordered table and every key.
THEOREM SearchIsCorrect == SearchSpec => []SearchCorrect
<1>1. SearchInit => SearchCorrect
  BY DEF SearchInit, SearchCorrect
<1> QED
  BY <1>1, SearchInitInv, SearchNextInv, SearchNextCorrect, PTL DEF SearchSpec

\* Every probe of the loop is inside the vector and shrinks the interval,
\* whichever way it goes, so the loop makes at most Len(table) probes.
THEOREM ProbesShrinkAlways == SearchSpec => []ProbesShrink
<1>1. SearchInv => ProbesShrink
  <2> SUFFICES ASSUME SearchInv, left < right
               PROVE  /\ Mid \in 0..(Len(table) - 1)
                      /\ right - AfterProbe \in 0..(right - left - 1)
                      /\ Mid - left \in 0..(right - left - 1)
    BY DEF ProbesShrink
  <2>1. /\ Len(table) \in Nat /\ left \in Nat /\ right \in Nat
        /\ left < right /\ right <= Len(table)
    BY DEF SearchInv
  <2>2. Mid \in Int /\ left <= Mid /\ Mid < right
    BY <2>1 DEF Mid
  <2> QED
    BY <2>1, <2>2 DEF AfterProbe
<1> QED
  BY <1>1, SearchInitInv, SearchNextInv, PTL DEF SearchSpec
=============================================================================
