--------------------------- MODULE SignalBusProofs ----------------------------
(***************************************************************************)
(* Theorems about SignalBus for every catalogue, every debounce window and *)
(* every order in which events and their timestamps arrive.                *)
(***************************************************************************)
EXTENDS SignalBus, WellFoundedInduction, TLAPS

\* A set of naturals has a least element: the dictionary has a first match.
LEMMA HasLeast ==
    ASSUME NEW S \in SUBSET Nat, S # {}
    PROVE  \E m \in S : \A k \in S : m <= k
  <1> DEFINE R == {ss \in Nat \X Nat : ss[1] < ss[2]}
  <1>1. IsWellFoundedOn(R, Nat)
    BY NatLessThanWellFounded DEF OpToRel
  <1> HIDE DEF R
  <1>2. PICK m \in S : \A k \in S : ~(<<k, m>> \in R)
    BY <1>1, WFMin
  <1>3. ASSUME NEW k \in S PROVE m <= k
    <2>1. <<k, m>> \in Nat \X Nat /\ <<k, m>>[1] = k /\ <<k, m>>[2] = m
      OBVIOUS
    <2>2. ~(k < m)
      BY <1>2, <2>1 DEF R
    <2> QED
      BY <2>2
  <1> QED
    BY <1>3

\* The signal a shock is made of is in the catalogue.
LEMMA FirstMatches ==
    ASSUME NEW e, Matching(e) # {}
    PROVE  First(e) \in 1 .. Len(Catalogue)
  <1>1. Matching(e) \in SUBSET (1 .. Len(Catalogue))
    BY DEF Matching, match_signals_to_nodes
  <1>2. Matching(e) \in SUBSET Nat
    BY <1>1
  <1>3. \E m \in Matching(e) : \A k \in Matching(e) : m <= k
    BY <1>2, HasLeast
  <1>4. First(e) \in Matching(e)
    BY <1>3 DEF First
  <1> QED
    BY <1>1, <1>4

\* Whatever severity a request gives, a shock's magnitude is at most 1.
LEMMA MagnitudeIsCapped ==
    ASSUME NEW e \in Event, NEW i \in 1 .. Len(Catalogue)
    PROVE  Magnitude(e, Catalogue[i]) \in Int /\ Magnitude(e, Catalogue[i]) <= Scale
  <1> DEFINE m == Catalogue[i].magnitude
             q == Catalogue[i].quality
             x == Strength(e, Catalogue[i])
  <1>1. m \in Int /\ q \in Int /\ Scale \in Nat /\ Scale > 0
    BY BusAssumption, ScaleAssumption DEF Level
  <1>2. e.severity \in Severities \cup {NoSeverity}
    BY DEF Event
  <1>3. x \in Int
    BY <1>1, <1>2, BusAssumption DEF Strength
  <1> HIDE DEF m, q, x
  <1>4. m * x \in Int
    BY <1>1, <1>3
  <1>5. m * x * q \in Int /\ Scale * Scale \in Nat /\ Scale * Scale > 0
    BY <1>1, <1>4
  <1>6. (m * x * q) \div (Scale * Scale) \in Int
    BY <1>5
  <1>7. Magnitude(e, Catalogue[i]) = Least(Scale, (m * x * q) \div (Scale * Scale))
    BY DEF Magnitude, m, q, x
  <1> QED
    BY <1>1, <1>6, <1>7 DEF Least

-------------------------------------------------------------------------------
(***************************************************************************)
(* The invariant.  What the bus remembers of a key is at least as late as  *)
(* every shock the current run has made of it, and a batch has grown by    *)
(* one shock at a time.                                                    *)
(***************************************************************************)

Entry == [call : Nat, type : Types, id : EventIds \cup {NoId}, at : Hours, class : Classes]

LogOK ==
    /\ accepted \in Seq(Entry)
    /\ \A i \in 1 .. Len(accepted) : accepted[i].call <= calls

MemoryOK ==
    /\ DOMAIN memory \subseteq Keys
    /\ \A k \in DOMAIN memory : memory[k] \in Hours

BatchOK ==
    /\ batch.structural \in BOOLEAN /\ batch.drift \in Int /\ batch.drift <= Scale /\ batch.major \in BOOLEAN
    /\ batch.macro \in Int /\ batch.macro <= Len(accepted) * Scale
    /\ batch.minor \in 0 .. Len(accepted)
    /\ batch = [structural |-> batch.structural, drift |-> batch.drift,
                macro |-> batch.macro, major |-> batch.major, minor |-> batch.minor]

Remembers ==
    \A i \in 1 .. Len(accepted) :
        accepted[i].call = calls /\ accepted[i].id # NoId =>
            LET k == <<accepted[i].type, accepted[i].id>> IN
            /\ k \in DOMAIN memory
            /\ Window[accepted[i].type] > 0 => accepted[i].at <= memory[k]

BusInv ==
    /\ calls \in 0 .. MaxCalls /\ Len(accepted) <= MaxEvents
    /\ LogOK /\ MemoryOK /\ BatchOK /\ Remembers /\ DebouncedWithinRun

\* Runs and hours of the log are numbers.
LEMMA LogTyped ==
    ASSUME accepted \in Seq(Entry), NEW i \in 1 .. Len(accepted)
    PROVE  accepted[i].call \in Nat /\ accepted[i].at \in Int
  <1>1. accepted[i] \in Entry
    OBVIOUS
  <1>2. \A h \in Hours : h \in Int
    BY BusAssumption DEF Hours
  <1> QED
    BY <1>1, <1>2 DEF Entry

LEMMA BusInit == Init => BusInv
  BY BusAssumption, ScaleAssumption
     DEF Init, BusInv, LogOK, MemoryOK, BatchOK, Remembers, DebouncedWithinRun, NoShock, Level

\* A new request starts with an empty memory: nothing was accepted in its run yet.
LEMMA BusRequest ==
    ASSUME BusInv, ingest_signals
    PROVE  BusInv'
  <1> USE BusAssumption, ScaleAssumption DEF BusInv
  <1>1. calls' = calls + 1 /\ calls' \in 0 .. MaxCalls /\ accepted' = accepted
    BY DEF ingest_signals
  <1>2. LogOK' /\ \A i \in 1 .. Len(accepted) : accepted[i].call # calls'
    <2>1. accepted \in Seq(Entry) /\ calls \in Nat
          /\ \A i \in 1 .. Len(accepted) : accepted[i].call <= calls
      BY DEF LogOK
    <2>2. \A i \in 1 .. Len(accepted) : accepted[i].call < calls + 1
      BY <2>1, LogTyped
    <2>3. \A i \in 1 .. Len(accepted) :
              accepted[i].call <= calls + 1 /\ accepted[i].call # calls + 1
      BY <2>1, <2>2, LogTyped
    <2> QED
      BY <1>1, <2>1, <2>3 DEF LogOK
  <1>3. MemoryOK'
    BY DEF ingest_signals, MemoryOK
  <1>4. BatchOK'
    <2>1. Len(accepted) \in Nat /\ Len(accepted) * Scale >= 0
      BY DEF LogOK
    <2> QED
      BY <1>1, <2>1 DEF ingest_signals, BatchOK, NoShock, Level
  <1>5. Remembers' /\ DebouncedWithinRun'
    BY <1>1, <1>2 DEF Remembers, DebouncedWithinRun, SameSource
  <1> QED
    BY <1>1, <1>2, <1>3, <1>4, <1>5

\* The classification of one more shock.
LEMMA BatchGrows ==
    ASSUME BatchOK, NEW class \in Classes, NEW m \in Int, m <= Scale, Len(accepted) \in Nat,
           batch' = Classified(class, m), Len(accepted') = Len(accepted) + 1
    PROVE  BatchOK'
  <1> DEFINE n == Len(accepted)
  <1>1. Scale \in Nat /\ m \in Int /\ m <= Scale /\ n \in Nat
    BY ScaleAssumption DEF Level
  <1>2. (n + 1) * Scale = n * Scale + Scale /\ n * Scale \in Nat
    BY <1>1
  <1> HIDE DEF n
  <1>3. batch' \in {batch, [batch EXCEPT !.major = TRUE], [batch EXCEPT !.minor = @ + 1],
                    [batch EXCEPT !.macro = @ + m], [batch EXCEPT !.structural = TRUE],
                    [batch EXCEPT !.drift = m]}
    BY DEF Classified, Classes
  <1>4. /\ batch'.structural \in BOOLEAN /\ batch'.drift \in {batch.drift, m} /\ batch'.major \in BOOLEAN
        /\ batch' = [structural |-> batch'.structural, drift |-> batch'.drift,
                     macro |-> batch'.macro, major |-> batch'.major, minor |-> batch'.minor]
    BY <1>3 DEF BatchOK
  <1>5. /\ batch'.macro \in {batch.macro, batch.macro + m}
        /\ batch'.minor \in {batch.minor, batch.minor + 1}
    BY <1>3 DEF BatchOK
  <1>6. /\ batch'.macro \in Int /\ batch'.macro <= (n + 1) * Scale
        /\ batch'.drift \in Int /\ batch'.drift <= Scale
    BY <1>1, <1>2, <1>4, <1>5 DEF BatchOK, n
  <1>7. batch'.minor \in 0 .. n + 1
    BY <1>1, <1>5 DEF BatchOK, n
  <1> QED
    BY <1>4, <1>6, <1>7 DEF BatchOK, n

\* A shock that passes the debounce is late enough for every earlier one of its key.
LEMMA BusEvent ==
    ASSUME BusInv, NEW e \in Event, process_event(e)
    PROVE  BusInv'
  <1> DEFINE key == <<e.type, e.id>>
             entry == [call |-> calls, type |-> e.type, id |-> e.id, at |-> e.at,
                       class |-> Catalogue[First(e)].class]
  <1>1. First(e) \in 1 .. Len(Catalogue)
    BY FirstMatches DEF process_event
  <1>2. Catalogue[First(e)].class \in Classes
    BY <1>1, BusAssumption
  <1>3. /\ e.type \in Types /\ e.id \in EventIds \cup {NoId} /\ e.at \in Hours
        /\ calls \in Nat /\ MaxHour \in Nat /\ Window \in [Types -> Nat] /\ MaxEvents \in Nat
    BY BusAssumption DEF Event, BusInv
  <1>4. entry \in Entry
    BY <1>2, <1>3 DEF Entry
  <1>5. /\ accepted' = Append(accepted, entry) /\ calls' = calls
        /\ Len(accepted) < MaxEvents /\ memory' = Remembered(e) /\ debounce_signal(e)
        /\ batch' = Classified(entry.class, Magnitude(e, Catalogue[First(e)]))
    BY DEF process_event, Room
  <1>6. accepted \in Seq(Entry) /\ Len(accepted) \in Nat
    BY DEF BusInv, LogOK
  <1> HIDE DEF entry
  <1>7. /\ accepted' \in Seq(Entry) /\ Len(accepted') = Len(accepted) + 1
        /\ accepted'[Len(accepted) + 1] = entry
        /\ \A i \in 1 .. Len(accepted) : accepted'[i] = accepted[i]
        /\ \A i \in 1 .. Len(accepted') : i \in 1 .. Len(accepted) \/ i = Len(accepted) + 1
    BY <1>4, <1>5, <1>6
  <1>8. LogOK'
    BY <1>3, <1>5, <1>7 DEF LogOK, BusInv, entry
  <1>9. BatchOK'
    BY <1>1, <1>2, <1>5, <1>6, <1>7, MagnitudeIsCapped, BatchGrows DEF BusInv, entry
  <1>10. /\ e.id = NoId => memory' = memory
         /\ e.id # NoId =>
               /\ DOMAIN memory' = DOMAIN memory \cup {key}
               /\ memory'[key] = e.at
               /\ \A k \in DOMAIN memory \ {key} : memory'[k] = memory[k]
    BY <1>5 DEF Remembered
  <1>11. MemoryOK'
    BY <1>3, <1>10 DEF MemoryOK, BusInv, Keys
  <1>12. ASSUME NEW i \in 1 .. Len(accepted), accepted[i].call = calls,
                SameSource(accepted[i], entry)
         PROVE  e.at - accepted[i].at >= Window[accepted[i].type]
    <2>1. /\ accepted[i].type = e.type /\ accepted[i].id = e.id /\ e.id # NoId
          /\ Window[e.type] > 0
      BY <1>12 DEF SameSource, entry
    <2>2. key \in DOMAIN memory /\ accepted[i].at <= memory[key]
      BY <1>12, <2>1 DEF BusInv, Remembers
    <2>3. e.at - memory[key] >= Window[e.type]
      BY <1>5, <2>1, <2>2, <1>3 DEF debounce_signal
    <2>4. accepted[i].at \in Int /\ memory[key] \in Int /\ e.at \in Int /\ Window[e.type] \in Int
      BY <1>3, <1>6, <2>2, LogTyped DEF Hours, MemoryOK, BusInv
    <2> QED
      BY <2>1, <2>2, <2>3, <2>4
  <1>13. Remembers'
    <2> SUFFICES ASSUME NEW i \in 1 .. Len(accepted'),
                        accepted'[i].call = calls, accepted'[i].id # NoId
                 PROVE  LET k == <<accepted'[i].type, accepted'[i].id>> IN
                        /\ k \in DOMAIN memory'
                        /\ Window[accepted'[i].type] > 0 => accepted'[i].at <= memory'[k]
      BY <1>5 DEF Remembers
    <2>1. CASE i = Len(accepted) + 1
      <3>1. accepted'[i].type = e.type /\ accepted'[i].id = e.id /\ accepted'[i].at = e.at
        BY <1>7, <2>1 DEF entry
      <3>2. e.id # NoId
        BY <3>1
      <3>3. key \in DOMAIN memory' /\ memory'[key] = e.at
        BY <1>10, <3>2
      <3>4. e.at <= e.at
        BY <1>3 DEF Hours
      <3> QED
        BY <3>1, <3>3, <3>4
    <2>2. CASE i \in 1 .. Len(accepted)
      <3> DEFINE k == <<accepted[i].type, accepted[i].id>>
      <3>1. accepted'[i] = accepted[i]
        BY <1>7, <2>2
      <3>2. k \in DOMAIN memory /\ (Window[accepted[i].type] > 0 => accepted[i].at <= memory[k])
        BY <2>2, <3>1 DEF BusInv, Remembers
      <3>3. CASE e.id # NoId /\ k = key
        <4>1. accepted[i].type = e.type /\ accepted[i].id = e.id
          BY <3>3
        <4>2. Window[e.type] > 0 => SameSource(accepted[i], entry)
          BY <3>3, <4>1 DEF SameSource, entry
        <4>3. Window[e.type] > 0 => e.at - accepted[i].at >= Window[e.type]
          BY <1>12, <2>2, <3>1, <4>1, <4>2
        <4>4. accepted[i].at \in Int /\ e.at \in Int /\ Window[e.type] \in Int
          BY <1>3, <1>6, <2>2, LogTyped DEF Hours
        <4>5. Window[e.type] > 0 => accepted[i].at <= e.at
          BY <4>3, <4>4
        <4> QED
          BY <1>10, <3>1, <3>3, <4>1, <4>5
      <3>4. CASE e.id = NoId \/ k # key
        <4>1. k \in DOMAIN memory' /\ memory'[k] = memory[k]
          BY <1>10, <3>2, <3>4
        <4> QED
          BY <3>1, <3>2, <4>1
      <3> QED
        BY <3>3, <3>4
    <2> QED
      BY <1>7, <2>1, <2>2
  <1>14. DebouncedWithinRun'
    <2> SUFFICES ASSUME NEW i \in 1 .. Len(accepted'), NEW j \in 1 .. Len(accepted'), i < j,
                        accepted'[i].call = accepted'[j].call,
                        SameSource(accepted'[i], accepted'[j])
                 PROVE  accepted'[j].at - accepted'[i].at >= Window[accepted'[i].type]
      BY DEF DebouncedWithinRun, SameSource
    <2>1. i \in 1 .. Len(accepted) /\ accepted'[i] = accepted[i]
      BY <1>6, <1>7
    <2>2. CASE j \in 1 .. Len(accepted)
      BY <1>7, <2>1, <2>2 DEF BusInv, DebouncedWithinRun
    <2>3. CASE j = Len(accepted) + 1
      <3>1. accepted'[j] = entry /\ entry.call = calls /\ entry.at = e.at
        BY <1>7, <2>3 DEF entry
      <3> QED
        BY <1>12, <2>1, <3>1
    <2> QED
      BY <1>7, <2>2, <2>3
  <1> QED
    BY <1>3, <1>5, <1>6, <1>7, <1>8, <1>9, <1>11, <1>13, <1>14 DEF BusInv

LEMMA BusInvariant == Spec => []BusInv
  <1>1. BusInv /\ UNCHANGED vars => BusInv'
    BY DEF vars, BusInv, LogOK, MemoryOK, BatchOK, Remembers, DebouncedWithinRun, SameSource
  <1>2. BusInv /\ [Next]_vars => BusInv'
    BY <1>1, BusRequest, BusEvent DEF Next
  <1> QED
    BY <1>2, BusInit, PTL DEF Spec

\* For every catalogue and any severities, negative ones too, a batch that reaches the
\* engine has a drift of at most 1 and sums that the number of shocks bounds from above.
THEOREM BusTyped == Spec => []TypeOK
  <1>1. BusInv => TypeOK
    <2> SUFFICES ASSUME BusInv PROVE TypeOK
      OBVIOUS
    <2>1. Len(accepted) \in Nat /\ MaxEvents \in Nat /\ Scale \in Nat
          /\ Len(accepted) <= MaxEvents
      BY BusAssumption, ScaleAssumption DEF BusInv, LogOK
    <2>2. Len(accepted) * Scale <= MaxEvents * Scale
      BY <2>1
    <2>3. /\ batch.macro \in Int /\ batch.macro <= MaxEvents * Scale
          /\ batch.minor \in 0 .. MaxEvents
      <3> DEFINE x == Len(accepted) * Scale  y == MaxEvents * Scale
      <3>1. x \in Int /\ y \in Int /\ x <= y
        BY <2>1, <2>2
      <3>2. batch.macro \in Int /\ batch.macro <= x
        BY DEF BusInv, BatchOK
      <3> HIDE DEF x
      <3>3. batch.macro <= y
        BY <3>1, <3>2
      <3> QED
        BY <3>2, <3>3, <2>1 DEF BusInv, BatchOK
    <2>4. batch \in [structural : BOOLEAN, drift : Int, macro : Int,
                     major : BOOLEAN, minor : 0 .. MaxEvents]
      BY <2>3 DEF BusInv, BatchOK
    <2>5. batch.drift <= Scale
      BY DEF BusInv, BatchOK
    <2> QED
      BY <2>1, <2>3, <2>4, <2>5 DEF TypeOK, BusInv, MemoryOK
  <1> QED
    BY <1>1, BusInvariant, PTL

\* For every debounce window and every order of arrival, two shocks of one pipeline
\* run with the same type and id keep the window (debounce_signal).
THEOREM RunIsDebounced == Spec => []DebouncedWithinRun
  <1>1. BusInv => DebouncedWithinRun
    BY DEF BusInv
  <1> QED
    BY <1>1, BusInvariant, PTL
===============================================================================
