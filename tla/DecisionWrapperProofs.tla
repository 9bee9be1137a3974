------------------------- MODULE DecisionWrapperProofs -------------------------
(***************************************************************************)
(* The cost_config table, for any number of request slots, rows and nodes, *)
(* and the reports that read it beside any number of overlapping writers.  *)
(***************************************************************************)
EXTENDS DecisionWrapper, TLAPS

\* While a request of a slot is under way, it covers every row that slot committed
\* before: those were there when its UPDATE started.
OwnRowsSeen ==
    \A s \in Sessions : phase[s] # "idle" =>
        \A c \in Configs : author[c] = s => c \in seen[s]

StoreInv == TypeOK /\ NeverUnconfigured /\ OwnRowsSeen /\ OneActivePerSession

LEMMA StoreInit == Init => StoreInv
  BY StoreAssumption
     DEF Init, StoreInv, TypeOK, NeverUnconfigured, OwnRowsSeen, OneActivePerSession, Rows

\* Every step keeps the invariant (set_cost_config, create_node, admin_reset).
LEMMA StoreStep == StoreInv /\ [Next]_vars => StoreInv'
<1> SUFFICES ASSUME StoreInv, [Next]_vars PROVE StoreInv'
  OBVIOUS
<1> USE StoreAssumption DEF StoreInv, TypeOK, NeverUnconfigured, OwnRowsSeen,
                            OneActivePerSession, Rows
<1>1. ASSUME NEW s \in Sessions, set_cost_config(s) PROVE StoreInv'
  BY <1>1 DEF set_cost_config
<1>2. ASSUME NEW s \in Sessions, UpdateRows(s) PROVE StoreInv'
  BY <1>2 DEF UpdateRows
<1>3. ASSUME NEW s \in Sessions, Rollback(s) PROVE StoreInv'
  BY <1>3 DEF Rollback
<1>4. ASSUME NEW s \in Sessions, NEW c \in Configs, CommitConfig(s, c) PROVE StoreInv'
  <2>1. TypeOK' /\ NeverUnconfigured'
    BY <1>4 DEF CommitConfig
  <2>2. OwnRowsSeen'
    BY <1>4 DEF CommitConfig
  <2>3. \A d \in active \ seen[s] : author[d] # s
    BY <1>4 DEF CommitConfig
  <2>4. OneActivePerSession'
    BY <1>4, <2>3 DEF CommitConfig
  <2> QED
    BY <2>1, <2>2, <2>4
<1>5. ASSUME NEW n \in Nodes, create_node(n) PROVE StoreInv'
  <2>1. PICK c \in Rows \cup ActiveRow : pin' = [pin EXCEPT ![n] = c]
    BY <1>5 DEF create_node
  <2>2. c \in Rows \cup {NoConfig}
    BY <2>1 DEF ActiveRow
  <2>3. /\ UNCHANGED <<author, active, phase, seen, resets>>
        /\ demo' \in {demo, demo \cup {n}}
    BY <1>5 DEF create_node
  <2>4. TypeOK'
    <3>1. pin' \in [Nodes -> Rows \cup {NoConfig, Absent}]
      BY <2>1, <2>2
    <3> QED
      BY <2>3, <3>1
  <2> QED
    BY <2>3, <2>4
<1>6. CASE admin_reset
  BY <1>6 DEF admin_reset
<1>7. CASE UNCHANGED vars
  BY <1>7 DEF vars
<1> QED
  BY <1>1, <1>2, <1>3, <1>4, <1>5, <1>6, <1>7 DEF Next

LEMMA StoreInvariant == Spec => []StoreInv
  BY StoreInit, StoreStep, PTL DEF Spec

\* Rows, requests and pins keep their types: only committed rows are active, and a
\* node is pinned to a committed row or to none.
THEOREM StoreTyped == Spec => []TypeOK
<1>1. StoreInv => TypeOK
  BY DEF StoreInv
<1> QED
  BY <1>1, StoreInvariant, PTL

\* However many set_cost_config requests overlap or die, each request slot leaves at
\* most one active row; with one slot the active configuration is unique.
THEOREM OneActive == Spec => []OneActivePerSession
<1>1. StoreInv => OneActivePerSession
  BY DEF StoreInv
<1> QED
  BY <1>1, StoreInvariant, PTL

\* After the first committed configuration no run uses the built-in defaults of
\* get_active_cost_config.
THEOREM DefaultsAreInitial == Spec => []DefaultsOnlyBeforeFirst
<1>1. StoreInv => DefaultsOnlyBeforeFirst
  BY StoreAssumption DEF StoreInv, TypeOK, NeverUnconfigured, DefaultsOnlyBeforeFirst,
     get_cost_config_for_node, ActiveRow, Rows
<1> QED
  BY <1>1, StoreInvariant, PTL

-------------------------------------------------------------------------------
(***************************************************************************)
(* The wrapper: rows, what writers hold, readings and reports.             *)
(***************************************************************************)
Item == [node : Nodes, seen : [vector : Vectors, status : 0 .. 2],
         vector : Vectors, status : 0 .. 2, resolves : BOOLEAN]

WrapperTypeOK ==
    /\ vector \in [Nodes -> Vectors] /\ standing \in [Nodes -> 0 .. 2]
    /\ patched \subseteq Nodes
    /\ work \in [Writers -> SUBSET Item]
    /\ reading \subseteq [node : Nodes, vector : Vectors, status : 0 .. 2, patched : BOOLEAN]

\* v and s are the row of n, as it is, as it was read or as it is to be written: unless
\* excused, the status covers what the node's own configuration suggests for the vector.
CoveredBy(n, v, s, excused) == pin[n] \in Accepted /\ ~excused => Suggest[pin[n]][v] <= s

\* A node gets its configuration when it is created, with a healthy vector.
RowsCovered ==
    \A n \in Nodes : /\ CoveredBy(n, vector[n], standing[n], n \in patched)
                     /\ pin[n] = Absent => vector[n] = Perfect

\* What a run or a recertification is about to write is consistent in itself.
WorkCovered ==
    \A w \in Writers : \A t \in work[w] :
        /\ pin[t.node] # Absent
        /\ CoveredBy(t.node, t.vector, t.status, t.resolves)

ReadingsCovered ==
    \A r \in reading : /\ pin[r.node] # Absent
                       /\ CoveredBy(r.node, r.vector, r.status, r.patched)

ReportsCovered ==
    \A r \in report : /\ r.node \in Nodes /\ pin[r.node] # Absent
                      /\ pin[r.node] # NoConfig /\ ~r.patched => Covers(r)

WrapperInv == /\ StoreInv /\ WrapperTypeOK /\ RowsCovered /\ WorkCovered
              /\ ReadingsCovered /\ ReportsCovered

LEMMA SuggestType ==
    ASSUME NEW c \in Configs \cup {NoConfig}, NEW v \in Vectors
    PROVE  Suggest[c][v] \in 0 .. 2
  BY WrapperAssumption

LEMMA PinType == StoreInv => pin \in [Nodes -> Configs \cup {NoConfig, Absent}]
  BY DEF StoreInv, TypeOK, Rows

LEMMA WrapperInitInv == WrapperInit => WrapperInv
<1> SUFFICES ASSUME WrapperInit PROVE WrapperInv
  OBVIOUS
<1>1. StoreInv
  BY StoreInit DEF WrapperInit
<1>2. WrapperTypeOK /\ WorkCovered /\ ReadingsCovered /\ ReportsCovered
  BY WrapperAssumption
     DEF WrapperInit, WrapperTypeOK, WorkCovered, ReadingsCovered, ReportsCovered
<1>3. \A n \in Nodes : pin[n] = Absent /\ vector[n] = Perfect
  BY DEF WrapperInit, Init
<1>4. Absent \notin Accepted
  BY StoreAssumption, WrapperAssumption
<1> QED
  BY <1>1, <1>2, <1>3, <1>4 DEF WrapperInv, RowsCovered, CoveredBy

\* The table of configurations: the pin of a node is set once.
LEMMA StorePart ==
    ASSUME WrapperInv, Next, UNCHANGED <<nodeVars, work, reading, report>>
    PROVE  WrapperInv'
<1>1. StoreInv'
  BY StoreStep DEF WrapperInv
<1>2. \A n \in Nodes : pin[n] # Absent => pin'[n] = pin[n]
  BY PinType DEF Next, set_cost_config, UpdateRows, Rollback, CommitConfig, create_node,
     admin_reset, WrapperInv
<1>3. RowsCovered'
  <2> SUFFICES ASSUME NEW n \in Nodes
               PROVE  /\ CoveredBy(n, vector[n], standing[n], n \in patched)'
                      /\ pin'[n] = Absent => vector[n] = Perfect
    BY DEF RowsCovered, nodeVars
  <2>1. CASE pin[n] # Absent
    <3>1. pin'[n] = pin[n]
      BY <1>2, <2>1
    <3> QED
      BY <2>1, <3>1 DEF WrapperInv, RowsCovered, CoveredBy, nodeVars
  <2>2. CASE pin[n] = Absent
    <3>1. vector[n] = Perfect /\ standing[n] \in 0 .. 2
      BY <2>2 DEF WrapperInv, RowsCovered, WrapperTypeOK
    <3>2. pin'[n] \in Accepted => Suggest[pin'[n]][Perfect] = 0
      BY WrapperAssumption
    <3> QED
      BY <3>1, <3>2 DEF CoveredBy, nodeVars
  <2> QED
    BY <2>1, <2>2
<1>4. WorkCovered'
  <2> SUFFICES ASSUME NEW w \in Writers, NEW t \in work[w]
               PROVE  /\ pin'[t.node] # Absent
                      /\ CoveredBy(t.node, t.vector, t.status, t.resolves)'
    BY DEF WorkCovered
  <2>1. t.node \in Nodes /\ pin[t.node] # Absent
    BY DEF WrapperInv, WrapperTypeOK, WorkCovered, Item
  <2>2. pin'[t.node] = pin[t.node]
    BY <1>2, <2>1
  <2> QED
    BY <2>1, <2>2 DEF WrapperInv, WorkCovered, CoveredBy
<1>5. ReadingsCovered'
  <2> SUFFICES ASSUME NEW r \in reading
               PROVE  /\ pin'[r.node] # Absent
                      /\ CoveredBy(r.node, r.vector, r.status, r.patched)'
    BY DEF ReadingsCovered
  <2>1. r.node \in Nodes /\ pin[r.node] # Absent
    BY DEF WrapperInv, WrapperTypeOK, ReadingsCovered
  <2>2. pin'[r.node] = pin[r.node]
    BY <1>2, <2>1
  <2> QED
    BY <2>1, <2>2 DEF WrapperInv, ReadingsCovered, CoveredBy
<1>6. ReportsCovered'
  BY <1>2 DEF WrapperInv, ReportsCovered, Covers
<1> QED
  BY <1>1, <1>3, <1>4, <1>5, <1>6 DEF WrapperInv, WrapperTypeOK, nodeVars

\* A request that reads a row and changes nothing yet.
LEMMA BeginPart ==
    ASSUME WrapperInv, NEW w \in Writers, NEW n \in Nodes,
           NEW v \in Vectors, NEW s \in 0 .. 2, NEW resolves \in BOOLEAN,
           Begin(w, n, v, s, resolves), CoveredBy(n, v, s, resolves)
    PROVE  WrapperInv'
<1> USE DEF WrapperInv
<1> DEFINE item == [node |-> n, seen |-> [vector |-> vector[n], status |-> standing[n]],
                    vector |-> v, status |-> s, resolves |-> resolves]
<1>1. StoreInv'
  BY StoreStep DEF Begin, vars
<1>2. /\ UNCHANGED <<pin, author, vector, standing, patched, reading, report>>
      /\ pin[n] # Absent
      /\ work' = [work EXCEPT ![w] = {item}]
  BY DEF Begin, vars, nodeVars
<1>3. item \in Item
  BY DEF WrapperTypeOK, Item
<1>4. WrapperTypeOK'
  BY <1>2, <1>3 DEF WrapperTypeOK
<1>5. item.node = n /\ item.vector = v /\ item.status = s /\ item.resolves = resolves
  BY Zenon
<1>6. WorkCovered'
  <2> HIDE DEF item
  <2> SUFFICES ASSUME NEW x \in Writers, NEW t \in work'[x]
               PROVE  pin[t.node] # Absent /\ CoveredBy(t.node, t.vector, t.status, t.resolves)
    BY <1>2 DEF WorkCovered, CoveredBy
  <2>1. CASE x = w
    BY <1>2, <1>5, <2>1 DEF WrapperTypeOK
  <2>2. CASE x # w
    BY <1>2, <2>2 DEF WrapperTypeOK, WorkCovered
  <2> QED
    BY <2>1, <2>2
<1>7. RowsCovered' /\ ReadingsCovered' /\ ReportsCovered'
  BY <1>2 DEF RowsCovered, ReadingsCovered, ReportsCovered, CoveredBy, Covers
<1> QED
  BY <1>1, <1>4, <1>6, <1>7

\* The three requests that write a row, up to their commit.
LEMMA RequestPart ==
    ASSUME WrapperInv, NEW w \in Writers, NEW n \in Nodes,
           \/ process_node_lifecycle(w, n)
           \/ admin_recertify_node(w, n)
           \/ admin_resolve_task(w, n)
    PROVE  WrapperInv'
<1> USE DEF WrapperInv
<1>1. vector[n] \in Vectors /\ standing[n] \in 0 .. 2
  BY DEF WrapperTypeOK
<1>2. CASE process_node_lifecycle(w, n)
  <2>1. PICK v \in Vectors, c \in get_cost_config_for_node(n) \cap (Accepted \cup {NoConfig}) :
            Begin(w, n, v, Worse(standing[n], Suggest[c][v]), FALSE)
    BY <1>2 DEF process_node_lifecycle
  <2>2. Suggest[c][v] \in 0 .. 2
    BY SuggestType, WrapperAssumption
  <2>3. Worse(standing[n], Suggest[c][v]) \in 0 .. 2
        /\ Suggest[c][v] <= Worse(standing[n], Suggest[c][v])
    BY <1>1, <2>2 DEF Worse
  <2>4. pin[n] \in Accepted => c = pin[n]
    BY StoreAssumption, PinType, WrapperAssumption DEF StoreInv, TypeOK, Rows, get_cost_config_for_node
  <2>5. CoveredBy(n, v, Worse(standing[n], Suggest[c][v]), FALSE)
    BY <2>3, <2>4 DEF CoveredBy
  <2> QED
    BY <2>1, <2>3, <2>5, BeginPart
<1>3. CASE admin_recertify_node(w, n)
  <2>1. Perfect \in Vectors /\ CoveredBy(n, Perfect, 0, FALSE)
    BY WrapperAssumption DEF CoveredBy
  <2>2. Begin(w, n, Perfect, 0, FALSE)
    BY <1>3, Zenon DEF admin_recertify_node
  <2>3. 0 \in 0 .. 2
    OBVIOUS
  <2>4. FALSE \in BOOLEAN
    OBVIOUS
  <2> QED
    BY <2>1, <2>2, <2>3, <2>4, BeginPart, Zenon
<1>4. CASE admin_resolve_task(w, n)
  <2>1. CoveredBy(n, vector[n], 0, TRUE)
    BY DEF CoveredBy
  <2>2. Begin(w, n, vector[n], 0, TRUE)
    BY <1>4, Zenon DEF admin_resolve_task
  <2>3. 0 \in 0 .. 2
    OBVIOUS
  <2>4. TRUE \in BOOLEAN
    OBVIOUS
  <2> QED
    BY <1>1, <2>1, <2>2, <2>3, <2>4, BeginPart, Zenon
<1> QED
  BY <1>2, <1>3, <1>4

\* A step that writes the row of one node.
LEMMA OneRowCovered ==
    ASSUME RowsCovered, NEW n \in Nodes, pin' = pin, pin[n] # Absent,
           \A m \in Nodes \ {n} : /\ vector'[m] = vector[m] /\ standing'[m] = standing[m]
                                  /\ m \in patched => m \in patched',
           n \notin patched' => CoveredBy(n, vector'[n], standing'[n], FALSE)
    PROVE  RowsCovered'
<1> SUFFICES ASSUME NEW m \in Nodes
             PROVE  /\ pin[m] \in Accepted /\ m \notin patched' =>
                          Suggest[pin[m]][vector'[m]] <= standing'[m]
                    /\ pin[m] = Absent => vector'[m] = Perfect
  BY DEF RowsCovered, CoveredBy
<1>1. CASE m = n
  BY <1>1 DEF CoveredBy
<1>2. CASE m # n
  <2>1. /\ pin[m] \in Accepted /\ m \notin patched => Suggest[pin[m]][vector[m]] <= standing[m]
        /\ pin[m] = Absent => vector[m] = Perfect
    BY DEF RowsCovered, CoveredBy
  <2>2. vector'[m] = vector[m] /\ standing'[m] = standing[m]
    BY <1>2
  <2>3. m \notin patched' => m \notin patched
    BY <1>2
  <2> QED
    BY <2>1, <2>2, <2>3
<1> QED
  BY <1>1, <1>2

\* A commit: undisturbed it leaves the consistent row it computed; otherwise it either
\* writes nothing or marks the row.
LEMMA CommitPart ==
    ASSUME WrapperInv, NEW w \in Writers, CommitNode(w)
    PROVE  WrapperInv'
<1> USE DEF WrapperInv
<1>0. PICK t \in work[w] :
          /\ \E v \in Columns(t) : vector' = [vector EXCEPT ![t.node] = v]
          /\ standing' = IF t.status = t.seen.status THEN standing
                         ELSE [standing EXCEPT ![t.node] = t.status]
          /\ patched' = IF Undisturbed(t) THEN patched \ {t.node}
                        ELSE IF t.vector = t.seen.vector /\ t.status = t.seen.status
                        THEN patched ELSE patched \cup {t.node}
  BY DEF CommitNode
<1>1. PICK v \in Columns(t) :
          /\ vector' = [vector EXCEPT ![t.node] = v]
          /\ standing' = IF t.status = t.seen.status THEN standing
                         ELSE [standing EXCEPT ![t.node] = t.status]
          /\ patched' = IF Undisturbed(t) THEN patched \ {t.node}
                        ELSE IF t.vector = t.seen.vector /\ t.status = t.seen.status
                        THEN patched ELSE patched \cup {t.node}
  BY <1>0
<1>2. /\ UNCHANGED <<pin, author, reading, report>>
      /\ work' = [work EXCEPT ![w] = {}]
  BY DEF CommitNode, vars
<1>3. StoreInv'
  BY StoreStep DEF CommitNode, vars
<1>4. t \in Item /\ t.node \in Nodes /\ t.vector \in Vectors /\ t.status \in 0 .. 2
  BY DEF WrapperTypeOK, Item
<1>5. v \in Vectors
  BY <1>4 DEF Columns, WrapperTypeOK
<1>6. WrapperTypeOK'
  BY <1>1, <1>2, <1>4, <1>5 DEF WrapperTypeOK
<1>7. WorkCovered' /\ ReadingsCovered' /\ ReportsCovered'
  BY <1>2 DEF WrapperTypeOK, WorkCovered, ReadingsCovered, ReportsCovered, CoveredBy, Covers
<1>8. \A n \in Nodes \ {t.node} : /\ vector'[n] = vector[n] /\ standing'[n] = standing[n]
                                  /\ n \in patched => n \in patched'
  BY <1>1 DEF WrapperTypeOK
<1>9. CASE Undisturbed(t)
  <2>1. vector[t.node] = t.seen.vector /\ standing[t.node] = t.seen.status /\ ~t.resolves
    BY <1>9 DEF Undisturbed
  <2>2. vector'[t.node] = t.vector /\ standing'[t.node] = t.status
    BY <1>1, <1>4, <2>1 DEF Columns, WrapperTypeOK
  <2>3. pin[t.node] # Absent /\ CoveredBy(t.node, t.vector, t.status, FALSE)
    BY <2>1 DEF WorkCovered, CoveredBy
  <2>4. RowsCovered'
    BY <1>2, <1>4, <1>8, <2>2, <2>3, OneRowCovered
  <2> QED
    BY <1>3, <1>6, <1>7, <2>4
<1>10. CASE ~Undisturbed(t) /\ t.vector = t.seen.vector /\ t.status = t.seen.status
  <2>1. vector' = vector /\ standing' = standing /\ patched' = patched
    BY <1>1, <1>4, <1>10 DEF Columns, WrapperTypeOK
  <2>2. RowsCovered'
    BY <1>2, <2>1 DEF RowsCovered, CoveredBy
  <2> QED
    BY <1>3, <1>6, <1>7, <2>2
<1>11. CASE ~Undisturbed(t) /\ ~(t.vector = t.seen.vector /\ t.status = t.seen.status)
  <2>1. t.node \in patched'
    BY <1>1, <1>11
  <2>2. pin[t.node] # Absent
    BY DEF WorkCovered
  <2>3. RowsCovered'
    BY <1>2, <1>4, <1>8, <2>1, <2>2, OneRowCovered
  <2> QED
    BY <1>3, <1>6, <1>7, <2>3
<1> QED
  BY <1>9, <1>10, <1>11

LEMMA DeathPart ==
    ASSUME WrapperInv, NEW w \in Writers, WriterDies(w)
    PROVE  WrapperInv'
<1> USE DEF WrapperInv
<1>1. /\ UNCHANGED <<pin, author, vector, standing, patched, reading, report>>
      /\ work' = [work EXCEPT ![w] = {}]
  BY DEF WriterDies, vars, nodeVars
<1>2. StoreInv'
  BY StoreStep DEF WriterDies, vars
<1>3. WrapperTypeOK' /\ WorkCovered'
  BY <1>1 DEF WrapperTypeOK, WorkCovered, CoveredBy
<1>4. RowsCovered' /\ ReadingsCovered' /\ ReportsCovered'
  BY <1>1 DEF RowsCovered, ReadingsCovered, ReportsCovered, CoveredBy, Covers
<1> QED
  BY <1>2, <1>3, <1>4

\* The two halves of wrap_decision.
LEMMA ReportPart ==
    ASSUME WrapperInv, (\E n \in Nodes : wrap_decision(n)) \/ Reported
    PROVE  WrapperInv'
<1> USE DEF WrapperInv
<1>1. StoreInv' /\ UNCHANGED <<pin, author, vector, standing, patched, work>>
  BY StoreStep DEF wrap_decision, Reported, vars, nodeVars
<1>2. RowsCovered' /\ WorkCovered'
  BY <1>1 DEF RowsCovered, WorkCovered, CoveredBy
<1>3. ASSUME NEW n \in Nodes, wrap_decision(n) PROVE WrapperInv'
  <2>1. WrapperTypeOK'
    BY <1>1, <1>3 DEF WrapperTypeOK, wrap_decision
  <2>2. ReadingsCovered'
    <3> SUFFICES ASSUME NEW r \in reading'
                 PROVE  /\ pin'[r.node] # Absent
                        /\ CoveredBy(r.node, r.vector, r.status, r.patched)'
      BY DEF ReadingsCovered
    <3>1. r = [node |-> n, vector |-> vector[n], status |-> standing[n],
               patched |-> n \in patched]
      BY <1>3 DEF wrap_decision
    <3>2. r.node = n /\ r.vector = vector[n] /\ r.status = standing[n]
      BY <3>1
    <3>3. ~r.patched => ~(n \in patched)
      BY <3>1, Zenon
    <3>4. pin[n] # Absent /\ pin' = pin
      BY <1>1, <1>3 DEF wrap_decision
    <3>5. pin[n] \in Accepted /\ ~(n \in patched) => Suggest[pin[n]][vector[n]] <= standing[n]
      BY DEF RowsCovered, CoveredBy
    <3> QED
      BY <3>2, <3>3, <3>4, <3>5 DEF CoveredBy
  <2>3. ReportsCovered'
    BY <1>1, <1>3 DEF ReportsCovered, Covers, wrap_decision
  <2> QED
    BY <1>1, <1>2, <2>1, <2>2, <2>3
<1>4. CASE Reported
  <2>1. PICK r \in reading : \E c \in get_cost_config_for_node(r.node) :
            /\ report' = {[node |-> r.node, decision |-> r.status, config |-> c,
                           suggested |-> Suggest[c][r.vector], patched |-> r.patched]}
            /\ reading' = {}
    BY <1>4 DEF Reported
  <2>2. PICK c \in get_cost_config_for_node(r.node) :
            /\ report' = {[node |-> r.node, decision |-> r.status, config |-> c,
                           suggested |-> Suggest[c][r.vector], patched |-> r.patched]}
            /\ reading' = {}
    BY <2>1
  <2>3. /\ r.node \in Nodes /\ pin[r.node] # Absent
        /\ CoveredBy(r.node, r.vector, r.status, r.patched)
    BY DEF WrapperTypeOK, ReadingsCovered
  <2>4. pin[r.node] # NoConfig => c = pin[r.node] /\ c \in Configs
    BY <2>2, <2>3 DEF StoreInv, TypeOK, Rows, get_cost_config_for_node
  <2>5. ReportsCovered'
    BY <1>1, <2>2, <2>3, <2>4, StoreAssumption DEF ReportsCovered, Covers, CoveredBy
  <2>6. WrapperTypeOK' /\ ReadingsCovered'
    BY <1>1, <2>2 DEF WrapperTypeOK, ReadingsCovered
  <2> QED
    BY <1>1, <1>2, <2>5, <2>6
<1> QED
  BY <1>3, <1>4

LEMMA WrapperStep == WrapperInv /\ [WrapperNext]_wrapperVars => WrapperInv'
<1> SUFFICES ASSUME WrapperInv, [WrapperNext]_wrapperVars PROVE WrapperInv'
  OBVIOUS
<1>1. CASE UNCHANGED wrapperVars
  <2>1. StoreInv'
    BY <1>1, StoreStep DEF WrapperInv, wrapperVars
  <2>2. UNCHANGED <<pin, author, vector, standing, patched, work, reading, report>>
    BY <1>1 DEF wrapperVars, nodeVars, vars
  <2> QED
    BY <2>1, <2>2 DEF WrapperInv, WrapperTypeOK, RowsCovered, WorkCovered, ReadingsCovered,
       ReportsCovered, CoveredBy, Covers
<1> QED
  BY <1>1, StorePart, RequestPart, CommitPart, DeathPart, ReportPart DEF WrapperNext

\* For any number of overlapping runs, recertifications, resolutions and configuration
\* requests, which may die: the report of a node with a configuration of its own names
\* a status milder than the hazard beside it asks for only if an overlap or a resolved
\* task left the row, and no undisturbed commit has come since.
THEOREM ReportsAreConsistent == WrapperSpec => []PinnedReportCovers
<1>1. WrapperInit => WrapperInv
  BY WrapperInitInv
<1>2. WrapperInv /\ [WrapperNext]_wrapperVars => WrapperInv'
  BY WrapperStep
<1>3. WrapperInv => PinnedReportCovers
  BY DEF WrapperInv, ReportsCovered, PinnedReportCovers
<1> QED
  BY <1>1, <1>2, <1>3, PTL DEF WrapperSpec
===============================================================================
