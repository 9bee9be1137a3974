------------------------------- MODULE SignalBus -------------------------------
(***************************************************************************)
(* Raw events on their way to one node: process_raw_events of              *)
(* src/core/signals/bus.py for one pipeline run after the other, and the   *)
(* classification of the resulting shocks in process_node_lifecycle.       *)
(*                                                                         *)
(* The pipeline passes memory={} to every call, so what the bus remembers  *)
(* lasts as long as one request and one node.                              *)
(***************************************************************************)
EXTENDS Reliability, Sequences

CONSTANTS
    Catalogue,   \* the signals, in the order of the dictionary
    NodeTags, NodeClass,
    Types,       \* values of an event's "type"
    EventIds,    \* values of "event_id"; NoId is an event without one
    NoId,
    Severities,  \* values of "severity", which nothing validates; NoSeverity: not given
    NoSeverity,
    TagSets,     \* values of "domain_tags"
    Window,      \* DEFAULT_DEBOUNCE_HOURS
    MaxHour,     \* bound on timestamps
    MaxEvents,   \* bound on the events of a request
    MaxCalls     \* bound on the requests

Hours == 0 .. MaxHour
Event == [type : Types, id : EventIds \cup {NoId}, tags : TagSets,
          severity : Severities \cup {NoSeverity}, at : Hours]
Keys == Types \X EventIds
Classes == {"REGULATORY", "MACROECONOMIC", "STRUCTURAL", "PERFORMANCE", "DEPENDENCY_SHOCK"}

ASSUME BusAssumption ==
    /\ MaxHour \in Nat /\ MaxEvents \in Nat /\ MaxCalls \in Nat
    /\ Window \in [Types -> Nat] /\ Severities \subseteq Int
    /\ NoId \notin EventIds /\ NoSeverity \notin Severities
    /\ \A i \in 1 .. Len(Catalogue) :
           /\ Catalogue[i].class \in Classes
           /\ Catalogue[i].magnitude \in Level /\ Catalogue[i].quality \in Level

VARIABLES
    calls,     \* pipeline runs begun so far
    memory,    \* debounce memory of the current run: last accepted hour per key
    batch,     \* the classified shocks of the current run
    accepted   \* the shocks made so far, in order: run, type, id, hour, class

vars == <<calls, memory, batch, accepted>>

Init ==
    /\ calls = 0
    /\ memory = [k \in {} |-> 0]
    /\ batch = NoShock
    /\ accepted = << >>

\* Indices of the catalogue signals that concern the node.
match_signals_to_nodes ==
    {i \in 1 .. Len(Catalogue) :
        /\ NodeTags \cap Catalogue[i].tags # {}
        /\ Catalogue[i].affinity = {} \/ NodeClass \in Catalogue[i].affinity}

\* "One shock per event": of the matching signals that share a tag with it, the
\* first one, since the debounce decision does not depend on the signal.
Matching(e) == {i \in match_signals_to_nodes : e.tags \cap Catalogue[i].tags # {}}
First(e) == CHOOSE i \in Matching(e) : \A j \in Matching(e) : i <= j

\* An event without an id gets a fresh uuid, which the memory has never seen.
debounce_signal(e) ==
    e.id # NoId /\ <<e.type, e.id>> \in DOMAIN memory =>
        \/ Window[e.type] = 0
        \/ e.at - memory[<<e.type, e.id>>] >= Window[e.type]

\* Mutant: only the first event of a key is remembered.
RememberedFirst(e) ==
    IF e.id = NoId \/ <<e.type, e.id>> \in DOMAIN memory THEN memory
    ELSE [k \in DOMAIN memory \cup {<<e.type, e.id>>} |->
             IF k \in DOMAIN memory THEN memory[k] ELSE e.at]

Remembered(e) ==
    IF e.id = NoId THEN memory
    ELSE [k \in DOMAIN memory \cup {<<e.type, e.id>>} |->
             IF k = <<e.type, e.id>> THEN e.at ELSE memory[k]]

\* The severity of an event that gives none is the signal's default magnitude.
Strength(e, sig) == IF e.severity = NoSeverity THEN sig.magnitude ELSE e.severity

\* Mutant: a severity above 1 is not capped.
Uncapped(e, sig) == (sig.magnitude * Strength(e, sig) * sig.quality) \div (Scale * Scale)

\* default_magnitude * severity * quality_score, at most 1: a request that gives a
\* negative severity makes a shock of negative magnitude.
Magnitude(e, sig) ==
    Least(Scale, (sig.magnitude * Strength(e, sig) * sig.quality) \div (Scale * Scale))

\* The loop over the shocks in process_node_lifecycle: the last drift replaces
\* the one before, macroeconomic magnitudes add up, and a shock of class
\* DEPENDENCY_SHOCK carries no axes, since the bus gives it none.
Classified(class, m) ==
    CASE class = "REGULATORY" /\ m >= Scale \div 4 -> [batch EXCEPT !.major = TRUE]
      [] class = "REGULATORY" /\ m < Scale \div 4 -> [batch EXCEPT !.minor = @ + 1]
      [] class = "MACROECONOMIC" -> [batch EXCEPT !.macro = @ + m]
      [] class = "STRUCTURAL" -> [batch EXCEPT !.structural = TRUE]
      [] class = "PERFORMANCE" -> [batch EXCEPT !.drift = m]
      [] OTHER -> batch

\* A request reaches the node: process_node_lifecycle starts with an empty memory.
ingest_signals ==
    /\ calls < MaxCalls
    /\ calls' = calls + 1
    /\ memory' = [k \in {} |-> 0]
    /\ batch' = NoShock
    /\ UNCHANGED accepted

Room == calls > 0 /\ Len(accepted) < MaxEvents

process_event(e) ==
    /\ Room
    /\ Matching(e) # {} /\ debounce_signal(e)
    /\ LET sig == Catalogue[First(e)] IN
       /\ batch' = Classified(sig.class, Magnitude(e, sig))
       /\ accepted' = Append(accepted, [call |-> calls, type |-> e.type, id |-> e.id,
                                        at |-> e.at, class |-> sig.class])
    /\ memory' = Remembered(e)
    /\ UNCHANGED calls

Next == ingest_signals \/ \E e \in Event : process_event(e)

Spec == Init /\ [][Next]_vars
-------------------------------------------------------------------------------
TypeOK ==
    /\ calls \in 0 .. MaxCalls
    /\ DOMAIN memory \subseteq Keys /\ \A k \in DOMAIN memory : memory[k] \in Hours
    /\ batch \in [structural : BOOLEAN, drift : Int, macro : Int,
                  major : BOOLEAN, minor : 0 .. MaxEvents]
    /\ batch.drift <= Scale /\ batch.macro <= MaxEvents * Scale
    /\ Len(accepted) <= MaxEvents

\* Two shocks of one run with the same type and id, the earlier one first.
SameSource(x, y) == x.type = y.type /\ x.id = y.id /\ x.id # NoId /\ Window[x.type] > 0

\* Within one pipeline run no two shocks of a type and id lie within its debounce
\* window, in whatever order their timestamps arrive (debounce_signal).
DebouncedWithinRun ==
    \A i, j \in 1 .. Len(accepted) :
        i < j /\ accepted[i].call = accepted[j].call /\ SameSource(accepted[i], accepted[j]) =>
            accepted[j].at - accepted[i].at >= Window[accepted[i].type]

\* "debounces raw external/internal signals" (docs/architecture.md): the window
\* holds between requests too.
Debounced ==
    \A i, j \in 1 .. Len(accepted) : i < j /\ SameSource(accepted[i], accepted[j]) =>
        accepted[j].at - accepted[i].at >= Window[accepted[i].type]

\* A shock only ever takes reliability away: the penalties of a run lie in the unit
\* interval of the axes (reliability_dynamics.py caps them at 1.0 as well).
ShocksInUnitInterval == batch.drift \in Level /\ batch.macro >= 0

\* "External signals (regulatory changes, macro indices) ... forwards them to
\* affected nodes" (docs/architecture.md): a macroeconomic event makes a
\* macroeconomic shock.
MacroForwarded ==
    \A i \in 1 .. Len(accepted) :
        accepted[i].type = "macroeconomic" => accepted[i].class = "MACROECONOMIC"
===============================================================================
