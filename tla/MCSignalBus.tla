----------------------------- MODULE MCSignalBus ------------------------------
(***************************************************************************)
(* SignalBus for TLC.  ApiCatalogue is the catalogue the API is built with *)
(* (src/core/api/catalogue.py); TestCatalogue has a signal of each class,  *)
(* as the unit tests build them, the macroeconomic one of halved quality.  *)
(***************************************************************************)
EXTENDS SignalBus

ApiCatalogue == <<
    [class |-> "REGULATORY", tags |-> {"EU"}, magnitude |-> 35, quality |-> 100,
     affinity |-> {"ML_MODEL", "BUSINESS_RULE_SET"}],
    [class |-> "REGULATORY", tags |-> {"US"}, magnitude |-> 35, quality |-> 100,
     affinity |-> {"ML_MODEL"}],
    [class |-> "MACROECONOMIC", tags |-> {"US"}, magnitude |-> 15, quality |-> 100,
     affinity |-> {"ML_MODEL"}],
    [class |-> "DEPENDENCY_SHOCK", tags |-> {}, magnitude |-> 0, quality |-> 100,
     affinity |-> {}] >>

TestCatalogue == <<
    [class |-> "PERFORMANCE", tags |-> {"drift"}, magnitude |-> 40, quality |-> 100,
     affinity |-> {}],
    [class |-> "REGULATORY", tags |-> {"EU"}, magnitude |-> 35, quality |-> 100,
     affinity |-> {"ML_MODEL"}],
    [class |-> "MACROECONOMIC", tags |-> {"US"}, magnitude |-> 15, quality |-> 50,
     affinity |-> {}],
    [class |-> "STRUCTURAL", tags |-> {"schema"}, magnitude |-> 50, quality |-> 100,
     affinity |-> {"DB_SCHEMA"}] >>

AllTags == {"drift", "EU", "US", "schema"}

\* 24 hours for a regulatory or macroeconomic event, none for a drift metric;
\* two units of the clock are one window.
Windows == [t \in Types |-> IF t = "performance" THEN 0 ELSE 2]

\* Far too high and negative: a request may give any number.
AnySeverity == {400, -100}

OneTag == {{t} : t \in NodeTags}
===============================================================================
