------------------------------- MODULE MCTabs -------------------------------
\* A data grid tab, or a query tab: instances of GridSession and of QueryTab for
\* TLC.  The two share nothing; a behaviour is one of either, and keeps the
\* variables of the other as they are.
EXTENDS GridSession, QueryTabs

CONSTANTS d1, d2, s1, t1, t2, p1, p2

VARIABLE part   \* what this behaviour is of

tabVars == <<limits, session, opened, panel, disk, text, file, asking, target, schema, runs,
             shown, chart, picker>>

-----------------------------------------------------------------------------
\* The grid: a table with a key and a data column, two pages of two rows; one
\* row of the second page has no key value.
PagesValue == { << <<"k1", "a">>, <<"k2", "a">> >>,
                << <<Null, "b">>, <<"k1", "a">> >> }
InputsValue == << {"k3"}, {"a", "b"} >>
PastedValue == { << <<"k3", "b">> >> }

-----------------------------------------------------------------------------
\* The query tab: only the first database has a schema of its own.
MCSchemas == d1 :> {s1} @@ d2 :> {}

\* One statement with two rows; two of which the second fails.
TwoRows == <<[ok |-> TRUE, rows |-> 2]>>
Failing == <<[ok |-> TRUE, rows |-> 1], [ok |-> FALSE, rows |-> 0]>>

\* A behaviour explores the files, the context, overlapping runs, or a little
\* of everything.
Files == [texts |-> {Empty, t1, t2}, paths |-> {p1, p2}, outcomes |-> {},
          sessions |-> 0, runs |-> 0, loads |-> 0]
MCLimits == {
  Files,
  [texts |-> {Empty}, paths |-> {}, outcomes |-> {TwoRows, Failing},
   sessions |-> 2, runs |-> 1, loads |-> 1],
  [texts |-> {Empty}, paths |-> {}, outcomes |-> {Failing},
   sessions |-> 1, runs |-> 2, loads |-> 1],
  [texts |-> {Empty}, paths |-> {p1}, outcomes |-> {Failing},
   sessions |-> 1, runs |-> 1, loads |-> 1]}

ASSUME QueryAssumption == QTab!ConstantsAssumption

-----------------------------------------------------------------------------
MCInit ==
  /\ Init /\ QTab!Init
  /\ \/ part = "grid" /\ limits = Files /\ disk = [p \in {p1, p2} |-> Empty]
     \/ part = "query"

\* The bounds of a grid may leave nothing to do.
MCNext ==
  /\ UNCHANGED part
  /\ \/ part = "grid" /\ Next /\ UNCHANGED tabVars
     \/ part = "grid" /\ UNCHANGED <<vars, tabVars>>
     \/ part = "query" /\ QTab!Next /\ UNCHANGED vars

MCSpec == MCInit /\ [][MCNext]_<<part, vars, tabVars>>

\* The properties of a save: it writes what the grid shows, and the rows it
\* deletes are those that were confirmed.
SavesAreAsShown ==
  /\ SaveWritesWhatIsShown /\ [][SaveWritesWhatIsShown']_vars
  /\ DeletesOnlyConfirmedRows
=============================================================================
