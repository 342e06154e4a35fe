----------------------------- MODULE MCRegistry -----------------------------
EXTENDS Registry

CONSTANTS mill, rice, four, nine   \* of Names and Digits

\* Two that match by their ID, one that has another name and no license.
MCEntries == {[name |-> mill, id |-> four, license |-> None],
              [name |-> mill, id |-> four, license |-> nine],
              [name |-> rice, id |-> nine, license |-> None]}

\* A change of the name, and the two changes of the status.
MCChanges == {[name |-> mill, active |-> None], [name |-> None, active |-> TRUE],
              [name |-> None, active |-> FALSE]}

MCPicks == {{}, {"id"}, {"license"}}

\* January of a common year first.
MCMonthLengths == <<31, 28, 31, 30, 31, 30>>

\* From 31 January, whose February runs over, and a quarter with a deposit.
MCTerms == {[start |-> [month |-> 1, day |-> 31], end |-> [month |-> 3, day |-> 31],
             every |-> 1, deposit |-> FALSE],
            [start |-> [month |-> 1, day |-> 15], end |-> [month |-> 4, day |-> 20],
             every |-> 3, deposit |-> TRUE]}
=============================================================================
