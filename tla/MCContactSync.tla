--------------------------- MODULE MCContactSync ---------------------------
EXTENDS ContactSync, TLC

\* As much as may happen in the book of each provider: one event fewer where
\* names and UIDs are apart, which multiplies the states.
MCInit == Init /\ budget = IF provider = "carddav" THEN Events - 1 ELSE Events

MCSpec == MCInit /\ [][Next]_vars /\ Fairness
============================================================================
