----------------------------- MODULE MCJobTimer ------------------------------
\* Small instances of JobTimer for TLC.
EXTENDS JobTimer

\* Times at uneven distances with one beyond the bound, and an expression that comes to
\* its end.
MCExpressions == {{1, 2, 4, 100}, {2}}
=============================================================================
