------------------------------ MODULE MCMirror ------------------------------
EXTENDS Mirror

Ask1(op, gb, days, on) == [op |-> op, gb |-> gb, days |-> days, on |-> on]

\* One request of each kind, the renewal to unlimited; bulk changes of days that
\* add, and that take more than is left.
MCRequests ==
  {Ask1("addGb", 1, 0, TRUE), Ask1("addDays", 0, 1, TRUE),
   Ask1("renew", 0, 0, TRUE), Ask1("toggle", 0, 0, TRUE),
   Ask1("edit", 1, 0, TRUE), Ask1("rotate", 0, 0, TRUE),
   Ask1("refresh", 0, 0, TRUE), Ask1("connect", 0, 0, TRUE),
   Ask1("update", 2, 2, FALSE), Ask1("bulkGb", 1, 0, TRUE), Ask1("bulkDays", 0, 1, TRUE),
   Ask1("bulkDays", 0, -3, TRUE), Ask1("bulkGb", -1, 0, TRUE),
   Ask1("bulkClear", 0, 0, TRUE)}

\* An old row: the first write gives it a mirror.
MCMirrors == {NoMirror}
=============================================================================
