---- MODULE MCGemdriveRead ----
EXTENDS GemdriveRead

\* forwards and backwards, past the end and before the start
MCSeeks == {[mode |-> "set", by |-> 1], [mode |-> "set", by |-> 9],
            [mode |-> "cur", by |-> 2], [mode |-> "cur", by |-> -1],
            [mode |-> "end", by |-> -3]}
====
