---- MODULE MCSetupMenu ----
EXTENDS SetupMenu

CONSTANTS na, nb, nc

\* two pages of folders, and a card without folders
MCCards == {{<<>>, <<na>>, <<nb>>, <<nc>>}, {<<>>}}
====
