------------------------ MODULE MC_UpdatesUndirected ------------------------
EXTENDS UpdatesUndirected
====
