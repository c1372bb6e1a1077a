-------------------------- MODULE MCBrowserStream ---------------------------
EXTENDS BrowserStream

MCTotal == [e \in End |-> IF e = "client" THEN 2 ELSE 1]
=============================================================================
