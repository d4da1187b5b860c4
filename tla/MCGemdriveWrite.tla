---- MODULE MCGemdriveWrite ----
EXTENDS GemdriveWrite
====
