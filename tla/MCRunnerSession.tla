---- MODULE MCRunnerSession ----
EXTENDS RunnerSession
====
