-------------------------- MODULE MCGridLifecycle --------------------------
EXTENDS GridLifecycle
CONSTANTS o1, o2
=============================================================================
