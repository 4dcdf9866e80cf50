-------------------------- MODULE MCTerminalReplace --------------------------
(* TLC instance of TerminalReplace: two requests for the same order, whose *)
(* quantity leaves room for a partial fill and for an amendment.           *)
EXTENDS TerminalReplace
=============================================================================
