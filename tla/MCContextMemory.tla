-------------------------- MODULE MCContextMemory --------------------------
(* Five messages for TLC, three short ones; two facts come up twice.         *)
EXTENDS ContextMemory

CONSTANTS f1, f2, f3

MCFactsOf == <<{f1}, {f2}, {f1, f3}, {}, {f2}>>
MCChars == <<300, 200, 600, 700, 100>>
=============================================================================
