-------------------------- MODULE MCEngineBackends --------------------------
(* Three hashes, of which two agree in their first 64 bits, and two entries. *)
EXTENDS EngineBackends, TLC

CONSTANTS h1, h2, h3, e1, e2

MCCut == h1 :> h1 @@ h2 :> h1 @@ h3 :> h3

\* The line of the header as it is (bzing_engines.h:52).
MCHeader == {"ldb"}

\* The line of the header as it is, without it, and with each engine that the
\* blocks would not choose in a build that has others.
MCDefinitions == {"", "ldb", "khash", "align", "sparse"}
=============================================================================
