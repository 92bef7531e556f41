----------------------------- MODULE MCFraming -----------------------------
(* Chains for Framing. *)
EXTENDS BlockFile

Trans(ins, outs) == [ins |-> ins, outs |-> outs]

\* A block of one transaction; a block with spends; scripts of no bytes, and
\* one whose length takes more than a byte.
MCChains ==
  LET small == << Trans(<<1>>, <<0>>) >>
      long  == << Trans(<<0>>, <<5, 1>>), Trans(<<0, 6>>, <<2>>) >>
      bare  == << Trans(<<2>>, <<1>>), Trans(<<1>>, << >>) >>
  IN {<< >>, <<small>>, <<long>>, <<small, long>>, <<long, bare>>}
=============================================================================
