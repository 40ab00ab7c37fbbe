-------------------------- MODULE MCResearchCorpus --------------------------
(* One publication, found by all three providers: an arXiv PDF of 9 pages  *)
(* with a card and a diagram, and a PDF of its publisher.                  *)
EXTENDS ResearchCorpus, TLC

CONSTANTS paper

MCLayers == paper :> Layers

preprint == [source |-> <<paper, "url">>, pages |-> 9]
article == [source |-> <<paper, "doi_url">>, pages |-> 7]

MCDocuments == {preprint, article}
MCClaims == {[document |-> preprint, page |-> 9], [document |-> article, page |-> 8]}
MCCards == {[document |-> preprint, page |-> 0], [document |-> preprint, page |-> 3]}

MCPolicy == [sources |-> 2, providers |-> 2, perLayer |-> 2, verified |-> 1, reproducibility |-> 35]

ContentSymmetry == Permutations(Contents)
=============================================================================
