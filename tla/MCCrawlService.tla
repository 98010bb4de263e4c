--------------------------- MODULE MCCrawlService ---------------------------
(* Instances of CrawlService for TLC.                                      *)
EXTENDS CrawlService, TLC

(* Jobs and hosts are model values that only equality tells apart; used    *)
(* in runs without liveness properties.                                    *)
Symmetry == Permutations(Jobs) \cup Permutations(Hosts)
=============================================================================
