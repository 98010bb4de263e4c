----------------------------- MODULE MCCrawlPage -----------------------------
(* Instances of CrawlPage for TLC.                                         *)
EXTENDS CrawlPage, TLC

CONSTANTS a1, a2, b1

(* a1 and a2 are two objects of one company, b1 stands for another.        *)
ThreeObjects == (a1 :> "A") @@ (a2 :> "A") @@ (b1 :> "B")

OneObject == a1 :> "A"
=============================================================================
