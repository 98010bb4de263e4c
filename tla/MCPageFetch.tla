---------------------------- MODULE MCPageFetch ----------------------------
(* A small web for PageFetch.                                              *)
EXTENDS PageFetch, TLC

(* The company's site with its investor pages under a host of their own, a *)
(* report, a newspaper, and a host never collected from.                   *)
MCPages == {"home", "investors", "paper", "report", "elsewhere"}

MCHostOf ==
    [home |-> "firm.com", investors |-> "ir.firm.com", report |-> "firm.com",
     paper |-> "paper.com", elsewhere |-> "x.com"]

MCWithin ==
    ("firm.com" :> {"firm.com"}) @@ ("ir.firm.com" :> {"ir.firm.com", "firm.com"})
    @@ ("paper.com" :> {"paper.com"}) @@ ("x.com" :> {"x.com"})

MCSeeds == <<"home", "paper">>

MCAddressSays ==
    [home |-> {"home"}, investors |-> {"investor"}, report |-> {"annual"}, paper |-> {"blog"}, elsewhere |-> {}]

MCPriority == [home |-> 3, investors |-> 1, report |-> 2, paper |-> 4, elsewhere |-> 5]

MCDocuments ==
    {[parts |-> {"title", "text"}, says |-> {"news"}, canonical |-> NoPage,
      links |-> <<"report", "investors", "report">>],
     [parts |-> {"h1", "description"}, says |-> {}, canonical |-> "home", links |-> <<"elsewhere">>]}
=============================================================================
