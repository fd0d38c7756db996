------------------------- MODULE MCTargetRegistry -------------------------
(***************************************************************************)
(* Small instances of TargetRegistry: two machines may be declared, and two *)
(* announce themselves with the same name.                                 *)
(***************************************************************************)
EXTENDS TargetRegistry

CONSTANTS lab, lab2, xt1, xt2, xt, h1, h2

MCSelectors == {lab, lab2, xt1, xt2, Local, Default}
MCAgents == {xt1, xt2}
MCNameOf == [s \in MCSelectors |-> IF s \in MCAgents THEN xt ELSE s]
MCAddresses == {h1, h2}

Start(targets, discovery, fault, injected) ==
  [targets |-> targets, discovery |-> discovery, fault |-> fault, injected |-> injected]
MCLab == [selector |-> lab, endpoint |-> h1]
MCLab2 == [selector |-> lab2, endpoint |-> Invalid]

MCEnvironments ==
  {Start(<< >>, TRUE, "none", FALSE), Start(<< MCLab >>, TRUE, "none", FALSE),
   Start(<< MCLab, MCLab2 >>, TRUE, "none", FALSE), Start(<< MCLab >>, FALSE, "early", FALSE),
   Start(<< MCLab >>, TRUE, "listener", FALSE), Start(<< >>, FALSE, "none", FALSE),
   Start(<< >>, FALSE, "none", TRUE)}
============================================================================
