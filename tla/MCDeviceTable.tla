---------------------------- MODULE MCDeviceTable ----------------------------
(* Instances of DeviceTable for TLC.                                          *)
EXTENDS DeviceTable, TLC

CONSTANTS h1, h2

Names == h1 :> "e1" @@ h2 :> "e2"
E(label, hw, conf) == [label |-> label, hw |-> hw, conf |-> conf]

\* The fans under their own names and under chosen ones, with other curves, not
\* configured, named twice, and none.
SomeFiles ==
  {<<>>, <<E("e1", h1, "a"), E("e2", h2, "a")>>, <<E("x", h1, "a"), E("e2", h2, "b")>>,
   <<E("x", h1, "b")>>, <<E("y", h1, "a"), E("x", h2, "a")>>, <<E("e1", h1, NoConf)>>,
   <<E("x", h1, "a"), E("y", h1, "b")>>}
=============================================================================
