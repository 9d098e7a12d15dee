------------------------------- MODULE BridgeMC -------------------------------
(* A CAN port linked both ways with UDP, two writers of one CAN port, two
   readers of one, and configurations that fail. *)
EXTENDS Bridge

Can(baud) == [type |-> "CAN", baud |-> baud]
Udp == [type |-> "UDP", baud |-> 0]
Serial == [type |-> "SERIAL", baud |-> 0]
LinkLine(src, dst) == [type |-> "LINK", src |-> src, dst |-> dst]
Bad == [type |-> "bad"]

MCConfigs ==
  {<< Can(1000000), Udp, LinkLine(0, 1), LinkLine(1, 0) >>,
   << Can(500000), Serial, Udp, LinkLine(1, 0), LinkLine(2, 0) >>,
   << Can(1000000), Udp, LinkLine(0, 1), LinkLine(0, 1) >>,
   << Udp, LinkLine(0, 1), Can(2000000), LinkLine(1, 0) >>,
   << Udp, Serial, LinkLine(0, 1), Bad, LinkLine(1, 0) >>}
===============================================================================
