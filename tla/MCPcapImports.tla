---------------------------- MODULE MCPcapImports ----------------------------
(* Values for PcapImports: two importers of captures with bodies, and one   *)
(* importer of every capture of three packets without bodies.                 *)
EXTENDS Naturals

CONSTANT None

Quiet(proto, stream, ends, time, flag) ==
  [proto |-> proto, stream |-> stream, ends |-> ends, time |-> time, flag |-> flag,
   kinds |-> {}, body |-> None, sound |-> TRUE, good |-> TRUE]

Directions == {<<"a", "b">>, <<"b", "a">>}
TcpPackets ==
  {Quiet("TCP", stream, ends, time, flag) : stream \in 0..1, ends \in Directions,
                                            time \in 1..2, flag \in {None, "fin", "rst"}}
UdpPackets ==
  {[Quiet("UDP", 0, ends, time, None) EXCEPT !.kinds = {"dns"}] :
     ends \in Directions, time \in {1, 3}}
Others == {Quiet("UDP", None, None, 1, None),
           [Quiet("TCP", 0, <<"a", "b">>, 1, None) EXCEPT !.good = FALSE]}
Short(packets) == {<<>>} \cup {<<p, q, r>> : p \in packets, q \in packets, r \in packets}
FlowCaptures == Short(TcpPackets \cup UdpPackets \cup Others)

Http(body, sound) ==
  [Quiet("TCP", 0, <<"a", "b">>, 1, None) EXCEPT !.kinds = {"http", "tls"},
                                                  !.body = body, !.sound = sound]
BodyCaptures ==
  {<<Http("x", TRUE), Http("y", TRUE)>>,
   <<Http("x", TRUE), Http("x", TRUE), Http("y", FALSE)>>,
   <<>>}
=============================================================================
