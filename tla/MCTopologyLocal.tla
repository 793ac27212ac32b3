-------------------------- MODULE MCTopologyLocal --------------------------
\* A spout that feeds two bolts, one of which feeds the other; and a chain of
\* the three, in which the last bolt gets the telemetry of the first as well.
EXTENDS TopologyLocal

Input(source, bolt, stream) == [source |-> source, bolt |-> bolt, stream |-> stream]
Chain == {Input("s", "b1", "data"), Input("b1", "b2", "data")}
GraphsDef ==
  {Chain \cup {Input("s", "b2", "data")}, Chain \cup {Input("b1", "b2", "telemetry")}}
SpoutOrderDef == <<"s">>
BoltOrderDef == <<"b1", "b2">>
ModulesDef == <<"script">>
=============================================================================
