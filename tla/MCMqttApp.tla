------------------------------ MODULE MCMqttApp -----------------------------
(***************************************************************************)
(* Instances of MqttApp for TLC.                                           *)
(***************************************************************************)
EXTENDS MqttApp

MCStrings == {"", "mqtt"}
MCStrBytes == [s \in MCStrings |-> IF s = "" THEN 0 ELSE 4]
MCClip == [s \in MCStrings |-> s]

Broker(addr) == [name |-> "mqtt", host |-> "", ipv6 |-> "", addr |-> addr,
                 port |-> 1883, proto |-> ProtocolTCP]

\* Replies with two services, with none, with a section that breaks off, with
\* another signature, and one that ends before its type.
TwoBrokers == ResponseMessage(<<Broker(1), Broker(2)>>, 2)
NoBroker == ResponseMessage(<<>>, 0)
Torn == ResponseMessage(<<Loose>>, 1)
Foreign == [TwoBrokers EXCEPT !.sig = FALSE]
Bare == [NoBroker EXCEPT !.size = 8, !.len = 0]

MCDatagrams == {TwoBrokers, NoBroker, Torn, Bare}
FewDatagrams == {TwoBrokers, Foreign}

=============================================================================
