------------------------------ MODULE MCClient ------------------------------
(***************************************************************************)
(* Instances of Client for TLC.  Responder a is heard on two interfaces,   *)
(* one of its services differs from one of b only in the port, and long    *)
(* answers with more than a receive buffer holds.  An IPv6 text of a is as *)
(* long as one can be that its length byte still tells.                    *)
(***************************************************************************)
EXTENDS Client

MCStrings == {"", "web", "ssh", "host", "longest", "huge"}

MCStrBytes == [s \in MCStrings |->
                 CASE s = "" -> 0 [] s = "longest" -> 255
                   [] s = "huge" -> 3072 [] OTHER -> 4]

MCClip == [s \in MCStrings |-> IF s = "huge" THEN "" ELSE s]

Service(name, addr, port) ==
  [name |-> name, host |-> "host", ipv6 |-> "", addr |-> addr, port |-> port,
   proto |-> ProtocolTCP]

Ssh == [Service("ssh", 9, 22) EXCEPT !.ipv6 = "longest"]

Reply1 == ResponseMessage(<<Service("web", 1, 80), Ssh>>, 2)
Reply2 == ResponseMessage(<<Service("web", 1, 81)>>, 1)
NoHits == ResponseMessage(<<>>, 0)
TooBig == ResponseMessage(<<Service("huge", 2, 80)>>, 1)

\* The first interface, behind which long is, may be one that sendTo fails on.
Routes == <<{"long"}, {"a", "b"}, {}, {"a"}>>
Answers == [r \in {"a", "b", "long"} |->
              CASE r = "a" -> <<Reply1, NoHits>> [] r = "b" -> <<Reply2>>
                [] r = "long" -> <<TooBig>>]

\* What the theorems about the answers of a query assume.
ASSUME ProperReplies

=============================================================================
