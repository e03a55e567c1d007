----------------------------- MODULE Discovery ------------------------------
(***************************************************************************)
(* What sendQuery promises its caller, without interfaces, sockets, timers *)
(* or buffers: the replies heard are read in the order they were heard, and*)
(* the caller gets all of their records, or, when one reply cannot be read,*)
(* the records of those before it together with the verdict "some".        *)
(***************************************************************************)
EXTENDS Wire

CONSTANT Replies   \* messages that may be heard

VARIABLES
  heard,    \* replies, in the order they were heard
  read,     \* number of replies read
  found,    \* records handed to the caller
  outcome   \* "pending", "all", "some" or "refused"

vars == <<heard, read, found, outcome>>

Readable(m) == m.size <= BufferSize

Init == heard = <<>> /\ read = 0 /\ found = <<>> /\ outcome = "pending"

Refuse ==
  /\ outcome = "pending" /\ heard = <<>>
  /\ outcome' = "refused"
  /\ UNCHANGED <<heard, read, found>>

Hear ==
  /\ outcome = "pending" /\ read = 0
  /\ \E m \in Replies : heard' = Append(heard, m)
  /\ UNCHANGED <<read, found, outcome>>

Read ==
  /\ outcome = "pending" /\ read < Len(heard)
  /\ Readable(heard[read + 1])
  /\ read' = read + 1
  /\ found' = found \o heard[read + 1].items
  /\ UNCHANGED <<heard, outcome>>

ReturnAll ==
  /\ outcome = "pending" /\ read = Len(heard)
  /\ outcome' = "all"
  /\ UNCHANGED <<heard, read, found>>

ReturnSome ==
  /\ outcome = "pending" /\ read < Len(heard)
  /\ ~Readable(heard[read + 1])
  /\ outcome' = "some"
  /\ UNCHANGED <<heard, read, found>>

Next == Refuse \/ Hear \/ Read \/ ReturnAll \/ ReturnSome

Spec == Init /\ [][Next]_vars

=============================================================================
