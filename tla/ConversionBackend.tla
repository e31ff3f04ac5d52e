-------------------------- MODULE ConversionBackend --------------------------
(***************************************************************************)
(* What a composition may expect of the backend that converts it           *)
(* (ConversionBackend and ConversionResult, core/conversion.hpp): every    *)
(* request gets at most one result, and it is superseded only after a      *)
(* newer request of its group, that is of its composition, was made.       *)
(***************************************************************************)
EXTENDS Naturals, Sequences

CONSTANT Groups   \* the epochs of compositions

VARIABLE requests \* requests[sequence]: the group and what became of it

Results == {"converted", "superseded", "lost"}
Request == [group : Groups, status : Results \union {"pending"}]

Pending(sequence) == requests[sequence].status = "pending"

MadeLater(sequence) ==
  \E later \in DOMAIN requests :
    later > sequence /\ requests[later].group = requests[sequence].group

Init == requests = <<>>

Predict(group) == requests' = Append(requests, [group |-> group, status |-> "pending"])

Answer(sequence, result) ==
  /\ Pending(sequence)
  /\ result = "superseded" => MadeLater(sequence)
  /\ requests' = [requests EXCEPT ![sequence].status = result]

Next ==
  \/ \E group \in Groups : Predict(group)
  \/ \E sequence \in DOMAIN requests, result \in Results : Answer(sequence, result)

Spec == Init /\ [][Next]_requests
=============================================================================
