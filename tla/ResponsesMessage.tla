-------------------------- MODULE ResponsesMessage --------------------------
(***************************************************************************)
(* What an answer of /v1/responses promises its client, whatever lane it   *)
(* came through: it comes whole, or it is announced, its items only ever   *)
(* grow, and it ends once, with every item done as it was streamed, or     *)
(* fails where it is.                                                      *)
(***************************************************************************)
EXTENDS ResponsesEvents

VARIABLE response

Init == response \in {NoResponse, [NoResponse EXCEPT !.status = "in_progress"]}

Going == response.valid /\ response.status = "in_progress"

\* The same items, and more to them, and more of them.
Extends(new, old) ==
    /\ Len(old) <= Len(new)
    /\ \A i \in DOMAIN old :
          new[i].kind = old[i].kind /\ IsPrefix(old[i].data, new[i].data)

Grow ==
    /\ Going
    /\ Extends(response'.items, response.items)
    /\ response' = [response EXCEPT !.items = response'.items]

\* Only an answer that has nothing else to show adds an empty item at the end.
Complete ==
    /\ Going
    /\ response'.status \in {"completed", "incomplete"} /\ response'.valid
    /\ response'.done = DOMAIN response'.items
    /\ IF response.items = <<>> THEN Len(response'.items) = 1
       ELSE /\ Len(response'.items) = Len(response.items)
            /\ \A i \in DOMAIN response.items :
                  response'.items[i].data = response.items[i].data

Fail ==
    /\ Going
    /\ response' = [response EXCEPT !.status = "failed"]

Deliver ==
    /\ response = NoResponse
    /\ response' = Whole(response'.status, response'.items)
    /\ response'.status \in {"completed", "incomplete"}

Next == Grow \/ Complete \/ Fail \/ Deliver

Spec == Init /\ [][Next]_response
============================================================================
