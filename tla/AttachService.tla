---------------------------- MODULE AttachService ----------------------------
(***************************************************************************)
(* The gRPC service that the eNB uses and the MME implements: Attach         *)
(* (examples/gw-tester/s1mme).  Whoever calls waits, and gets one answer.    *)
(***************************************************************************)
CONSTANTS
  Call,  \* calls of Attach
  None   \* not a call, an eNB or a subscriber

VARIABLE caller  \* the state of a call, and what it returned

ServiceInit == caller = [c \in Call |-> "none"]

CallAttach(c) ==
  /\ caller[c] = "none"
  /\ caller' = [caller EXCEPT ![c] = "waiting"]

\* The call returns a response, or an error.
Answer(c, outcome) ==
  /\ caller[c] = "waiting"
  /\ caller' = [caller EXCEPT ![c] = outcome]

Answers(c) == \E outcome \in {"success", "error"} : Answer(c, outcome)

ServiceNext == \E c \in Call : CallAttach(c) \/ Answers(c)

\* Every call is answered; nobody has to call.
ServiceSpec ==
  /\ ServiceInit /\ [][ServiceNext]_caller
  /\ \A c \in Call : WF_caller(Answers(c))

=============================================================================
