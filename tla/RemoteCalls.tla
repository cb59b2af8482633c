---------------------------- MODULE RemoteCalls -----------------------------
(***************************************************************************)
(* What a remote call promises: its command is executed at most once, and  *)
(* the caller is answered at most once, with what the execution returned.  *)
(* CommandService implements this specification.                           *)
(***************************************************************************)
CONSTANTS Calls,
          Results,      \* what an execution may end with
          Delivered(_), \* what the caller gets for a result
          Nothing

VARIABLES phase, result, answer
callVars == <<phase, result, answer>>

CallsInit ==
  /\ phase = [c \in Calls |-> "none"]
  /\ result = [c \in Calls |-> Nothing]
  /\ answer = [c \in Calls |-> Nothing]

Step(c, from, to) == phase[c] = from /\ phase' = [phase EXCEPT ![c] = to]

Request(c) == Step(c, "none", "requested") /\ UNCHANGED <<result, answer>>
Execute(c) == Step(c, "requested", "executing") /\ UNCHANGED <<result, answer>>
End(c) ==
  /\ Step(c, "executing", "ended")
  /\ \E r \in Results : result' = [result EXCEPT ![c] = r]
  /\ UNCHANGED answer
Settle(c) ==
  /\ Step(c, "ended", "settled")
  /\ answer' = [answer EXCEPT ![c] = Delivered(result[c])]
  /\ UNCHANGED result

CallsNext == \E c \in Calls : Request(c) \/ Execute(c) \/ End(c) \/ Settle(c)
CallsSpec == CallsInit /\ [][CallsNext]_callVars
=============================================================================
