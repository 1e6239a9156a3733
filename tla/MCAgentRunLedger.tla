-------------------------- MODULE MCAgentRunLedger --------------------------
(* Instances of AgentRunLedger for TLC. *)
EXTENDS AgentRunLedger

Kind(type, request) == [type |-> type, request |-> request]

\* a run's start, the deltas of two of its requests, and its outcome
RunKinds == {Kind("run_started", 0), Kind("assistant_delta", 1),
             Kind("assistant_delta", 2), Kind("run_completed", 0)}
=============================================================================
