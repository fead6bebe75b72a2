------------------------------ MODULE HttpPort ------------------------------
(***************************************************************************)
(* What the trait HttpClient promises of one call, whatever the transport: *)
(* at most one request leaves, the call ends once, in an error or in a     *)
(* response whose body is bounded, and only after the request left can it  *)
(* be a response.  Module Execution relies on no more than this.           *)
(***************************************************************************)
EXTENDS Naturals

CONSTANT Limit    \* bytes of a response body that are kept

VARIABLES
  call,    \* "called", "failed" or "answered"
  sent,    \* requests that left
  bytes    \* bytes of the response body that are held

vars == <<call, sent, bytes>>

Init == call = "called" /\ sent = 0 /\ bytes = 0

\* The one request leaves.
Send == call = "called" /\ sent = 0 /\ sent' = 1 /\ UNCHANGED <<call, bytes>>

Receive ==
  /\ call = "called"
  /\ sent = 1
  /\ bytes' \in bytes .. Limit
  /\ UNCHANGED <<call, sent>>

\* Before or after the request left.
Fail == call = "called" /\ call' = "failed" /\ UNCHANGED <<sent, bytes>>

Answer == call = "called" /\ sent = 1 /\ call' = "answered" /\ UNCHANGED <<sent, bytes>>

Next == Send \/ Receive \/ Fail \/ Answer
=============================================================================
