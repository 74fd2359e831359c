------------------------------ MODULE Overrides ------------------------------
(***************************************************************************)
(* The two temporary overrides of a RedroidInstance, status.suspended and  *)
(* status.woken, and the decision they take part in.  An override is a     *)
(* nullable struct {reason, actor, until}; the reason is only shown, so it *)
(* is left out.  Time is a natural number and NoUntil stands for a nil     *)
(* "until".                                                                *)
(*                                                                         *)
(* Every write of an override is a JSON merge patch, and every response is *)
(* decoded into the Go object the caller already holds.  Both keep a field *)
(* the document does not mention, which is what MergeOverride and          *)
(* DecodeOverride say.                                                     *)
(***************************************************************************)
EXTENDS Naturals

CONSTANT Actors          \* who may hold an override: a task, the CLI, an operator

NoUntil == 0
NoActor == "none"

ASSUME ActorsAssumption == NoActor \notin Actors

Cleared == [set |-> FALSE, actor |-> NoActor, until |-> NoUntil]

Overrides == {Cleared} \cup [set : {TRUE}, actor : Actors, until : Nat]

\* Until != nil && Until.Before(now): the comparison is strict, so an override
\* is still in force at the very instant it names.
Expired(o, now) == o.set /\ o.until # NoUntil /\ o.until < now

Live(o, now) == o.set /\ ~Expired(o, now)

\* The merge patch {"actor": a} or {"actor": a, "until": u} applied to what the
\* server stores: without a new "until" the stored one stays.
MergeOverride(stored, a, u) ==
  [set |-> TRUE, actor |-> a, until |-> IF u = NoUntil THEN stored.until ELSE u]

\* The server's copy decoded into the local struct: an absent override leaves
\* the local one alone, a present one without "until" keeps the local "until".
DecodeOverride(local, server) ==
  IF server.set THEN MergeOverride(local, server.actor, server.until) ELSE local

\* The four-level priority: woken, spec.suspend, suspended, default.
DesiredRunning(suspend, suspended, woken, now) ==
  \/ Live(woken, now)
  \/ ~suspend /\ ~Live(suspended, now)
=============================================================================
