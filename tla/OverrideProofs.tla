--------------------------- MODULE OverrideProofs ---------------------------
(***************************************************************************)
(* What both controllers' proofs need to know of the overrides.            *)
(***************************************************************************)
EXTENDS Overrides, TLAPS

\* An override has an expiry, if only NoUntil, and one that is set an actor.
LEMMA OverrideFields ==
  \A o \in Overrides : o.until \in Nat /\ (o.set => o.actor \in Actors)
<1>1. SUFFICES ASSUME NEW o \in Overrides
               PROVE  o.until \in Nat /\ (o.set => o.actor \in Actors)
  OBVIOUS
<1>2. CASE o = Cleared
  BY <1>2 DEF Cleared, NoUntil
<1>3. CASE o \in [set : {TRUE}, actor : Actors, until : Nat]
  BY <1>3
<1>4. QED BY <1>2, <1>3 DEF Overrides

\* An override stays well formed under a merge patch and under decoding.
LEMMA OverrideTypes ==
  /\ Cleared \in Overrides
  /\ \A o \in Overrides, a \in Actors, u \in Nat :
       MergeOverride(o, a, u) \in Overrides
  /\ \A l, o \in Overrides : DecodeOverride(l, o) \in Overrides
<1>1. Cleared \in Overrides
  BY DEF Overrides
<1>2. \A o \in Overrides : o.until \in Nat
  BY OverrideFields
<1>3. ASSUME NEW o \in Overrides, NEW a \in Actors, NEW u \in Nat
      PROVE MergeOverride(o, a, u) \in Overrides
  BY <1>2 DEF Overrides, MergeOverride
<1>4. ASSUME NEW l \in Overrides, NEW o \in Overrides
      PROVE DecodeOverride(l, o) \in Overrides
  BY <1>2, <1>3, OverrideFields DEF DecodeOverride
<1>5. QED BY <1>1, <1>3, <1>4
=============================================================================
