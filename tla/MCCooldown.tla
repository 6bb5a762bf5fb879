------------------------------ MODULE MCCooldown ------------------------------
(***************************************************************************)
(* Instances of Cooldown for TLC.  States that the actions and properties  *)
(* cannot tell apart are one state (SinceNow):                             *)
(*  - of a deadline only how far away it is matters, not how long ago it   *)
(*    passed; the clock of the first state found in each class stays far   *)
(*    below MaxTime;                                                       *)
(*  - whether the credential itself is unavailable, and until when, is     *)
(*    read only while no model has a state of its own (Decides): every     *)
(*    later use is preceded by an assignment (Availability, Hit);          *)
(*  - the two models are interchangeable, so that a set of what is kept of *)
(*    each says all of both.                                               *)
(***************************************************************************)
EXTENDS Cooldown

CONSTANTS m1, m2

Ahead(d) == IF d = 0 THEN -1 ELSE IF d <= now THEN 0 ELSE d - now
StateSinceNow(s) == [s EXCEPT !.retry = Ahead(@), !.recover = Ahead(@)]

AuthRead ==
    IF Known(models) = {} THEN auth ELSE [auth EXCEPT !.unavailable = FALSE, !.retry = 0]

ModelSinceNow(m) == IF models[m] = NoState THEN NoState ELSE StateSinceNow(models[m])
ShardSinceNow(m) ==
    IF shards[m] = NoShard THEN NoShard ELSE [shards[m] EXCEPT !.next = Ahead(@)]

SinceNow ==
    <<StateSinceNow(AuthRead), {<<ModelSinceNow(m), ShardSinceNow(m)>> : m \in Models}>>
=============================================================================
