-------------------------- MODULE RestartPromise --------------------------
(***************************************************************************)
(* What the deferred restart of common/CASExampleHelper.h promises, with   *)
(* no deadline kept anywhere: every accepted request is remembered with    *)
(* the time it was promised for, a check answers with a restart as soon as *)
(* one of them is due, the restart is a cold one when any of the requests  *)
(* asked for that, and it serves all of them at once.                      *)
(***************************************************************************)
EXTENDS Integers

CONSTANT Delays    \* milliseconds a request may ask for

VARIABLES
  now,      \* the monotonic clock
  checking, \* a check comes next, before anything else happens
  asked,    \* the requests not yet served, as [due, kind]
  answer    \* what the last check answered: "None", "Warm" or "Cold"

vars == <<now, checking, asked, answer>>

Kinds == {"Warm", "Cold"}

Strongest(requests) ==
  IF \E r \in requests : r.kind = "Cold" THEN "Cold" ELSE "Warm"

Due == \E r \in asked : r.due <= now

Init == now \in Nat /\ ~checking /\ asked = {} /\ answer = "None"

Ask(kind, delay) ==
  /\ ~checking
  /\ asked' = asked \cup {[due |-> now + delay, kind |-> kind]}
  /\ UNCHANGED <<now, checking, answer>>

Check ==
  /\ checking
  /\ checking' = FALSE
  /\ answer' = IF Due THEN Strongest(asked) ELSE "None"
  /\ asked' = IF Due THEN {} ELSE asked
  /\ now' \in Nat /\ now' >= now

Pass ==
  /\ ~checking
  /\ checking' \in BOOLEAN
  /\ now' \in Nat /\ now' >= now
  /\ UNCHANGED <<asked, answer>>

Next ==
  \/ \E kind \in Kinds, delay \in Delays : Ask(kind, delay)
  \/ Check
  \/ Pass

Spec == Init /\ [][Next]_vars

=============================================================================
