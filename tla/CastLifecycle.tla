---------------------------- MODULE CastLifecycle ----------------------------
(***************************************************************************)
(* What the 3.4.3 client is promised about each spell it asks for, whatever *)
(* happens between the proxy and the 3.3.5 realm: SPELL_PREPARE binds the   *)
(* client's cast ID, SPELL_START may follow, and one verdict ends it.  The  *)
(* client dismisses a cast by cancelling it or by leaving the world, and is *)
(* then owed nothing more (but may still see what was already on its way).  *)
(***************************************************************************)

CONSTANT Casts      \* the cast IDs of the client, in the order it uses them
VARIABLES phase,    \* what the client has been told of each cast
          dismissed \* the casts the client gave up

lifecycleVars == <<phase, dismissed>>

Verdicts == {"done", "failed"}
Phases == {"new", "asked", "prepared", "begun"} \cup Verdicts

LifecycleInit ==
    /\ phase = [c \in Casts |-> "new"]
    /\ dismissed = {}

Move(c, from, to) ==
    /\ phase[c] \in from
    /\ phase' = [phase EXCEPT ![c] = to]
    /\ UNCHANGED dismissed

Ask(c)     == Move(c, {"new"}, "asked")
Prepare(c) == Move(c, {"asked"}, "prepared")
Begin(c)   == Move(c, {"prepared"}, "begun")
Finish(c)  == Move(c, {"prepared", "begun"}, "done")

\* A pet's failure names the client's own cast ID, so it needs no PREPARE.
Fail(c) == Move(c, {"asked", "prepared", "begun"}, "failed")

\* A failure the realm reports for a spell with nothing pending is shown under
\* the last cast of that spell that was answered.
Blame(c) == Move(c, {"done"}, "failed")

\* Logging out dismisses every cast at once, a cancel only one.
Dismiss(casts) ==
    /\ \A c \in casts : phase[c] # "new"
    /\ dismissed' = dismissed \cup casts
    /\ UNCHANGED phase

LifecycleNext ==
    \/ \E c \in Casts : Ask(c) \/ Prepare(c) \/ Begin(c) \/ Finish(c) \/ Fail(c) \/ Blame(c)
    \/ \E casts \in SUBSET Casts : Dismiss(casts)

LifecycleSpec == LifecycleInit /\ [][LifecycleNext]_lifecycleVars
=============================================================================
