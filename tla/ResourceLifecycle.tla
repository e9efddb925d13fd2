------------------------- MODULE ResourceLifecycle -------------------------
(***************************************************************************)
(* What a TypeOrmProcedureKit promises about the resources it holds (its   *)
(* connection pools and its notification channel), whatever the order of   *)
(* initDatabase(), destroy() and their failures:                           *)
(*                                                                         *)
(*   - it acquires resources only while an initialization runs;            *)
(*   - it is ready only with resources, and new only without;              *)
(*   - a kit that is destroyed holds nothing, unless it reported that a    *)
(*     resource could not be released.                                     *)
(***************************************************************************)

VARIABLES
    phase,    \* the state of the kit
    running,  \* an initialization runs
    held,     \* some resource is held
    failed    \* the last release failed, and that was reported

vars == <<phase, running, held, failed>>

Init ==
    /\ phase = "new"
    /\ running = FALSE
    /\ held = FALSE
    /\ failed = FALSE

Start ==
    /\ phase = "new"
    /\ phase' = "initializing"
    /\ running' = TRUE
    /\ UNCHANGED <<held, failed>>

Acquire ==
    /\ running
    /\ held' = TRUE
    /\ UNCHANGED <<phase, running, failed>>

\* An initialization acquires what is missing and succeeds; if destroy() was
\* called meanwhile, the kit is not ready but about to be destroyed.
Succeed ==
    /\ running
    /\ running' = FALSE
    /\ held' = TRUE
    /\ phase' = IF phase = "initializing" THEN "ready" ELSE phase
    /\ UNCHANGED failed

\* Everything is released, or an attempt to do so fails.
Release ==
    /\ phase # "ready"
    /\ held
    /\ held' \in BOOLEAN
    /\ failed' = held'
    /\ UNCHANGED <<phase, running>>

\* An initialization that failed has rolled back: the kit is as good as new,
\* or of no further use.
Abort ==
    /\ running
    /\ running' = FALSE
    /\ IF phase = "initializing"
       THEN \/ phase' = "new" /\ ~held
            \/ phase' = "destroyed" /\ failed
       ELSE UNCHANGED phase
    /\ UNCHANGED <<held, failed>>

BeginDestroy ==
    /\ phase \in {"new", "initializing", "ready"}
    /\ phase' = "destroying"
    /\ UNCHANGED <<running, held, failed>>

FinishDestroy ==
    /\ phase = "destroying"
    /\ ~running
    /\ ~held \/ failed
    /\ phase' = "destroyed"
    /\ UNCHANGED <<running, held, failed>>

Next ==
    \/ Start \/ Acquire \/ Succeed \/ Release \/ Abort
    \/ BeginDestroy \/ FinishDestroy

Spec == Init /\ [][Next]_vars
=============================================================================
