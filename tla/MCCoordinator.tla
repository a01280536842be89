--------------------------- MODULE MCCoordinator ---------------------------
(***************************************************************************)
(* A batch of four episodes for Coordinator, admitted by either policy.    *)
(* The cfg gives the constants of terminal waves; Native is the same batch *)
(* under the other policy.                                                 *)
(***************************************************************************)
EXTENDS Coordinator, TLC

CONSTANTS g1, g2, b1, b2, cpuPool, gpuPool

\* Two groups on two backends.  cpuPool is limited and shared by both groups; gpuPool has
\* no capacity entry.  The last plan is accounted by its backend's stages.
MCGroups == <<g1, g1, g2, g2>>
MCBackends == <<b1, b1, b2, b2>>
MCExecutors == <<cpuPool, gpuPool, cpuPool, cpuPool>>
MCNeed ==
    <<[cpu |-> 2, mem |-> 1], [cpu |-> 1, mem |-> 1],
      [cpu |-> 1, mem |-> 2], [cpu |-> 1, mem |-> 1]>>
MCCapacity == cpuPool :> [cpu |-> 2, mem |-> 3]

VARIABLE admission

N1 == INSTANCE Coordinator WITH Policy <- "native-groups", MaxGroups <- 2, MaxWorkers <- 3

InWaves == admission = Policy

MCInit == LoggedInit /\ admission \in {"terminal-waves", "native-groups"}

MCStep == (InWaves /\ Step) \/ (~InWaves /\ N1!Step)
MCHook == (InWaves /\ Hook) \/ (~InWaves /\ N1!Hook)
MCFailure == (InWaves /\ EventFailure) \/ (~InWaves /\ N1!EventFailure)
MCDeadline == (InWaves /\ DeadlineExpires) \/ (~InWaves /\ N1!DeadlineExpires)
MCOther == (InWaves /\ (Cancellation \/ WorkerStep \/ Terminated))
           \/ (~InWaves /\ (N1!Cancellation \/ N1!WorkerStep \/ N1!Terminated))

MCNext ==
    \/ (MCStep \/ MCHook \/ MCDeadline \/ MCOther) /\ UNCHANGED <<admission, failed>>
    \/ MCFailure /\ failed' = TRUE /\ UNCHANGED admission

mcvars == <<vars, admission, failed>>

MCSpec == MCInit /\ [][MCNext]_mcvars
          /\ WF_vars(MCStep) /\ WF_vars(MCHook) /\ WF_vars(MCDeadline)
=============================================================================
