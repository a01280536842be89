-------------------------- MODULE MCBenchmarkSide --------------------------
(***************************************************************************)
(* The components of the benchmark side that share no state, checked side  *)
(* by side: `part' names the one a behaviour is about.  The variables of   *)
(* all others are Idle, or initial where an invariant reads them.          *)
(***************************************************************************)
EXTENDS ArtifactTransfer, SealedRun, NativeRequests, RelayReadiness, TerminalTrial,
        NativeRunner, InputCache, TLC

CONSTANTS h1, h2, j1, j2

\* A development evaluation of the CUDA-Agent dataset runs two processes.
TwoModes == <<"verify", "profile">>

\* The evaluation of e2 takes two units of host memory, the others one each.
HostUnits == [e \in Episodes |-> IF e = "e2" THEN 2 ELSE 1]

\* The second key takes all of the RAM tier, and does not fit the disk tier.
Reservations == [k1 |-> 1, k2 |-> 2]
Tiers == [ram |-> 2, disk |-> 1]

VARIABLES
    part     \* the component of this behaviour

Idle == "idle"
TransferIdle ==
    /\ published = Idle /\ delivered = {} /\ incoming = Idle /\ chunk = Idle
    /\ blob = Idle /\ receipt = [a \in Artifacts |-> "none"] /\ pump = Idle /\ deaths = Idle
SealedIdle ==
    /\ leases = Idle /\ seals = Idle /\ sup = Idle /\ starts = Idle /\ control = Idle
    /\ worker = Idle /\ output = Idle /\ clean = Idle /\ sampled = Idle
    /\ launches = [p \in Phases |-> 0] /\ learner = [a \in 1..Attempts |-> "off"]
    /\ actor = Idle /\ consumer = Idle /\ steps = 0
RequestsIdle ==
    /\ training = Idle /\ work = Idle /\ conn = Idle /\ binding = Idle /\ started = Idle
    /\ fatal = Idle /\ claims = Idle /\ ledger = Idle /\ result = [j \in Jobs |-> None]
    /\ used = Idle /\ handlers = Idle /\ generating = Idle /\ runs = [i \in Ids |-> 0]
    /\ crashes = Idle /\ faults = Idle
ReadinessIdle ==
    /\ now = Idle /\ profile = Idle /\ cpu = Idle /\ gpu = Idle /\ pageBoot = Idle
    /\ challenge = Idle /\ pulseDue = Idle /\ probe = Idle /\ posted = Idle
    /\ readiness = NotReady /\ guard = Idle
TrialIdle ==
    /\ admitted = Idle /\ seen = Idle /\ stopped = Idle /\ trialResult = Idle
    /\ phase = Idle /\ exc = Idle /\ turns = Idle /\ req = Idle /\ verified = Idle
    /\ created = Idle /\ broken = Idle /\ uncertain = Idle /\ stopSent = Idle
    /\ deleteSent = Idle /\ cleaning = Idle /\ wait = Idle
    /\ cleanupReceipt = [t \in Trials |-> "none"] /\ flying = Idle /\ container = Idle
    /\ command = [t \in Trials |-> [c \in Commands |-> "none"]]
RunnerIdle ==
    /\ turnLimit = Idle /\ runnerFatal = Idle /\ free = {} /\ waiting = Idle
    /\ held = [e \in Episodes |-> "none"] /\ pc = [e \in Episodes |-> "new"]
    /\ turn = Idle /\ stage = Idle /\ slot = Idle /\ mode = Idle /\ proof = Idle
    /\ best = Idle /\ cleanup = Idle /\ reported = Idle
    /\ alive = [s \in Slots |-> {}] /\ closing = Idle
CacheIdle ==
    /\ entries = <<>> /\ order = Idle /\ cacheLeases = <<>> /\ issued = Idle /\ call = Idle
    /\ child = Idle /\ making = Idle /\ mapped = [c \in Consumers |-> {}]

StartTransfer == part = "artifacts" /\ TransferInit
    /\ ReadinessIdle /\ TrialIdle /\ SealedIdle
    /\ RunnerIdle /\ CacheIdle /\ RequestsIdle
StartReadiness == part = "readiness" /\ ReadinessInit
    /\ TransferIdle /\ TrialIdle /\ SealedIdle
    /\ RunnerIdle /\ CacheIdle /\ RequestsIdle
StartTrial == part = "trial" /\ TrialInit
    /\ TransferIdle /\ ReadinessIdle /\ SealedIdle
    /\ RunnerIdle /\ CacheIdle /\ RequestsIdle
StartSealed == part = "sealed" /\ SealedInit
    /\ TransferIdle /\ ReadinessIdle /\ TrialIdle
    /\ RunnerIdle /\ CacheIdle /\ RequestsIdle
StartRunner == part = "runner" /\ RunnerInit
    /\ TransferIdle /\ ReadinessIdle /\ TrialIdle
    /\ SealedIdle /\ CacheIdle /\ RequestsIdle
StartCache == part = "cache" /\ CacheInit
    /\ TransferIdle /\ ReadinessIdle /\ TrialIdle
    /\ SealedIdle /\ RunnerIdle /\ RequestsIdle
StartRequests == part = "requests" /\ RequestsInit
    /\ TransferIdle /\ ReadinessIdle /\ TrialIdle
    /\ SealedIdle /\ RunnerIdle /\ CacheIdle
Init ==
    \/ StartTransfer \/ StartReadiness \/ StartTrial \/ StartSealed
    \/ StartRunner \/ StartCache \/ StartRequests

StepTransfer == part = "artifacts" /\ TransferNext
    /\ UNCHANGED <<part, readinessVars, trialVars, sealedVars, runnerVars,
                   cacheVars, requestsVars>>
StepReadiness == part = "readiness" /\ ReadinessNext
    /\ UNCHANGED <<part, transferVars, trialVars, sealedVars, runnerVars,
                   cacheVars, requestsVars>>
StepTrial == part = "trial" /\ TrialNext
    /\ UNCHANGED <<part, transferVars, readinessVars, sealedVars, runnerVars,
                   cacheVars, requestsVars>>
StepSealed == part = "sealed" /\ SealedNext
    /\ UNCHANGED <<part, transferVars, readinessVars, trialVars, runnerVars,
                   cacheVars, requestsVars>>
\* Three episodes of one turn share one GPU; two of two turns have one each.
StepRunner == part = "runner" /\ RunnerNext
    /\ (turnLimit = 2 => pc'["e3"] = "new") /\ (turnLimit = 1 => "g2" \in free')
    /\ UNCHANGED <<part, transferVars, readinessVars, trialVars, sealedVars,
                   cacheVars, requestsVars>>
\* What is published here has at least one byte; StorageIsSafe covers empty inputs.
StepCache == part = "cache" /\ CacheNext
    /\ (\A c \in Consumers : call'[c].op = "publish" => call'[c].size > 0)
    /\ UNCHANGED <<part, transferVars, readinessVars, trialVars, sealedVars,
                   runnerVars, requestsVars>>
StepRequests == part = "requests" /\ RequestsNext
    /\ UNCHANGED <<part, transferVars, readinessVars, trialVars, sealedVars,
                   runnerVars, cacheVars>>

vars == <<part, transferVars, readinessVars, trialVars, sealedVars, runnerVars,
          cacheVars, requestsVars>>

\* The other components may come to an end.
Stopped == part \notin {"artifacts", "runner"} /\ UNCHANGED vars

Next ==
    \/ StepTransfer \/ StepReadiness \/ StepTrial \/ StepSealed
    \/ StepRunner \/ StepCache \/ StepRequests
    \/ Stopped

Spec == Init /\ [][Next]_vars

Symmetric == Permutations({h1, h2}) \cup Permutations({j1, j2})
=============================================================================
