--------------------------- MODULE RelayReadiness ---------------------------
(***************************************************************************)
(* The readiness handshake of the browser relay and the admission gate     *)
(* that relies on it.  The CPU relay server issues a challenge to its page *)
(* (Handler.pulse), the page asks the GPU page, the GPU page reads the     *)
(* configuration of its server (RelayState.configuration, which proves the *)
(* owner of the model process), and the CPU page posts the answer back     *)
(* (RelayState.pair_receipt), which writes readiness.json.  An episode is  *)
(* admitted on that file by admission.check_readiness and                  *)
(* serving_contracts.guard_gate.                                           *)
(*                                                                         *)
(* Time is counted in pulse intervals of five seconds; hosts agree on it.  *)
(* A message that is lost is one whose next action is never taken.         *)
(***************************************************************************)
EXTENDS Integers

CONSTANTS
    ChallengeTtl,  \* PULSE_TTL
    ReadyTtl,      \* how long a receipt and an observation stay valid
    Life,          \* max_seconds of a relay server
    Required,      \* required_service_seconds of an episode
    MaxTime,       \* bound on the clock
    MaxBoots,      \* bound on server restarts
    MaxPolicy      \* bound on policy activations

ASSUME ReadinessAssumption ==
    /\ {ChallengeTtl, ReadyTtl, Life, Required} \subseteq Nat \ {0}
    /\ {MaxTime, MaxBoots, MaxPolicy} \subseteq Nat

VARIABLES
    now,
    profile,     \* serving profile: "vllm" or "training"
    cpu,         \* CPU relay server: [boot, expires]
    gpu,         \* GPU relay server and controller: [boot, expires, policy, running, uncertain]
    pageBoot,    \* the GPU boot identity both pages were paired with
    challenge,   \* pair_challenge: [id, expires]; ids are unique (uuid4)
    pulseDue,    \* next_pulse_due
    probe,       \* the CPU page's capacityProbe, with the GPU page's answer
    posted,      \* the api/pair request on its way to the CPU server
    readiness,   \* readiness.json
    guard        \* the operator's model_guard_evidence: [boot, policy]

readinessVars == <<now, profile, cpu, gpu, pageBoot, challenge, pulseDue, probe, posted, readiness, guard>>

NoProbe == [id |-> <<0, 0>>]
NoPost == [id |-> <<0, 0>>]
NoChallenge == [id |-> <<0, 1>>, expires |-> 0]
NotReady == [until |-> 0]      \* what RelayState.__init__ writes

ReadinessInit ==
    /\ now = 0 /\ profile \in {"vllm", "training"}
    /\ cpu = [boot |-> 1, expires |-> Life]
    /\ gpu = [boot |-> 1, expires |-> Life, policy |-> 0, running |-> TRUE, uncertain |-> 0]
    /\ pageBoot = 1 /\ challenge = NoChallenge /\ pulseDue = 0 
    /\ probe = NoProbe /\ posted = NoPost /\ readiness = NotReady
    /\ guard = [boot |-> 1, policy |-> 0]

----------------------------------------------------------------------------
\* GET api/pulse: one new challenge per interval; it replaces the last one.
\* The page turns it into its capacity probe.
Pulse ==
    /\ now >= pulseDue /\ now < cpu.expires
    /\ challenge' = [id |-> <<cpu.boot, now>>, expires |-> now + ChallengeTtl]
    /\ pulseDue' = now + 1
    /\ probe' = [id |-> <<cpu.boot, now>>, started |-> now, answered |-> FALSE]
    /\ UNCHANGED <<now, profile, cpu, gpu, pageBoot, posted, readiness, guard>>

\* What configuration() reports; with a training controller the proof also
\* carries the loaded policy and whether the controller is running.
Observation == [at |-> now, boot |-> gpu.boot, policy |-> gpu.policy, running |-> gpu.running,
                uncertain |-> gpu.uncertain, remaining |-> gpu.expires - now]

\* sendCapacity in the GPU page: refused when the server is not the one the
\* pages were paired with.
GpuAnswers ==
    /\ probe # NoProbe /\ ~probe.answered
    /\ gpu.boot = pageBoot /\ gpu.expires > now
    /\ probe' = [id |-> probe.id, started |-> probe.started, answered |-> TRUE,
                 seen |-> Observation]
    /\ UNCHANGED <<now, profile, cpu, gpu, pageBoot, challenge, pulseDue, posted,
                   readiness, guard>>

\* recordCapacity in the CPU page: the whole round trip so far is charged to
\* the lifetime the GPU reported, then the receipt is posted.  An earlier one
\* still under way is aborted.
RemainingOf(p) == p.seen.remaining - (now - p.started)

RecordCapacity ==
    /\ probe # NoProbe /\ probe.answered
    /\ posted' = IF RemainingOf(probe) > 0
                 THEN [id |-> probe.id, seen |-> probe.seen, remaining |-> RemainingOf(probe)]
                 ELSE posted
    /\ probe' = NoProbe
    /\ UNCHANGED <<now, profile, cpu, gpu, pageBoot, challenge, pulseDue, readiness,
                   guard>>

\* pair_receipt takes the answer to the current, unexpired challenge only.
ChallengeMatchesForever == posted.id = challenge.id
ChallengeMatches == posted.id = challenge.id /\ now < challenge.expires

Earliest(S) == CHOOSE x \in S : \A y \in S : x <= y

\* POST api/pair: consume the challenge and write readiness.json.
PairArrives ==
    /\ posted # NoPost /\ posted' = NoPost
    /\ IF ChallengeMatches /\ now < cpu.expires
       THEN /\ challenge' = NoChallenge
            /\ readiness' = [until |-> Earliest({now + ReadyTtl, cpu.expires, now + posted.remaining}),
                           cpu |-> cpu, seen |-> posted.seen,
                           gpuExpires |-> now + posted.remaining]
       ELSE UNCHANGED <<challenge, readiness>>
    /\ UNCHANGED <<now, profile, cpu, gpu, pageBoot, pulseDue, probe, guard>>

----------------------------------------------------------------------------
\* validate_training_controller, on the proof carried by the receipt.
ControllerProven ==
    profile = "training" =>
        /\ now - readiness.seen.at <= ReadyTtl
        /\ readiness.seen.running
        /\ readiness.seen.policy = gpu.policy    \* the policy the group leased

\* check_readiness: a valid receipt of the live CPU server, lifetimes that
\* cover the episode, and no uncertain generation.
Ready ==
    /\ readiness # NotReady /\ readiness.until > now
    /\ readiness.cpu.expires - now >= Required
    /\ readiness.gpuExpires - now >= Required
    /\ ControllerProven
    /\ readiness.seen.uncertain = 0
    /\ readiness.cpu.boot = cpu.boot

\* guard_gate: the operator's observation names the process and, for a
\* training controller, the policy of the receipt.
GuardMatches ==
    /\ guard.boot = readiness.seen.boot
    /\ profile = "training" => guard.policy = readiness.seen.policy

\* admit_group of the Terminal-Bench backend reads the file and admits; it
\* changes nothing here.
Admits == Ready /\ GuardMatches

----------------------------------------------------------------------------
\* The rest of the world: the clock, restarts of either relay server, an
\* operator who pairs the pages again and records the model guard, a policy
\* activation, and a generation that becomes uncertain for good.
Tick ==
    /\ now < MaxTime /\ now' = now + 1
    /\ UNCHANGED <<profile, cpu, gpu, pageBoot, challenge, pulseDue, probe, posted,
                   readiness, guard>>

\* RelayState.__init__ on the CPU: a new boot, no challenge, not ready.
CpuRestarts ==
    /\ cpu.boot + gpu.boot < 2 + MaxBoots
    /\ cpu' = [boot |-> cpu.boot + 1, expires |-> now + Life]
    /\ challenge' = NoChallenge /\ pulseDue' = now /\ readiness' = NotReady
    /\ UNCHANGED <<now, profile, gpu, pageBoot, probe, posted, guard>>

GpuRestarts ==
    /\ cpu.boot + gpu.boot < 2 + MaxBoots
    /\ gpu' = [gpu EXCEPT !.boot = gpu.boot + 1, !.expires = now + Life]
    /\ UNCHANGED <<now, profile, cpu, pageBoot, challenge, pulseDue, probe, posted,
                   readiness, guard>>

PairAgain ==
    /\ pageBoot # gpu.boot
    /\ pageBoot' = gpu.boot /\ probe' = NoProbe
    /\ guard' = [boot |-> gpu.boot, policy |-> gpu.policy]
    /\ UNCHANGED <<now, profile, cpu, gpu, challenge, pulseDue, posted, readiness>>

ControllerMoves ==
    /\ \/ gpu.running /\ gpu' = [gpu EXCEPT !.running = FALSE] /\ UNCHANGED guard
       \/ ~gpu.running /\ gpu' = [gpu EXCEPT !.running = TRUE] /\ UNCHANGED guard
       \/ /\ ~gpu.running /\ gpu.policy < MaxPolicy
          /\ gpu' = [gpu EXCEPT !.policy = gpu.policy + 1]
          /\ guard' = [boot |-> guard.boot, policy |-> gpu.policy + 1]
    /\ profile = "training"
    /\ UNCHANGED <<now, profile, cpu, pageBoot, challenge, pulseDue, probe, posted,
                   readiness>>

OutcomeUncertain ==
    /\ gpu.uncertain = 0 /\ gpu' = [gpu EXCEPT !.uncertain = 1]
    /\ UNCHANGED <<now, profile, cpu, pageBoot, challenge, pulseDue, probe, posted,
                   readiness, guard>>

ReadinessNext ==
    \/ Pulse \/ GpuAnswers \/ RecordCapacity
    \/ PairArrives
    \/ Tick \/ CpuRestarts \/ GpuRestarts \/ PairAgain \/ ControllerMoves \/ OutcomeUncertain

ReadinessSpec == ReadinessInit /\ [][ReadinessNext]_readinessVars

----------------------------------------------------------------------------
\* Whatever the pages delay, lose or deliver late, and whichever server
\* restarts: an episode is admitted only on a GPU observation made less than
\* one challenge and one receipt lifetime ago, through the CPU server that is
\* running now; that server outlives the episode, and so does the GPU server
\* that was observed, up to the time a posted receipt may spend in transit.
AdmissionsFresh ==
    Admits =>
         /\ now - readiness.seen.at < ChallengeTtl + ReadyTtl
         /\ readiness.cpu = cpu
         /\ cpu.expires - now >= Required
         /\ gpu.boot = readiness.seen.boot => gpu.expires - now > Required - ChallengeTtl
=============================================================================
