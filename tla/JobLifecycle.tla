---------------------------- MODULE JobLifecycle ----------------------------
(* What an onboarding job promises to its programmer, without the workers,   *)
(* their leases and lock versions, and without the server's administrators:  *)
(* it goes its way one state at a time, as if one worker carried it; what it *)
(* has built from the merge on is of the source it names; only a trial gets  *)
(* its server served, and nobody gives it up who has left it served; once it *)
(* is cancelled no revision is taken up, and only a service whose revision   *)
(* was under way then comes back, with that revision.                        *)
(* OnboardingPipeline implements this specification.                         *)
EXTENDS Integers

CONSTANTS Jobs,        \* ids of jobs
          MaxSource,   \* bound: source revisions of one job
          Late         \* a source that was pushed by a worker out of date

VARIABLES kind,      \* MCP or EXTERNAL, once the job is there
          state,     \* where the job stands
          source,    \* its source revision, 0: none
          artifact,  \* the source it has merged and goes on with, 0: none
          serves,    \* whether the pipeline has its server served
          asked      \* revisions that are under way

vars == <<kind, state, source, artifact, serves, asked>>

GivenUp == {"FAILED", "QUARANTINED", "CANCELLED"}

\* What a worker does that all goes well for
Way ==
  {<<"SOURCE_UPLOADED", "PR_CREATED">>, <<"PR_CREATED", "CI_RUNNING">>,
   <<"MERGED", "ARTIFACT_BUILDING">>, <<"ARTIFACT_BUILDING", "DEPLOYING">>,
   <<"DEPLOYING", "REGISTERED_DISABLED">>, <<"REGISTERED_DISABLED", "TRIAL_TESTING">>,
   <<"TRIAL_TESTING", "ACTIVE">>}

\* and when checks or a trial fail that may be repeated
Back == {<<"CI_RUNNING", "AWAITING_REVISION">>, <<"TRIAL_TESTING", "REGISTERED_DISABLED">>}

Init ==
  /\ kind = [j \in Jobs |-> "MCP"]
  /\ state = [j \in Jobs |-> "NONE"]
  /\ source = [j \in Jobs |-> 0]
  /\ artifact = [j \in Jobs |-> 0]
  /\ serves = [j \in Jobs |-> FALSE]
  /\ asked = [j \in Jobs |-> 0]

Submit(j) ==
  /\ state[j] = "NONE"
  /\ \/ /\ kind' = [kind EXCEPT ![j] = "MCP"]
        /\ state' = [state EXCEPT ![j] = "SOURCE_UPLOADED"]
     \/ /\ kind' = [kind EXCEPT ![j] = "EXTERNAL"]
        /\ state' = [state EXCEPT ![j] = "REGISTERED_DISABLED"]
  /\ source' = [source EXCEPT ![j] = 1]
  /\ UNCHANGED <<artifact, serves, asked>>

\* The programmer begins a revision: no job that is cancelled takes one up.
Ask(j) ==
  /\ state[j] \notin {"NONE", "CANCELLED"}
  /\ asked' = [asked EXCEPT ![j] = @ + 1]
  /\ UNCHANGED <<kind, state, source, artifact, serves>>

\* A source is replaced if one was asked for, or the job has failed.  A service
\* takes a revision that is under way at any time, after its end, too.
Revise(j) ==
  /\ asked[j] # 0 /\ source[j] < MaxSource
  /\ asked' = [asked EXCEPT ![j] = @ - 1]
  /\ source' = [source EXCEPT ![j] = @ + 1]
  /\ \/ /\ kind[j] = "MCP" /\ state[j] \in {"AWAITING_REVISION", "FAILED"}
        /\ state' = [state EXCEPT ![j] = "SOURCE_UPLOADED"]
     \/ /\ kind[j] = "EXTERNAL" /\ state[j] # "NONE"
        /\ state' = [state EXCEPT ![j] = "REGISTERED_DISABLED"]
  /\ UNCHANGED <<kind, artifact, serves>>

Advance(j) ==
  /\ kind[j] = "MCP"
  /\ \E to \in {"PR_CREATED", "CI_RUNNING", "ARTIFACT_BUILDING", "DEPLOYING",
                "REGISTERED_DISABLED", "TRIAL_TESTING", "ACTIVE", "AWAITING_REVISION"} :
       /\ <<state[j], to>> \in Way \cup Back
       /\ state' = [state EXCEPT ![j] = to]
  /\ UNCHANGED <<kind, source, artifact, serves, asked>>

Merge(j) ==
  /\ kind[j] = "MCP" /\ state[j] = "CI_RUNNING"
  /\ state' = [state EXCEPT ![j] = "MERGED"]
  /\ \E merged \in {source[j], Late} : artifact' = [artifact EXCEPT ![j] = merged]
  /\ UNCHANGED <<kind, source, serves, asked>>

\* Only a trial starts to serve; it may end at any time.
Serve(j) ==
  /\ state[j] = "TRIAL_TESTING"
  /\ serves' = [serves EXCEPT ![j] = TRUE]
  /\ UNCHANGED <<kind, state, source, artifact, asked>>

Stop(j) ==
  /\ serves' = [serves EXCEPT ![j] = FALSE]
  /\ UNCHANGED <<kind, state, source, artifact, asked>>

\* A worker has failed, and has stopped the server before.
GiveUp(j) ==
  /\ state[j] \notin GivenUp \cup {"NONE", "ACTIVE"} /\ ~serves[j]
  /\ \E to \in {"FAILED", "QUARANTINED"} : state' = [state EXCEPT ![j] = to]
  /\ artifact' = [artifact EXCEPT ![j] = 0]
  /\ UNCHANGED <<kind, source, serves, asked>>

\* The end: the programmer's, an administrator's, the token's; or a drift of
\* the server in service
Cut(j) ==
  /\ \/ /\ state[j] \notin {"NONE", "QUARANTINED", "CANCELLED"}
        /\ state' = [state EXCEPT ![j] = "CANCELLED"]
     \/ /\ state[j] = "ACTIVE"
        /\ state' = [state EXCEPT ![j] = "QUARANTINED"]
  /\ serves' = [serves EXCEPT ![j] = FALSE]
  /\ artifact' = [artifact EXCEPT ![j] = 0]
  /\ UNCHANGED <<kind, source, asked>>

\* An administrator asks for a revision, of a job in quarantine or in service.
Reopen(j) ==
  /\ state[j] \in {"QUARANTINED", "ACTIVE"}
  /\ state' = [state EXCEPT ![j] = "AWAITING_REVISION"]
  /\ artifact' = [artifact EXCEPT ![j] = 0]
  /\ UNCHANGED <<kind, source, serves, asked>>

Next ==
  \E j \in Jobs :
    \/ Serve(j) \/ Stop(j)
    \/ Submit(j) \/ Ask(j) \/ Revise(j) \/ Advance(j) \/ Merge(j)
    \/ GiveUp(j) \/ Cut(j) \/ Reopen(j)

Spec == Init /\ [][Next]_vars
=============================================================================
