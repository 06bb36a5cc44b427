-------------------------- MODULE OnDemandResearch --------------------------
(***************************************************************************)
(* Paid web research of one candidate.  Readers are requests of the page    *)
(* (TailRadarOnDemandResearchService): they read the candidate's research   *)
(* stage in the workflow, mark it running, claim an attempt, call the       *)
(* provider, end the attempt and write the stage, each step a transaction   *)
(* of its own and none of them under a lock.  Commands are                  *)
(* `tail-radar research [--force]`, which run the attempt without the       *)
(* stage.  Whether the provider's output is accepted is ResearchEvidence.   *)
(*                                                                         *)
(* One identity (candidate, run, analysis_as_of, prompt version, provider,  *)
(* model); the hash of the instructions does not change under it.           *)
(***************************************************************************)
EXTENDS Naturals, Sequences, FiniteSets

CONSTANTS
    Readers, Commands,
    MaxEvents          \* bound on each kind of event

Kinds == {"request", "command", "crash", "error", "uncertain"}

Callers == Readers \cup Commands

ASSUME CallerAssumption == Readers \cap Commands = {}
ASSUME EventAssumption  == MaxEvents \in [Kinds -> Nat]

VARIABLES
    stage,     \* tail_radar_workflow_candidates: research_status
    link,      \* ... and research_id, 0 when it has none
    rows,      \* tail_radar_research_analyses, in the order of creation
    called,    \* history: the rows for which the provider was called
    pc,        \* where each caller is
    force,     \* is the caller's attempt a forced one?
    mine,      \* the row a caller claimed or was given
    verdict,   \* the status a caller last read or decided
    used       \* events so far, by kind

attempts == <<rows, called>>
vars == <<stage, link, attempts, pc, force, mine, verdict, used>>

-----------------------------------------------------------------------------
Served    == {"succeeded", "no_evidence"}
Statuses  == {"running", "failed"} \cup Served
Stages    == {"pending"} \cup Statuses
Attempt   == [status : Statuses, forced : BOOLEAN]
AttemptSteps == {"claim", "call", "end"}
StageSteps   == {"lookup", "mark", "link", "failStage"}
Locations    == {"idle"} \cup AttemptSteps \cup StageSteps

\* From marking the stage to writing its result.
Working == AttemptSteps \cup {"link", "failStage"}

Goto(c, l) == pc' = [pc EXCEPT ![c] = l]

Spend(kind) ==
    /\ used[kind] < MaxEvents[kind]
    /\ used' = [used EXCEPT ![kind] = @ + 1]

\* The call is over: it returned or raised.
Leave(c) ==
    /\ Goto(c, "idle")
    /\ force' = [force EXCEPT ![c] = FALSE]
    /\ mine' = [mine EXCEPT ![c] = 0]
    /\ verdict' = [verdict EXCEPT ![c] = "none"]

GoOn(c, l) == Goto(c, l) /\ UNCHANGED <<force, mine, verdict>>

\* A commit: acknowledged, or of unknown outcome after it took effect, which is
\* raised past every handler.  (Of unknown outcome and without effect, it
\* leaves what Crash leaves.)
Acknowledged(c, next) == next /\ UNCHANGED used
Unacknowledged(c)     == Leave(c) /\ Spend("uncertain")

-----------------------------------------------------------------------------
(* The stage, on behalf of a reader.                                        *)

\* A running stage refuses everybody; a failed one whoever does not confirm a
\* retry, a pending one whoever does.
Refused(c) ==
    /\ pc[c] = "idle"
    /\ stage \notin Served
    /\ UNCHANGED vars

\* The stage is read and judged; nothing is locked by that.
ReadStage(c) ==
    /\ pc[c] = "idle"
    /\ Spend("request")
    /\ \/ stage \in Served /\ Goto(c, "lookup")
       \/ stage \in {"pending", "failed"} /\ Goto(c, "mark")
    /\ force' = [force EXCEPT ![c] = (stage = "failed")]
    /\ verdict' = [verdict EXCEPT ![c] = stage]
    /\ UNCHANGED <<stage, link, attempts, mine>>

ServedRows == {i \in DOMAIN rows : rows[i].status \in Served}

\* Mutation: the newest attempt, whatever became of it.
LatestAny == Len(rows)

\* get_latest_research: the newest attempt that has an artifact.
LatestServed == CHOOSE i \in ServedRows : \A j \in ServedRows : j <= i

\* It is returned when its status is the one the stage had, else refused.
Lookup(c) ==
    /\ pc[c] = "lookup"
    /\ Leave(c)
    /\ UNCHANGED <<stage, link, attempts, used>>

Mark(c) ==
    /\ pc[c] = "mark"
    /\ stage' = "running"
    /\ link' = 0
    /\ Acknowledged(c, GoOn(c, "claim")) \/ Unacknowledged(c)
    /\ UNCHANGED attempts

\* Mutation: the link is written without asking for the attempt's status.
LinkUnvalidated(c) ==
    /\ pc[c] = "link"
    /\ stage' = "succeeded" /\ link' = mine[c]
    /\ Leave(c)
    /\ UNCHANGED <<attempts, used>>

\* _set_candidate_stage with _validate_workflow_stage_link.
Link(c) ==
    /\ pc[c] = "link"
    /\ \/ /\ rows[mine[c]].status = verdict[c]
          /\ stage' = verdict[c] /\ link' = mine[c]
          /\ Acknowledged(c, Leave(c)) \/ Unacknowledged(c)
       \/ /\ rows[mine[c]].status # verdict[c]
          /\ Leave(c)
          /\ UNCHANGED <<stage, link, used>>
    /\ UNCHANGED attempts

FailStage(c) ==
    /\ pc[c] = "failStage"
    /\ stage' = "failed"
    /\ link' = 0
    /\ Acknowledged(c, Leave(c)) \/ Unacknowledged(c)
    /\ UNCHANGED attempts

-----------------------------------------------------------------------------
(* The attempt (TailRadarResearchService), for both kinds of caller.        *)

\* The command goes straight to the attempt.
Command(c) ==
    /\ pc[c] = "idle"
    /\ Spend("command")
    /\ force' \in {[force EXCEPT ![c] = f] : f \in BOOLEAN}
    /\ Goto(c, "claim")
    /\ UNCHANGED <<stage, link, attempts, mine, verdict>>

Ordinary == {i \in DOMAIN rows : ~rows[i].forced}

\* Mutation: a cached failure is reported and the stage not written.
AfterAttemptQuiet(c, status) ==
    IF c \in Commands \/ status \notin Served THEN "idle" ELSE "link"

\* What follows an attempt whose status is known: a reader writes the stage,
\* or reports that the attempt is still running and leaves the stage as it is.
AfterAttempt(c, status) ==
    IF c \in Commands \/ status = "running" THEN "idle"
    ELSE IF status \in Served THEN "link" ELSE "failStage"

\* Mutation: the cached attempt is not looked for and the identity not unique.
ClaimAlways(c) ==
    /\ pc[c] = "claim"
    /\ rows' = Append(rows, [status |-> "running", forced |-> force[c]])
    /\ mine' = [mine EXCEPT ![c] = Len(rows) + 1]
    /\ Goto(c, "call")
    /\ UNCHANGED <<stage, link, called, force, verdict, used>>

\* Mutation: a confirmed retry takes the failed attempt up again.
ClaimReopens(c) ==
    /\ pc[c] = "claim"
    /\ \E i \in 1..(Len(rows) + 1) :
          /\ IF i \in DOMAIN rows
             THEN /\ rows[i].status = "failed"
                  /\ rows' = [rows EXCEPT ![i].status = "running"]
             ELSE rows' = Append(rows, [status |-> "running", forced |-> force[c]])
          /\ mine' = [mine EXCEPT ![c] = i]
    /\ Goto(c, "call")
    /\ UNCHANGED <<stage, link, called, force, verdict, used>>

\* claim_research: the ordinary attempt is returned as it stands, whatever its
\* status; the unique identity lets one be inserted, a forced one always.
Claim(c) ==
    /\ pc[c] = "claim"
    /\ \/ /\ ~force[c]
          /\ \E i \in Ordinary :
                LET status == rows[i].status IN
                IF AfterAttempt(c, status) = "idle" THEN Leave(c)
                ELSE /\ Goto(c, AfterAttempt(c, status))
                     /\ mine' = [mine EXCEPT ![c] = i]
                     /\ verdict' = [verdict EXCEPT ![c] = status]
                     /\ UNCHANGED force
          /\ UNCHANGED <<rows, used>>
       \/ /\ force[c] \/ Ordinary = {}
          /\ rows' = Append(rows, [status |-> "running", forced |-> force[c]])
          /\ \/ /\ Goto(c, "call")
                /\ mine' = [mine EXCEPT ![c] = Len(rows) + 1]
                /\ UNCHANGED <<force, verdict, used>>
             \/ Unacknowledged(c)
    /\ UNCHANGED <<stage, link, called>>

\* Mutation: the provider's error code becomes the attempt's status.
CallRaw(c) ==
    /\ pc[c] = "call"
    /\ called' = called \cup {mine[c]}
    /\ \E v \in Served \cup {"invalid_response"} : verdict' = [verdict EXCEPT ![c] = v]
    /\ Goto(c, "end")
    /\ UNCHANGED <<stage, link, rows, force, mine, used>>

\* The provider answers with evidence, without any, or fails; an output the
\* evidence rules refuse is a failure too.
Call(c) ==
    /\ pc[c] = "call"
    /\ called' = called \cup {mine[c]}
    /\ \E v \in Served \cup {"failed"} : verdict' = [verdict EXCEPT ![c] = v]
    /\ Goto(c, "end")
    /\ UNCHANGED <<stage, link, rows, force, mine, used>>

\* complete_research and fail_research end a running attempt only.
End(c) ==
    /\ pc[c] = "end"
    /\ rows[mine[c]].status = "running"
    /\ rows' = [rows EXCEPT ![mine[c]].status = verdict[c]]
    /\ \/ /\ UNCHANGED used
          /\ IF c \in Commands THEN Leave(c) ELSE GoOn(c, AfterAttempt(c, verdict[c]))
       \/ Unacknowledged(c)
    /\ UNCHANGED <<stage, link, called>>

-----------------------------------------------------------------------------
(* The environment.                                                         *)

\* Mutation: a provider's call that fails is made again, as a forced attempt.
CallFailsAgain(c) ==
    /\ pc[c] # "idle"
    /\ Spend("error")
    /\ called' = IF pc[c] = "call" THEN called \cup {mine[c]} ELSE called
    /\ IF pc[c] = "call"
       THEN Goto(c, "claim") /\ force' = [force EXCEPT ![c] = TRUE] /\ UNCHANGED <<mine, verdict>>
       ELSE Leave(c)
    /\ UNCHANGED <<stage, link, rows>>

\* A call raises and took no effect.  Inside the try of the service a reader
\* goes on to fail the stage; elsewhere the request ends.
CallFails(c) ==
    /\ pc[c] # "idle"
    /\ Spend("error")
    /\ called' = IF pc[c] = "call" THEN called \cup {mine[c]} ELSE called
    /\ IF c \in Readers /\ pc[c] \in AttemptSteps THEN GoOn(c, "failStage") ELSE Leave(c)
    /\ UNCHANGED <<stage, link, rows>>

Crash(c) ==
    /\ pc[c] # "idle"
    /\ Spend("crash")
    /\ called' \in {called, IF pc[c] = "call" THEN called \cup {mine[c]} ELSE called}
    /\ Leave(c)
    /\ UNCHANGED <<stage, link, rows>>

-----------------------------------------------------------------------------
Init ==
    /\ stage = "pending" /\ link = 0
    /\ rows = <<>> /\ called = {}
    /\ pc = [c \in Callers |-> "idle"]
    /\ force = [c \in Callers |-> FALSE]
    /\ mine = [c \in Callers |-> 0]
    /\ verdict = [c \in Callers |-> "none"]
    /\ used = [k \in Kinds |-> 0]

Next ==
    \/ \E c \in Readers : Refused(c) \/ ReadStage(c) \/ Lookup(c) \/ Mark(c) \/ Link(c)
                          \/ FailStage(c)
    \/ \E c \in Commands : Command(c)
    \/ \E c \in Callers : Claim(c) \/ Call(c) \/ End(c) \/ CallFails(c) \/ Crash(c)

Spec == Init /\ [][Next]_vars

-----------------------------------------------------------------------------
(* Properties.                                                              *)

\* Every variable keeps its type.
TypeOK ==
    /\ stage \in Stages
    /\ link \in Nat
    /\ rows \in Seq(Attempt)
    /\ called \subseteq DOMAIN rows
    /\ pc \in [Callers -> Locations]
    /\ force \in [Callers -> BOOLEAN]
    /\ mine \in [Callers -> Nat]
    /\ verdict \in [Callers -> Stages \cup {"none"}]
    /\ used \in [Kinds -> Nat]

\* At most one ordinary paid call is ever made, whoever asks and whatever fails
\* (docs/adr/0010, "at-most-one ordinary paid attempt under concurrent
\* execution").
OrdinaryCallOnce ==
    \A i, j \in called : ~rows[i].forced /\ ~rows[j].forced => i = j

\* A stage that says the research is done links an attempt that ended so.
StageIsBacked ==
    /\ stage \in Served => link \in DOMAIN rows /\ rows[link].status = stage
    /\ stage \notin Served => link = 0

\* A request that reads such a stage finds the attempt, unless forced attempts
\* gave the candidate a second result.
ServedIsFound ==
    \A c \in Readers :
        pc[c] = "lookup" /\ Cardinality(ServedRows) < 2 =>
            ServedRows # {} /\ rows[LatestServed].status = verdict[c]

\* What the stage says of the research is there for those who ask.
StageIsTrue == StageIsBacked /\ ServedIsFound

\* The stage says running only while a request is at work on it: what leaves it
\* running for ever, so that every later request is refused, is a crash, a failed
\* call, a commit of unknown outcome, or the command that runs the same attempt
\* without the stage.
StuckOnlyByFault ==
    used["crash"] + used["error"] + used["uncertain"] + used["command"] = 0 =>
        (stage = "running" => \E c \in Readers : pc[c] \in Working)

\* The stage can be believed: what it says is done is there, and what it says is
\* running is being worked on.
StageCanBeTrusted == StageIsTrue /\ StuckOnlyByFault

\* Nobody pays twice for one decision: the provider is called at most once for each
\* request and each command, and a request pays once more only after an attempt has
\* failed, though the failure it confirms was read before others acted on it (two
\* confirmations of one failure are two decisions).
PaymentsAreAsked ==
    /\ Cardinality(called) <= used["request"] + used["command"]
    /\ used["command"] + used["error"] = 0 =>
          \A i \in DOMAIN rows : rows[i].forced => \E j \in 1..(i - 1) : rows[j].status = "failed"

\* What the candidate's research costs: one ordinary call, and those that were asked for.
PaymentsAreRight == OrdinaryCallOnce /\ PaymentsAreAsked

\* The ordinary attempt is claimed once and ended once, and its end is final.
OrdinaryState ==
    IF Ordinary = {} THEN "none"
    ELSE LET s == rows[CHOOSE i \in Ordinary : TRUE].status
         IN IF s \in Served THEN "succeeded" ELSE s

Paid == INSTANCE OfficialSnapshot WITH
    slot <- OrdinaryState, artifact <- (OrdinaryState = "succeeded")

PaidSpec == Paid!Spec

=============================================================================
